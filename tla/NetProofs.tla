----------------------------- MODULE NetProofs ------------------------------
(***************************************************************************)
(* The safety of module Net for tables, caches and rings of any size and    *)
(* for any traffic of well-formed frames.                                   *)
(***************************************************************************)
EXTENDS Net, TableProofs, IpProofs
-----------------------------------------------------------------------------
(* The stack.  What the wire's frames lead to.                              *)

\* Protocol and payload of a frame with an IP packet.
Header(f) == f.payload.header
Body(f) == f.payload.body

RxArp(f) == /\ f.ethertype = ETH_TYPE_ARP
            /\ NoEffect
            /\ arp_cache_update(f.payload.sender_ip, f.payload.sender_mac)
            /\ NoBuffer \/ arp_send_reply(f.payload)
RxPing(f) == /\ IsPing(f)
             /\ HeaderAccepted(f.payload.len, Header(f))
             /\ IcmpAccepted(IpLength(Header(f)), Body(f))
             /\ Body(f).type = ICMP_TYPE_ECHO_REQUEST
             /\ icmp_echo_reply(Header(f), Body(f), IpLength(Header(f)))
             /\ NoEffect /\ UNCHANGED arp_vars
RxUdp(f) == /\ IsUdp(f)
            /\ UdpAccepted(IpLength(Header(f)), Body(f))
            /\ socket_deliver_udp(ntohs(Body(f).dst_port), Kept(Header(f), Body(f)))
            /\ NoBuffer /\ UNCHANGED arp_vars

(* A frame is dropped, or it is one of three kinds.                         *)
LEMMA RxCases ==
  ASSUME NEW f, ethernet_rx(f)
  PROVE  Dropped \/ RxArp(f) \/ RxPing(f) \/ RxUdp(f)
<1>1. CASE f.ethertype = ETH_TYPE_ARP /\ arp_rx(f.payload)
  BY <1>1, Zenon DEF arp_rx, RxArp
<1>2. CASE f.ethertype = ETH_TYPE_IPV4 /\ ip_rx(f.payload)
  <2> DEFINE h == f.payload.header
             b == f.payload.body
             len == IpLength(h)
  <2>1. CASE ~HeaderAccepted(f.payload.len, h)
    BY <1>2, <2>1, Zenon DEF ip_rx
  <2>2. CASE HeaderAccepted(f.payload.len, h)
    <3>1. CASE h.protocol = IP_PROTO_ICMP
      <4>1. icmp_rx(h, b, len)
        BY <1>2, <2>2, <3>1 DEF ip_rx, IP_PROTO_ICMP, IP_PROTO_UDP
      <4> QED
        BY <1>2, <2>2, <3>1, <4>1, Zenon DEF icmp_rx, RxPing, IsPing, IsIp, Header, Body
    <3>2. CASE h.protocol = IP_PROTO_UDP
      <4>1. udp_rx(h, b, len)
        BY <1>2, <2>2, <3>2 DEF ip_rx, IP_PROTO_ICMP, IP_PROTO_UDP
      <4> QED
        BY <1>2, <2>2, <3>2, <4>1, Zenon DEF udp_rx, RxUdp, IsUdp, IsIp, Header, Body
    <3>3. CASE h.protocol \notin {IP_PROTO_ICMP, IP_PROTO_UDP}
      BY <1>2, <2>2, <3>3 DEF ip_rx
    <3> QED
      BY <3>1, <3>2, <3>3
  <2> QED
    BY <2>1, <2>2
<1> QED
  BY <1>1, <1>2 DEF ethernet_rx

(* A datagram that udp_rx accepts has a port and fits a slot of a ring.     *)
LEMMA UdpFrame ==
  ASSUME NEW f \in Traffic, IsUdp(f), UdpAccepted(IpLength(Header(f)), Body(f))
  PROVE  /\ ntohs(Body(f).dst_port) \in Port
         /\ Kept(Header(f), Body(f)) \in Packet
         /\ NoneToPortZero => ntohs(Body(f).dst_port) # 0
  BY TrafficAssumption, Zenon DEF IsUdp, IsIp, Header, Body, NoneToPortZero

(* The stack changes the socket table and the cache only through their own  *)
(* operations.                                                              *)
LEMMA RxSteps ==
  ASSUME NEW f \in Traffic, ethernet_rx(f)
  PROVE  Next /\ [ArpNext]_arp_vars
<1>1. CASE Dropped
  BY <1>1 DEF Dropped, Next
<1>2. CASE RxArp(f)
  <2>1. f.payload.sender_ip \in Ip /\ f.payload.sender_mac \in Mac
    BY <1>2, TrafficAssumption, Zenon DEF RxArp
  <2> QED
    BY <1>2, <2>1, Zenon DEF RxArp, Next, ArpNext
<1>3. CASE RxPing(f)
  BY <1>3, Zenon DEF RxPing, Next
<1>4. CASE RxUdp(f)
  BY <1>4, UdpFrame, Zenon DEF RxUdp, Next
<1> QED
  BY <1>1, <1>2, <1>3, <1>4, RxCases
-----------------------------------------------------------------------------
(* The servers.                                                             *)

Serving == {"bind", "poll", "send"}

\* A server has a socket from its first call on, and no other server has it.
Owns(p) == /\ sock[p] \in Socket
           /\ sockets[sock[p]].in_use = 1
           /\ \A q \in Server \ {p} : sock[q] # sock[p]

\* The socket has the server's port once it is bound, and before that none.
Named(p) == /\ pc[p] # "bind" => sockets[sock[p]].bound_port = ECHO_PORT
            /\ pc[p] = "bind" => /\ sockets[sock[p]].bound_port = 0
                                 /\ NoneToPortZero => sockets[sock[p]].recv_count = 0

ServerTypeOK == /\ pc \in [Server -> {"off", "socket"} \cup Serving]
                /\ sock \in [Server -> Socket \cup {-1}]
                /\ buf \in [Server -> Packet \cup {NoPacket}]

ServerInv ==
  /\ ServerTypeOK
  /\ \A p \in Server : /\ pc[p] \in {"off", "socket"} => sock[p] = -1
                       /\ pc[p] \in Serving => Owns(p) /\ Named(p)
                       /\ pc[p] = "send" => buf[p] \in Packet

NetInv == SocketInv /\ QueuedPackets /\ ArpInv /\ ServerInv

(* The calls of a server are operations on the table, too.                  *)
LEMMA ServerSteps ==
  ASSUME ServerInv, NEW p \in Server, udpecho(p) \/ Start(p) \/ Kill(p)
  PROVE  Next /\ UNCHANGED arp_vars
<1>1. CASE Start(p) \/ Kill(p)
  BY <1>1, Zenon DEF Start, Kill, StackIdle, Next
<1>2. CASE pc[p] = "socket" /\ sys_command16_socket(p) /\ StackIdle
  BY <1>2, Zenon DEF sys_command16_socket, StackIdle, Next
<1>3. CASE pc[p] = "bind" /\ sys_command17_bind(p) /\ StackIdle
  <2>1. sock[p] \in Socket /\ ECHO_PORT \in Port
    BY <1>3, SizeAssumption, Zenon DEF ServerInv, Owns, Serving
  <2> QED
    BY <1>3, <2>1, Zenon DEF sys_command17_bind, StackIdle, Next
<1>4. CASE pc[p] = "poll" /\ sys_command19_recvfrom(p) /\ StackIdle
  <2>1. sock[p] \in Socket
    BY <1>4, Zenon DEF ServerInv, Owns, Serving
  <2> QED
    BY <1>4, <2>1, Zenon DEF sys_command19_recvfrom, StackIdle, Next
<1>5. CASE pc[p] = "send" /\ sys_command18_sendto(p) /\ UNCHANGED arp_vars
  BY <1>5, Zenon DEF sys_command18_sendto, Next
<1> QED
  BY <1>1, <1>2, <1>3, <1>4, <1>5, Zenon DEF udpecho

(* The step of the whole stack, as one of the table and of the cache.       *)
LEMMA StackSteps ==
  ASSUME NetInv, [NetNext]_net_vars
  PROVE  [Next]_vars /\ [ArpNext]_arp_vars
<1>1. CASE UNCHANGED net_vars
  BY <1>1 DEF net_vars, stack_vars, vars, arp_vars
<1>2. CASE Receive
  BY <1>2, RxSteps DEF Receive
<1>3. CASE \E p \in Server : udpecho(p) \/ Start(p) \/ Kill(p)
  BY <1>3, ServerSteps DEF NetInv
<1> QED
  BY <1>1, <1>2, <1>3 DEF NetNext

(* So the table, the rings and the cache keep their invariants.             *)
LEMMA StackInv ==
  ASSUME NetInv, [NetNext]_net_vars
  PROVE  SocketInv' /\ QueuedPackets' /\ ArpInv'
<1>1. SocketInv /\ QueuedPackets /\ ArpInv
  BY DEF NetInv
<1>2. [Next]_vars /\ [ArpNext]_arp_vars
  BY StackSteps
<1>3. SocketInv' /\ ArpInv'
  BY <1>1, <1>2, NextSocketInv, ArpStep
<1> QED
  BY <1>1, <1>2, <1>3, QueuedStep

(* A frame from the wire leaves the servers' sockets to them.               *)
LEMMA ReceiveKeeps ==
  ASSUME NetInv, UNCHANGED server_vars,
         \A t \in Socket :
           /\ sockets'[t].in_use = sockets[t].in_use
           /\ sockets'[t].bound_port = sockets[t].bound_port
           /\ NoneToPortZero /\ sockets[t].bound_port = 0
                => sockets'[t].recv_count = sockets[t].recv_count
  PROVE  ServerInv'
<1>1. ServerInv /\ pc' = pc /\ sock' = sock /\ buf' = buf
  BY DEF NetInv, server_vars
<1>2. ServerTypeOK'
  BY <1>1 DEF ServerInv, ServerTypeOK, Socket
<1>3. ASSUME NEW p \in Server, pc[p] \in Serving
      PROVE  Owns(p)' /\ Named(p)'
  <2>1. Owns(p) /\ Named(p)
    BY <1>1, <1>3 DEF ServerInv
  <2>2. Owns(p)'
    BY <1>1, <2>1 DEF Owns, Socket
  <2>3. Named(p)'
    <3> DEFINE t == sock[p]
    <3>1. t \in Socket
      BY <2>1 DEF Owns
    <3> QED
      BY <1>1, <2>1, <3>1, Zenon DEF Named, NoneToPortZero
  <2> QED
    BY <2>2, <2>3
<1> QED
  BY <1>1, <1>2, <1>3 DEF ServerInv, Serving

(* A server that keeps to its own socket, or takes a free one, leaves the   *)
(* other servers theirs.                                                    *)
LEMMA ServerKeeps ==
  ASSUME NetInv, NEW p \in Server, NEW l \in {"off", "socket"} \cup Serving,
         NEW v \in Socket \cup {-1}, NEW b \in Packet \cup {NoPacket},
         pc' = [pc EXCEPT ![p] = l], sock' = [sock EXCEPT ![p] = v],
         buf' = [buf EXCEPT ![p] = b],
         \A q \in Server \ {p} : pc[q] \in Serving => sockets'[sock[q]] = sockets[sock[q]],
         v \in Socket => \A q \in Server \ {p} : sock[q] # v,
         l \in {"off", "socket"} => v = -1,
         l \in Serving => /\ v \in Socket
                          /\ sockets'[v].in_use = 1
                          /\ l # "bind" => sockets'[v].bound_port = ECHO_PORT,
         l = "bind" => sockets'[v].bound_port = 0 /\ sockets'[v].recv_count = 0,
         l = "send" => b \in Packet
  PROVE  ServerInv'
<1>1. ServerInv /\ ServerTypeOK
  BY DEF NetInv, ServerInv
<1>2. /\ pc'[p] = l /\ sock'[p] = v /\ buf'[p] = b
      /\ \A q \in Server \ {p} : pc'[q] = pc[q] /\ sock'[q] = sock[q] /\ buf'[q] = buf[q]
  BY <1>1 DEF ServerTypeOK
<1>3. ServerTypeOK'
  BY <1>1 DEF ServerTypeOK, Socket
<1>4. l \in Serving => Owns(p)' /\ Named(p)'
  <2> SUFFICES ASSUME l \in Serving PROVE Owns(p)' /\ Named(p)'
    OBVIOUS
  <2>1. Owns(p)'
    BY <1>2 DEF Owns, Socket
  <2>2. Named(p)'
    BY <1>2, Zenon DEF Named
  <2> QED
    BY <2>1, <2>2
<1>5. ASSUME NEW q \in Server \ {p}, pc[q] \in Serving
      PROVE  Owns(q)' /\ Named(q)'
  <2>1. Owns(q) /\ Named(q) /\ sock[q] \in Socket
    BY <1>1, <1>5 DEF ServerInv, Owns
  <2>2. sockets'[sock[q]] = sockets[sock[q]] /\ sock'[q] = sock[q] /\ pc'[q] = pc[q]
    BY <1>2, <1>5
  <2>3. \A r \in Server \ {q} : sock'[r] # sock'[q]
    <3> TAKE r \in Server \ {q}
    <3>1. CASE r = p
      <4>1. v # sock[q]
        BY <1>5, <2>1
      <4> QED
        BY <1>2, <2>2, <3>1, <4>1
    <3>2. CASE r # p
      BY <1>2, <2>1, <2>2, <3>2 DEF Owns
    <3> QED
      BY <3>1, <3>2
  <2>4. Owns(q)'
    BY <2>1, <2>2, <2>3 DEF Owns, Socket
  <2>5. Named(q)'
    BY <2>1, <2>2, Zenon DEF Named, NoneToPortZero
  <2> QED
    BY <2>4, <2>5
<1>6. ASSUME NEW q \in Server
      PROVE  /\ pc'[q] \in {"off", "socket"} => sock'[q] = -1
             /\ pc'[q] \in Serving => Owns(q)' /\ Named(q)'
             /\ pc'[q] = "send" => buf'[q] \in Packet
  <2>1. CASE q = p
    BY <1>2, <1>4, <2>1, Zenon
  <2>2. CASE q # p
    <3>1. pc'[q] = pc[q] /\ sock'[q] = sock[q] /\ buf'[q] = buf[q]
      BY <1>2, <2>2
    <3> QED
      BY <1>1, <1>5, <2>2, <3>1 DEF ServerInv
  <2> QED
    BY <2>1, <2>2
<1> QED
  BY <1>3, <1>6, Zenon DEF ServerInv, Serving

(* The servers start idle.                                                  *)
LEMMA NetStart == NetInit => NetInv
<1> SUFFICES ASSUME NetInit PROVE NetInv
  OBVIOUS
<1>1. SocketInv /\ QueuedPackets /\ ArpInv
  BY InitSocketInv, QueuedStart, ArpStart DEF NetInit
<1>2. ServerInv
  BY DEF NetInit, ServerInv, ServerTypeOK, Serving
<1> QED
  BY <1>1, <1>2 DEF NetInv

(* A frame from the wire keeps the invariant of the servers.                *)
LEMMA ReceiveServers ==
  ASSUME NetInv, NEW f \in Traffic, ethernet_rx(f), UNCHANGED server_vars
  PROVE  ServerInv'
<1>1. CASE NoEffect
  BY <1>1, ReceiveKeeps DEF NoEffect
<1>2. CASE RxUdp(f)
  <2> DEFINE port == ntohs(Body(f).dst_port)
             packet == Kept(Header(f), Body(f))
  <2>1. /\ port \in Port /\ packet \in Packet
        /\ NoneToPortZero => port # 0
        /\ socket_deliver_udp(port, packet)
    BY <1>2, UdpFrame, Zenon DEF RxUdp
  <2> HIDE DEF port, packet
  <2>2. PICK s \in Socket :
          /\ sockets[s].bound_port = port
          /\ sockets[s].recv_count < SOCKET_RECV_QUEUE_SIZE
          /\ sockets' = [sockets EXCEPT
               ![s].recv_queue[sockets[s].recv_head] = packet,
               ![s].recv_head = (@ + 1) % SOCKET_RECV_QUEUE_SIZE,
               ![s].recv_count = @ + 1]
    BY <2>1, Zenon DEF socket_deliver_udp, Addressee
  <2>3. /\ \A t \in Socket : t # s => sockets'[t] = sockets[t]
        /\ sockets'[s] = [in_use |-> sockets[s].in_use, bound_port |-> sockets[s].bound_port,
              recv_queue |-> [sockets[s].recv_queue EXCEPT ![sockets[s].recv_head] = packet],
              recv_head |-> (sockets[s].recv_head + 1) % SOCKET_RECV_QUEUE_SIZE,
              recv_tail |-> sockets[s].recv_tail,
              recv_count |-> sockets[s].recv_count + 1]
    BY <2>1, <2>2, DeliverStep, Zenon DEF NetInv
  <2>4. sockets'[s].in_use = sockets[s].in_use /\ sockets'[s].bound_port = sockets[s].bound_port
    BY <2>3
  <2>5. NoneToPortZero => sockets[s].bound_port # 0
    BY <2>1, <2>2
  <2> QED
    BY <2>3, <2>4, <2>5, ReceiveKeeps, Zenon
<1> QED
  BY <1>1, <1>2, RxCases DEF Dropped, RxArp, RxPing

(* So do the calls of a server.                                             *)
LEMMA CallServers ==
  ASSUME NetInv, SocketInv', NEW p \in Server, udpecho(p)
  PROVE  ServerInv'
<1>0. /\ ServerInv /\ ServerTypeOK /\ SocketInv /\ QueuedPackets /\ SocketInv'
      /\ sockets \in [Socket -> SocketType] /\ -1 \notin Socket
  BY DEF NetInv, ServerInv, SocketInv, TypeOK, Socket
<1>a. /\ pc = [pc EXCEPT ![p] = pc[p]] /\ sock = [sock EXCEPT ![p] = sock[p]]
      /\ buf = [buf EXCEPT ![p] = buf[p]] /\ buf[p] \in Packet \cup {NoPacket}
  BY <1>0 DEF ServerTypeOK
<1>b. \A q \in Server : pc[q] \in Serving => sock[q] \in Socket /\ sockets[sock[q]].in_use = 1
  BY <1>0 DEF ServerInv, Owns
<1>c. \A q \in Server : pc[q] \notin Serving => sock[q] = -1
  BY <1>0 DEF ServerInv, ServerTypeOK, Serving
<1>1. CASE pc[p] = "socket" /\ sys_command16_socket(p) /\ UNCHANGED buf
  <2>1. CASE /\ socket_create
             /\ \E s \in Socket : sockets'[s] # sockets[s] /\ sock' = [sock EXCEPT ![p] = s]
             /\ pc' = [pc EXCEPT ![p] = "bind"]
    <3>1. PICK s \in Socket : sockets[s].in_use = 0 /\ sockets' = [sockets EXCEPT ![s] = Fresh]
      BY <2>1 DEF socket_create, Fresh
    <3>2. sockets'[s] = Fresh /\ \A t \in Socket : t # s => sockets'[t] = sockets[t]
      BY <1>0, <3>1
    <3>3. sock' = [sock EXCEPT ![p] = s]
      BY <2>1, <3>2
    <3>4. Fresh.in_use = 1 /\ Fresh.bound_port = 0 /\ Fresh.recv_count = 0
      BY ZeroedType
    <3>5. \A q \in Server : sock[q] # s
      BY <1>0, <1>b, <1>c, <3>1
    <3>6. \A q \in Server \ {p} : pc[q] \in Serving => sockets'[sock[q]] = sockets[sock[q]]
      BY <1>b, <3>2, <3>5
    <3>7. "bind" \in Serving /\ "bind" \notin {"off", "socket"}
      BY DEF Serving
    <3>8. pc' = [pc EXCEPT ![p] = "bind"] /\ buf' = [buf EXCEPT ![p] = buf[p]]
      BY <1>1, <1>a, <2>1
    <3>9. sockets'[s].in_use = 1 /\ sockets'[s].bound_port = 0 /\ sockets'[s].recv_count = 0
      BY <3>2, <3>4
    <3> QED
      BY <1>a, <3>3, <3>5, <3>6, <3>7, <3>8, <3>9, ServerKeeps
  <2>2. CASE NoEffect /\ pc' = [pc EXCEPT ![p] = "off"] /\ UNCHANGED sock
    <3>1. sockets' = sockets /\ sock[p] = -1
      BY <1>1, <1>c, <2>2 DEF NoEffect, Serving
    <3>2. "off" \notin Serving
      BY DEF Serving
    <3>3. /\ pc' = [pc EXCEPT ![p] = "off"] /\ buf' = [buf EXCEPT ![p] = buf[p]]
          /\ sock' = [sock EXCEPT ![p] = -1]
      BY <1>1, <1>a, <2>2, <3>1
    <3> QED
      BY <1>0, <1>a, <3>1, <3>2, <3>3, ServerKeeps
  <2> QED
    BY <1>1, <2>1, <2>2, Zenon DEF sys_command16_socket
<1>2. CASE pc[p] = "bind" /\ sys_command17_bind(p) /\ UNCHANGED buf
  <2>0. /\ pc[p] \in Serving /\ sock[p] \in Socket
        /\ \A q \in Server \ {p} : sock[q] # sock[p]
    BY <1>0, <1>2 DEF Serving, ServerInv, Owns
  <2>1. CASE socket_bind(sock[p], ECHO_PORT) /\ pc' = [pc EXCEPT ![p] = "poll"] /\ UNCHANGED sock
    <3>1. sockets' = [sockets EXCEPT ![sock[p]].bound_port = ECHO_PORT]
      BY <2>1 DEF socket_bind
    <3>2. /\ sockets'[sock[p]] = [sockets[sock[p]] EXCEPT !.bound_port = ECHO_PORT]
          /\ \A t \in Socket : t # sock[p] => sockets'[t] = sockets[t]
      BY <1>0, <2>0, <3>1
    <3>3. sockets[sock[p]] \in SocketType /\ sockets[sock[p]].in_use = 1
      BY <1>0, <1>b, <2>0
    <3>4. sockets'[sock[p]].in_use = 1 /\ sockets'[sock[p]].bound_port = ECHO_PORT
      BY <3>2, <3>3 DEF SocketType
    <3>5. \A q \in Server \ {p} : pc[q] \in Serving => sockets'[sock[q]] = sockets[sock[q]]
      BY <1>b, <2>0, <3>2
    <3>6. "poll" \in Serving /\ "poll" \notin {"off", "socket"}
      BY DEF Serving
    <3> QED
      BY <1>2, <1>a, <2>0, <2>1, <3>4, <3>5, <3>6, ServerKeeps
  <2>2. CASE NoEffect /\ pc' = [pc EXCEPT ![p] = "off"] /\ sock' = [sock EXCEPT ![p] = -1]
    <3>1. sockets' = sockets /\ "off" \notin Serving
      BY <2>2 DEF NoEffect, Serving
    <3> QED
      BY <1>0, <1>2, <1>a, <2>2, <3>1, ServerKeeps
  <2> QED
    BY <1>2, <2>1, <2>2, Zenon DEF sys_command17_bind

<1>3. CASE pc[p] = "poll" /\ sys_command19_recvfrom(p)
  <2>0. /\ pc[p] \in Serving /\ sock[p] \in Socket
        /\ \A q \in Server \ {p} : sock[q] # sock[p]
        /\ sockets[sock[p]].in_use = 1 /\ sockets[sock[p]].bound_port = ECHO_PORT
    BY <1>0, <1>3 DEF Serving, ServerInv, Owns, Named
  <2> DEFINE s == sock[p]
             d == Truncated(received', BUF_SIZE)
  <2>1. socket_recvfrom(s)
    BY <1>3 DEF sys_command19_recvfrom
  <2>2. d \in Packet
    BY <1>0, <2>0, <2>1, PacketAssumption, ReceivedPacket
  <2>3. sockets'[s].in_use = 1 /\ sockets'[s].bound_port = ECHO_PORT
    <3>1. sockets'[s] =
            [in_use |-> sockets[s].in_use, bound_port |-> sockets[s].bound_port,
             recv_queue |-> sockets[s].recv_queue, recv_head |-> sockets[s].recv_head,
             recv_tail |-> (sockets[s].recv_tail + 1) % SOCKET_RECV_QUEUE_SIZE,
             recv_count |-> sockets[s].recv_count - 1]
      BY <1>0, <2>0, <2>1, RecvStep, Zenon
    <3>2. sockets[s].in_use = 1 /\ sockets[s].bound_port = ECHO_PORT
      BY <2>0
    <3> QED
      BY <3>1, <3>2
  <2>4. \A t \in Socket : t # s => sockets'[t] = sockets[t]
    BY <1>0, <2>0, <2>1, RecvStep
  <2>5. \A q \in Server \ {p} : pc[q] \in Serving => sockets'[sock[q]] = sockets[sock[q]]
    BY <1>b, <2>0, <2>4
  <2>6. "poll" \in Serving /\ "send" \in Serving /\ {"poll", "send"} \cap {"off", "socket"} = {}
    BY DEF Serving
  <2>7. sock' = [sock EXCEPT ![p] = s]
    BY <1>3, <1>a DEF sys_command19_recvfrom
  <2>8. \/ buf' = [buf EXCEPT ![p] = d] /\ pc' = [pc EXCEPT ![p] = "send"]
        \/ buf' = [buf EXCEPT ![p] = buf[p]] /\ pc' = [pc EXCEPT ![p] = "poll"]
    BY <1>3, <1>a, Zenon DEF sys_command19_recvfrom
  <2> HIDE DEF d
  <2> QED
    BY <1>a, <2>0, <2>2, <2>3, <2>5, <2>6, <2>7, <2>8, ServerKeeps
<1>4. CASE pc[p] = "send" /\ sys_command18_sendto(p)
  <2>0. /\ pc[p] \in Serving /\ sock[p] \in Socket
        /\ \A q \in Server \ {p} : sock[q] # sock[p]
        /\ sockets[sock[p]].in_use = 1 /\ sockets[sock[p]].bound_port = ECHO_PORT
    BY <1>0, <1>4 DEF Serving, ServerInv, Owns, Named
  <2>1. /\ sockets' = sockets /\ pc' = [pc EXCEPT ![p] = "poll"]
        /\ sock' = [sock EXCEPT ![p] = sock[p]] /\ buf' = [buf EXCEPT ![p] = NoPacket]
    BY <1>4, <1>a DEF sys_command18_sendto, NoEffect
  <2>2. "poll" \in Serving /\ "poll" \notin {"off", "socket"}
    BY DEF Serving
  <2> QED
    BY <2>0, <2>1, <2>2, ServerKeeps
<1> QED
  BY <1>1, <1>2, <1>3, <1>4, Zenon DEF udpecho

(* And the beginning and the end of one.                                    *)
LEMMA LifeServers ==
  ASSUME NetInv, NEW p \in Server, Start(p) \/ Kill(p)
  PROVE  ServerInv'
<1>0. ServerInv /\ ServerTypeOK /\ -1 \notin Socket
  BY DEF NetInv, ServerInv, Socket
<1>a. /\ sock = [sock EXCEPT ![p] = sock[p]]
      /\ buf = [buf EXCEPT ![p] = buf[p]] /\ buf[p] \in Packet \cup {NoPacket}
  BY <1>0 DEF ServerTypeOK
<1>b. sockets' = sockets /\ "off" \notin Serving /\ "socket" \notin Serving
  BY DEF Start, Kill, NoEffect, Serving
<1>1. CASE Start(p)
  <2>1. sock[p] = -1
    BY <1>0, <1>1 DEF ServerInv, Start
  <2> QED
    BY <1>0, <1>1, <1>a, <1>b, <2>1, ServerKeeps DEF Start
<1>2. CASE Kill(p)
  BY <1>0, <1>2, <1>b, ServerKeeps DEF Kill
<1> QED
  BY <1>1, <1>2

(* The invariant is inductive.                                              *)
LEMMA NetStep == NetInv /\ [NetNext]_net_vars => NetInv'
<1> SUFFICES ASSUME NetInv, [NetNext]_net_vars PROVE NetInv'
  OBVIOUS
<1>1. SocketInv' /\ QueuedPackets' /\ ArpInv'
  BY StackInv
<1>2. ServerInv'
  <2>1. CASE UNCHANGED net_vars
    BY <2>1, ReceiveKeeps DEF net_vars, stack_vars, server_vars
  <2>2. CASE Receive
    BY <2>2, ReceiveServers DEF Receive
  <2>3. CASE \E p \in Server : udpecho(p) \/ Start(p) \/ Kill(p)
    BY <1>1, <2>3, CallServers, LifeServers
  <2> QED
    BY <2>1, <2>2, <2>3 DEF NetNext
<1> QED
  BY <1>1, <1>2 DEF NetInv

(* SocketsNotShared, for any number of servers and sockets and whatever the *)
(* wire delivers: with every socket kept open for ever, no server gets hold *)
(* of another's.                                                            *)
THEOREM SocketsStayApart == NetSpec => []SocketsNotShared
<1>1. NetInv => SocketsNotShared
  <2> SUFFICES ASSUME NetInv PROVE SocketsNotShared
    OBVIOUS
  <2>1. NetTypeOK
    BY DEF NetInv, SocketInv, ArpInv, ServerInv, ServerTypeOK, Serving, NetTypeOK
  <2> QED
    BY <2>1, Zenon DEF NetInv, ServerInv, Owns, Named, Serving, SocketsNotShared
<1> QED
  BY <1>1, NetStart, NetStep, PTL DEF NetSpec

(* In the whole stack, too, the socket table implements mailboxes: neither  *)
(* the interrupt nor the servers get at it other than through its calls.    *)
THEOREM StackImplementsMailboxes == NetSpec => ImplementsMailboxes
<1>1. NetInv /\ [NetNext]_net_vars => [Next]_vars
  BY StackSteps
<1>2. NetInit => Init
  BY DEF NetInit
<1>3. NetSpec => Spec
  BY <1>1, <1>2, NetStart, NetStep, PTL DEF NetSpec, Spec
<1> QED
  BY <1>3, SocketsImplementMailboxes, PTL

(* And the ARP cache is the list of the hosts met last, whatever else the   *)
(* stack does.                                                              *)
THEOREM StackImplementsNeighbours == NetSpec => ImplementsNeighbours
<1>1. NetInv /\ [NetNext]_net_vars => [ArpNext]_arp_vars
  BY StackSteps
<1>2. NetInit => ArpInit
  BY DEF NetInit
<1>3. NetSpec => ArpSpec
  BY <1>1, <1>2, NetStart, NetStep, PTL DEF NetSpec, ArpSpec
<1> QED
  BY <1>3, ArpImplementsNeighbours, PTL
-----------------------------------------------------------------------------
(* The frames the stack sends.                                              *)

\* The i-th entry is the one a lookup of the address ends at.
FirstOf(c, ip, i) ==
  /\ i \in Slot /\ c[i].valid = 1 /\ c[i].ip = ip
  /\ \A j \in 0 .. i - 1 : ~(c[j].valid = 1 /\ c[j].ip = ip)
Lookup(c, ip) == {c[i].mac : i \in {j \in Slot : FirstOf(c, ip, j)}}

(* A lookup has one result at most.                                         *)
LEMMA LookupIs ==
  ASSUME NEW c, NEW ip, NEW i, FirstOf(c, ip, i)
  PROVE  Lookup(c, ip) = {c[i].mac}
<1>1. ASSUME NEW j, FirstOf(c, ip, j) PROVE j = i
  <2>1. i \in Int /\ j \in Int /\ i >= 0 /\ j >= 0
    BY <1>1, ArpAssumption DEF FirstOf, Slot
  <2>2. ~(i < j) /\ ~(j < i)
    BY <1>1, <2>1 DEF FirstOf
  <2> QED
    BY <2>1, <2>2
<1>2. i \in Slot
  BY DEF FirstOf
<1> QED
  BY <1>1, <1>2, Zenon DEF Lookup

(* What arp_cache_lookup finds is that one result.                          *)
LEMMA LookupFound ==
  ASSUME NEW ip, NEW mac \in arp_cache_lookup(ip)
  PROVE  arp_cache_lookup(ip) = {mac}
<1>1. arp_cache_lookup(ip) = Lookup(arp_cache, ip)
  BY DEF arp_cache_lookup, Lookup, FirstOf, Holds
<1>2. PICK i \in Slot : FirstOf(arp_cache, ip, i) /\ mac = arp_cache[i].mac
  BY <1>1, Zenon DEF Lookup
<1> QED
  BY <1>1, <1>2, LookupIs

(* After an update the address has the new link address.                    *)
LEMMA LookupUpdated ==
  ASSUME ArpInv, NEW ip \in Ip, NEW mac \in Mac, arp_cache_update(ip, mac)
  PROVE  arp_cache_lookup(ip)' = {mac}
<1>1. arp_cache_lookup(ip)' = Lookup(arp_cache', ip)
  BY DEF arp_cache_lookup, Lookup, FirstOf, Holds, Slot
<1>2. \A j \in Slot : 0 .. j - 1 \subseteq Slot
  BY ArpAssumption DEF Slot
<1>3. ASSUME NEW i \in Slot, Holds(i, ip), \A j \in 0 .. i - 1 : ~Holds(j, ip),
             arp_cache' = [arp_cache EXCEPT ![i].mac = mac]
      PROVE  Lookup(arp_cache', ip) = {mac}
  <2>1. /\ arp_cache[i] \in Entry
        /\ arp_cache'[i] = [arp_cache[i] EXCEPT !.mac = mac]
        /\ \A j \in Slot : j # i => arp_cache'[j] = arp_cache[j]
    BY <1>3, RefreshFacts DEF Holds
  <2>2. arp_cache'[i].mac = mac /\ arp_cache'[i].valid = 1 /\ arp_cache'[i].ip = ip
    BY <1>3, <2>1 DEF Holds, Entry
  <2>3. \A j \in 0 .. i - 1 : arp_cache'[j] = arp_cache[j]
    BY <1>2, <2>1 DEF Slot
  <2>4. FirstOf(arp_cache', ip, i)
    BY <1>3, <2>2, <2>3 DEF FirstOf, Holds
  <2> QED
    BY <2>2, <2>4, LookupIs
<1>4. ASSUME \A i \in Slot : ~Holds(i, ip),
             arp_cache' = [arp_cache EXCEPT ![arp_cache_next] =
                             [ip |-> ip, mac |-> mac, valid |-> 1]]
      PROVE  Lookup(arp_cache', ip) = {mac}
  <2> DEFINE n == arp_cache_next
  <2>0. n \in Slot
    BY DEF ArpInv, ArpTypeOK
  <2>1. /\ arp_cache'[n] = [ip |-> ip, mac |-> mac, valid |-> 1]
        /\ \A j \in Slot : j # n => arp_cache'[j] = arp_cache[j]
    BY <1>4, InsertFacts
  <2>2. arp_cache'[n].mac = mac /\ arp_cache'[n].valid = 1 /\ arp_cache'[n].ip = ip
    BY <2>1
  <2>3. \A j \in 0 .. n - 1 : arp_cache'[j] = arp_cache[j] /\ ~Holds(j, ip)
    BY <1>2, <1>4, <2>0, <2>1 DEF Slot
  <2>4. FirstOf(arp_cache', ip, n)
    BY <2>0, <2>2, <2>3 DEF FirstOf, Holds
  <2> QED
    BY <2>2, <2>4, LookupIs
<1> QED
  BY <1>1, <1>3, <1>4 DEF arp_cache_update

(* A packet that is given up is no frame.                                   *)
LEMMA NothingSent ==
  ASSUME sent' = NoFrame
  PROVE  FramesSentAreRight'
<1>1. sent'.ethertype = 0
  BY DEF NoFrame
<1>2. ~IsIp(sent)' /\ sent'.ethertype # ETH_TYPE_ARP
  BY <1>1 DEF IsIp, ETH_TYPE_ARP, ETH_TYPE_IPV4
<1> QED
  BY <1>2, Zenon DEF FramesSentAreRight, FramesReachTheHost, PacketsVerify, RepliesMatchPings,
                     IsPing

\* The frame ip_tx gives to the driver.
IpFrameFor(mac, id, protocol, dst, body, length) ==
  [ethertype |-> ETH_TYPE_IPV4, dest |-> mac, payload |->
    [len |-> IP_HEADER + length, body |-> body,
     header |-> BuildHeader(id, protocol, dst, length)]]

(* ip_tx: the frame goes where the cache says and its header is right.      *)
LEMMA IpSent ==
  ASSUME NEW protocol \in Byte, NEW dst \in Address, NEW body, NEW length \in Nat,
         IP_HEADER + length < WORD,
         ip_tx(dst, protocol, body, length), UNCHANGED arp_vars, sent' # NoFrame
  PROVE  /\ IsIp(sent)' /\ sent'.payload.body = body
         /\ sent'.payload.len = IP_HEADER + length
         /\ {sent'.dest} = arp_cache_lookup(dst)'
         /\ LET h == sent'.payload.header
            IN  /\ Valid(HeaderWords(h))
                /\ h.src_ip = our_ip /\ h.dst_ip = dst /\ h.protocol = protocol
                /\ ntohs(h.total_length) = IP_HEADER + length
<1>1. PICK mac \in arp_cache_lookup(dst), id \in ip_id_counter :
        sent' = IpFrameFor(mac, id, protocol, dst, body, length)
  BY Zenon DEF ip_tx, NoBuffer, ethernet_tx, IpFrameFor
<1>2. id \in Word
  BY SizeAssumption
<1> DEFINE h == BuildHeader(id, protocol, dst, length)
<1>3. /\ sent'.ethertype = ETH_TYPE_IPV4 /\ sent'.dest = mac /\ sent'.payload.body = body
      /\ sent'.payload.len = IP_HEADER + length /\ sent'.payload.header = h
  BY <1>1, Zenon DEF IpFrameFor
<1>4. /\ Valid(HeaderWords(h))
      /\ h.src_ip = our_ip /\ h.dst_ip = dst /\ h.protocol = protocol
      /\ ntohs(h.total_length) = IP_HEADER + length
  BY <1>2, BuiltHeader
<1>5. arp_cache_lookup(dst)' = {mac}
  <2>1. arp_cache_lookup(dst) = {mac}
    BY LookupFound
  <2> QED
    BY <2>1 DEF arp_cache_lookup, Holds, Slot, arp_vars
<1> HIDE DEF h
<1> QED
  BY <1>3, <1>4, <1>5 DEF IsIp

(* The answer to a ping: icmp_echo_reply.                                   *)
LEMMA PingAnswered ==
  ASSUME NEW f \in Traffic, RxPing(f)
  PROVE  FramesSentAreRight'
<1> SUFFICES ASSUME sent' # NoFrame PROVE FramesSentAreRight'
  BY NothingSent
<1> DEFINE h == Header(f)
           b == Body(f)
           len == IpLength(h)
           r == EchoReply(b)
<1>1. /\ f.ethertype = ETH_TYPE_IPV4 /\ h.protocol = IP_PROTO_ICMP
      /\ HeaderAccepted(f.payload.len, h) /\ IcmpAccepted(len, b)
      /\ b.type = ICMP_TYPE_ECHO_REQUEST /\ UNCHANGED arp_vars
      /\ ip_tx(h.src_ip, IP_PROTO_ICMP, r, len)
  BY Zenon DEF RxPing, IsPing, IsIp, Header, Body, icmp_echo_reply, NoBuffer
<1>2. /\ h \in HeaderType /\ b \in IcmpType /\ h.ihl <= 5
      /\ ntohs(h.total_length) = (h.ihl * 4) + ICMP_HEADER + (2 * Len(b.data)) + Len(b.odd)
  BY <1>1, TrafficAssumption, Zenon DEF Header, Body
<1>3. h.src_ip \in Address /\ h.ihl \in 0 .. 15 /\ h.total_length \in Word
  BY <1>2, Zenon DEF HeaderType
<1>4. h.ihl = 5
  BY <1>1, <1>2, <1>3 DEF HeaderAccepted
<1>5. len \in Nat /\ IP_HEADER + len < WORD
  <2> DEFINE total == ntohs(h.total_length)
             data == Len(b.data)
             odd == Len(b.odd)
  <2>1. total \in Word
    BY <1>3, SwapTwice DEF ntohs
  <2>2. data \in Nat /\ odd \in Nat
    <3>1. b.data \in Seq(Word) /\ b.odd \in Seq(Word)
      BY <1>2, OddWords, Zenon DEF IcmpType
    <3> QED
      BY <3>1
  <2>3. total = (h.ihl * 4) + ICMP_HEADER + (2 * data) + odd /\ len = (total - (h.ihl * 4)) % WORD
    BY <1>2 DEF IpLength
  <2> HIDE DEF total, data, odd, len
  <2>4. total \in Nat /\ total < WORD
    BY <2>1, WordIs
  <2>5. total >= 20 /\ len = (total - 20) % WORD
    BY <1>4, <2>2, <2>3 DEF ICMP_HEADER
  <2> QED
    BY <2>4, <2>5 DEF WORD, BYTE, IP_HEADER
<1>6. IP_PROTO_ICMP \in Byte
  BY DEF IP_PROTO_ICMP, Byte, BYTE
<1>7. /\ Valid(HeaderWords(h)) /\ Valid(IcmpWords(b) \o b.odd)
      /\ Valid(IcmpWords(r) \o r.odd)
      /\ r.id = b.id /\ r.sequence = b.sequence /\ r.data = b.data /\ r.odd = b.odd
  BY <1>1, <1>2, HeaderAcceptedIsValid, IcmpAcceptedIsValid, ReplyIs, Zenon
<1> HIDE DEF len, r
<1>8. /\ IsIp(sent)' /\ sent'.payload.body = r
      /\ sent'.payload.len = IP_HEADER + len
      /\ {sent'.dest} = arp_cache_lookup(h.src_ip)'
      /\ LET g == sent'.payload.header
         IN  /\ Valid(HeaderWords(g))
             /\ g.src_ip = our_ip /\ g.dst_ip = h.src_ip /\ g.protocol = IP_PROTO_ICMP
             /\ ntohs(g.total_length) = IP_HEADER + len
  BY <1>1, <1>3, <1>5, <1>6, IpSent, Zenon
<1>9. /\ ~IsUdp(sent)' /\ sent'.ethertype # ETH_TYPE_ARP
  BY <1>8 DEF IsUdp, IsIp, IP_PROTO_ICMP, IP_PROTO_UDP, ETH_TYPE_IPV4, ETH_TYPE_ARP
<1>10. FramesReachTheHost'
  BY <1>8, <1>9, Zenon DEF FramesReachTheHost
<1>11. PacketsVerify'
  BY <1>7, <1>8, <1>9, Zenon DEF PacketsVerify
<1>12. RepliesMatchPings'
  <2>1. IsPing(f) /\ f.payload.header = h /\ f.payload.body = b
    BY Zenon DEF RxPing, Header, Body
  <2> HIDE DEF h, b
  <2> QED
    BY <1>1, <1>7, <1>8, <2>1, Zenon DEF RepliesMatchPings
<1> QED
  BY <1>10, <1>11, <1>12 DEF FramesSentAreRight

(* The answer to an ARP request: arp_send_reply, after the cache has got    *)
(* the asker.                                                               *)
LEMMA ArpAnswered ==
  ASSUME ArpInv, NEW f \in Traffic, RxArp(f)
  PROVE  FramesSentAreRight'
<1> SUFFICES ASSUME sent' # NoFrame PROVE FramesSentAreRight'
  BY NothingSent
<1> DEFINE ip == f.payload.sender_ip
           mac == f.payload.sender_mac
<1>1. ip \in Ip /\ mac \in Mac
  BY TrafficAssumption, Zenon DEF RxArp
<1>2. arp_cache_lookup(ip)' = {mac}
  <2>1. arp_cache_update(ip, mac)
    BY DEF RxArp
  <2> HIDE DEF ip, mac
  <2> QED
    BY <1>1, <2>1, LookupUpdated
<1>3. /\ sent'.ethertype = ETH_TYPE_ARP /\ sent'.dest = mac
      /\ sent'.payload.target_mac = mac /\ sent'.payload.target_ip = ip
  <2>1. sent' = [ethertype |-> ETH_TYPE_ARP, dest |-> mac, payload |->
         [len |-> 28, hwtype |-> htons(1), protype |-> htons(ETH_TYPE_IPV4),
          opcode |-> htons(2), sender_mac |-> our_mac, sender_ip |-> our_ip,
          target_mac |-> mac, target_ip |-> ip]]
    BY Zenon DEF RxArp, NoBuffer, arp_send_reply, ethernet_tx
  <2> HIDE DEF mac, ip
  <2> QED
    BY <2>1, Zenon
<1>4. ~IsIp(sent)'
  BY <1>3 DEF IsIp, ETH_TYPE_ARP, ETH_TYPE_IPV4
<1> HIDE DEF ip, mac
<1> QED
  BY <1>2, <1>3, <1>4, Zenon
  DEF FramesSentAreRight, FramesReachTheHost, PacketsVerify, RepliesMatchPings, IsPing

(* The datagram of a server: socket_sendto.                                 *)
LEMMA UdpSent ==
  ASSUME NetInv, NEW p \in Server, pc[p] = "send", sys_command18_sendto(p), UNCHANGED arp_vars,
         sent' # NoFrame
  PROVE  \E d \in Packet :
           /\ d = buf[p] /\ IsIp(sent)'
           /\ sent'.payload.len = IP_HEADER + (UDP_HEADER + d.len)
           /\ {sent'.dest} = arp_cache_lookup(d.src_ip)'
           /\ LET g == sent'.payload.header
              IN  /\ Valid(HeaderWords(g))
                  /\ g.src_ip = our_ip /\ g.dst_ip = d.src_ip /\ g.protocol = IP_PROTO_UDP
                  /\ ntohs(g.total_length) = IP_HEADER + (UDP_HEADER + d.len)
           /\ ntohs(sent'.payload.body.length) = UDP_HEADER + d.len
           /\ ntohs(sent'.payload.body.dst_port) = d.src_port
<1>1. PICK d \in Packet : d = buf[p]
  BY DEF NetInv, ServerInv
<1> DEFINE len == UDP_HEADER + d.len
           u == [src_port |-> htons(sockets[sock[p]].bound_port),
                 dst_port |-> htons(d.src_port), length |-> htons(UDP_HEADER + d.len)]
<1>2. d.src_ip \in Address /\ d.src_port \in Word /\ d.len \in 0 .. SOCKET_MAX_PACKET_SIZE
  BY PacketAssumption
<1>3. ip_tx(d.src_ip, IP_PROTO_UDP, u, len)
  BY <1>1, Zenon DEF sys_command18_sendto, socket_sendto, udp_tx, NoBuffer
<1>4. len \in Nat /\ IP_HEADER + len < WORD
  <2> DEFINE m == WORD - 1 - IP_HEADER - UDP_HEADER
             l == d.len
  <2>1. m \in Nat /\ IP_HEADER + UDP_HEADER + m < WORD
    BY DEF WORD, BYTE, IP_HEADER, UDP_HEADER
  <2>2. SOCKET_MAX_PACKET_SIZE \in 1 .. m
    BY SizeAssumption
  <2> HIDE DEF m, l
  <2>3. l \in Nat /\ l <= m
    BY <1>2, <2>1, <2>2 DEF l
  <2>4. UDP_HEADER + l \in Nat /\ IP_HEADER + (UDP_HEADER + l) < WORD
    BY <2>1, <2>3 DEF IP_HEADER, UDP_HEADER, WORD, BYTE
  <2> QED
    BY <2>4 DEF l
<1>5. IP_PROTO_UDP \in Byte
  BY DEF IP_PROTO_UDP, Byte, BYTE
<1>6. u.length = htons(len) /\ u.dst_port = htons(d.src_port)
  BY Zenon
<1>7. ntohs(u.length) = len /\ ntohs(u.dst_port) = d.src_port
  <2>1. len \in Word
    BY <1>4, WordIs DEF WORD, BYTE, IP_HEADER
  <2> HIDE DEF u, len
  <2> QED
    BY <1>2, <1>6, <2>1, SwapTwice
<1> HIDE DEF len, u
<1>8. /\ IsIp(sent)' /\ sent'.payload.body = u
      /\ sent'.payload.len = IP_HEADER + len
      /\ {sent'.dest} = arp_cache_lookup(d.src_ip)'
      /\ LET g == sent'.payload.header
         IN  /\ Valid(HeaderWords(g))
             /\ g.src_ip = our_ip /\ g.dst_ip = d.src_ip /\ g.protocol = IP_PROTO_UDP
             /\ ntohs(g.total_length) = IP_HEADER + len
  BY <1>2, <1>3, <1>4, <1>5, IpSent, Zenon
<1> QED
  BY <1>1, <1>7, <1>8, Zenon DEF len

(* Such a frame is right.                                                   *)
LEMMA DatagramSent ==
  ASSUME NetInv, NEW p \in Server, pc[p] = "send", sys_command18_sendto(p), UNCHANGED arp_vars
  PROVE  FramesSentAreRight'
<1> SUFFICES ASSUME sent' # NoFrame PROVE FramesSentAreRight'
  BY NothingSent
<1>1. PICK d \in Packet :
        /\ IsIp(sent)' /\ sent'.payload.len = IP_HEADER + (UDP_HEADER + d.len)
        /\ {sent'.dest} = arp_cache_lookup(d.src_ip)'
        /\ LET g == sent'.payload.header
           IN  /\ Valid(HeaderWords(g))
               /\ g.src_ip = our_ip /\ g.dst_ip = d.src_ip /\ g.protocol = IP_PROTO_UDP
               /\ ntohs(g.total_length) = IP_HEADER + (UDP_HEADER + d.len)
        /\ ntohs(sent'.payload.body.length) = UDP_HEADER + d.len
  BY UdpSent, Zenon
<1>2. d.len \in Nat
  BY PacketAssumption, SizeAssumption
<1>9. ~IsPing(sent)' /\ sent'.ethertype # ETH_TYPE_ARP
  BY <1>1 DEF IsPing, IsIp, IP_PROTO_ICMP, IP_PROTO_UDP, ETH_TYPE_IPV4, ETH_TYPE_ARP
<1>10. FramesReachTheHost'
  BY <1>1, <1>9, Zenon DEF FramesReachTheHost
<1>11. PacketsVerify'
  <2>1. UDP_HEADER + d.len = sent'.payload.len - IP_HEADER
    <3> DEFINE l == d.len
               m == sent'.payload.len
    <3>1. l \in Nat /\ m = IP_HEADER + (UDP_HEADER + l)
      BY <1>1, <1>2
    <3> HIDE DEF l, m
    <3>2. UDP_HEADER + l = m - IP_HEADER
      BY <3>1 DEF IP_HEADER, UDP_HEADER
    <3> QED
      BY <3>2 DEF l, m
  <2> QED
    BY <1>1, <1>9, <2>1, Zenon DEF PacketsVerify
<1>12. RepliesMatchPings'
  BY <1>9, Zenon DEF RepliesMatchPings
<1> QED
  BY <1>10, <1>11, <1>12 DEF FramesSentAreRight

(* Every step of the stack sends nothing or one of these three frames.      *)
LEMMA SentStep == NetInv /\ FramesSentAreRight /\ [NetNext]_net_vars => FramesSentAreRight'
<1> SUFFICES ASSUME NetInv, FramesSentAreRight, [NetNext]_net_vars PROVE FramesSentAreRight'
  OBVIOUS
<1>0. ArpInv
  BY DEF NetInv
<1>1. CASE UNCHANGED net_vars
  <2>1. sent' = sent /\ arp_cache' = arp_cache
    BY <1>1 DEF net_vars, stack_vars
  <2>3. FramesReachTheHost'
    <3>1. FramesReachTheHost
      BY DEF FramesSentAreRight
    <3>2. arp_cache_lookup(sent.payload.header.dst_ip)' = arp_cache_lookup(sent.payload.header.dst_ip)
      BY <2>1 DEF arp_cache_lookup, Holds, Slot
    <3>3. arp_cache_lookup(sent.payload.target_ip)' = arp_cache_lookup(sent.payload.target_ip)
      BY <2>1 DEF arp_cache_lookup, Holds, Slot
    <3> QED
      BY <2>1, <3>1, <3>2, <3>3, Zenon DEF FramesReachTheHost, IsIp
  <2>4. PacketsVerify'
    BY <2>1, Zenon DEF FramesSentAreRight, PacketsVerify, IsIp, IsPing, IsUdp
  <2>5. RepliesMatchPings'
    BY <2>1, Zenon DEF FramesSentAreRight, RepliesMatchPings, IsIp, IsPing
  <2> QED
    BY <2>3, <2>4, <2>5 DEF FramesSentAreRight
<1>2. ASSUME NEW f \in Traffic, ethernet_rx(f) PROVE FramesSentAreRight'
  <2>1. CASE Dropped \/ RxUdp(f)
    BY <2>1, NothingSent DEF Dropped, RxUdp, NoBuffer
  <2> QED
    BY <1>0, <1>2, <2>1, RxCases, PingAnswered, ArpAnswered
<1>3. ASSUME NEW p \in Server, udpecho(p) PROVE FramesSentAreRight'
  <2>1. CASE StackIdle
    BY <2>1, NothingSent DEF StackIdle, NoBuffer
  <2>2. CASE pc[p] = "send" /\ sys_command18_sendto(p) /\ UNCHANGED arp_vars
    BY <2>2, DatagramSent
  <2> QED
    BY <1>3, <2>1, <2>2, Zenon DEF udpecho
<1>4. ASSUME NEW p \in Server, Start(p) \/ Kill(p) PROVE FramesSentAreRight'
  BY <1>4, NothingSent DEF Start, Kill, StackIdle, NoBuffer
<1> QED
  BY <1>1, <1>2, <1>3, <1>4, Zenon DEF NetNext, Receive

(* FramesSentAreRight, for packets of any length and content: the checksums *)
(* the stack computes and accepts are those of RFC 1071, a frame goes to    *)
(* the link address the cache has for its receiver, and a reply answers an  *)
(* undamaged ping of that host.                                             *)
THEOREM FramesAreRight == NetSpec => []FramesSentAreRight
<1>1. NetInit => FramesSentAreRight
  <2> SUFFICES ASSUME NetInit PROVE FramesSentAreRight
    OBVIOUS
  <2>1. sent.ethertype = 0
    BY DEF NetInit, NoFrame
  <2>2. ~IsIp(sent) /\ sent.ethertype # ETH_TYPE_ARP
    BY <2>1 DEF IsIp, ETH_TYPE_ARP, ETH_TYPE_IPV4
  <2> QED
    BY <2>2, Zenon DEF FramesSentAreRight, FramesReachTheHost, PacketsVerify, RepliesMatchPings,
                       IsPing
<1> QED
  BY <1>1, NetStart, NetStep, SentStep, PTL DEF NetSpec

-----------------------------------------------------------------------------
(* The echo service: what a server takes from its queue.                    *)

\* g[i] is what is taken of the first i datagrams.
Takings(g, queue) ==
  /\ g \in [0 .. Len(queue) -> Seq(Packet)]
  /\ g[0] = <<>>
  /\ \A i \in 1 .. Len(queue) : g[i] = Take(g[i - 1], queue[i])

(* Datagrams stay datagrams.                                                *)
LEMMA TakeType ==
  ASSUME NEW w \in Seq(Packet), NEW d \in Packet
  PROVE  Take(w, d) \in Seq(Packet)
  BY PacketAssumption DEF Take

(* Waiting ends with the last of the takings.                               *)
LEMMA WaitingIs ==
  ASSUME NEW queue \in Seq(Packet)
  PROVE  \E g : Takings(g, queue) /\ Waiting(queue) = g[Len(queue)]
<1> DEFINE n == Len(queue)
           V == Seq(Packet)
           F == [i \in 1 .. n |-> [w \in V |-> Take(w, queue[i])]]
           f == CHOOSE f : f = [i \in 0 .. Len(queue) |->
                  IF i = 0 THEN <<>> ELSE Take(f[i - 1], queue[i])]
<1>1. n \in Nat /\ <<>> \in V /\ \A i \in 1 .. n : queue[i] \in Packet
  OBVIOUS
<1>2. F \in Bodies(n, V)
  BY <1>1, TakeType DEF Bodies
<1>3. PICK g : IsLoop(g, n, V, <<>>, F)
  <2> HIDE DEF F, n, V
  <2> QED
    BY <1>1, <1>2, LoopExists
<1>4. Takings(g, queue)
  <2>1. \A i \in 1 .. n : F[i][g[i - 1]] = Take(g[i - 1], queue[i])
    <3>1. \A i \in 1 .. n : g[i - 1] \in V
      <4> HIDE DEF F, n, V
      <4>1. g \in [0 .. n -> V]
        BY <1>3 DEF IsLoop
      <4> QED
        BY <1>1, <4>1
    <3> HIDE DEF V
    <3> QED
      BY <3>1
  <2> HIDE DEF F
  <2> QED
    BY <1>3, <2>1 DEF IsLoop, Takings
<1>5. g = [i \in 0 .. Len(queue) |-> IF i = 0 THEN <<>> ELSE Take(g[i - 1], queue[i])]
  BY <1>1, <1>4 DEF Takings
<1>6. f = [i \in 0 .. Len(queue) |-> IF i = 0 THEN <<>> ELSE Take(f[i - 1], queue[i])]
  BY <1>5, Zenon
<1>7. Waiting(queue) = f[Len(queue)]
  BY Zenon DEF Waiting
<1> HIDE DEF f, F, V
<1> DEFINE S == {i \in 0 .. n : f[i] = g[i]}
<1>8. 0 \in S
  BY <1>1, <1>4, <1>6 DEF Takings
<1>9. ASSUME NEW i \in 0 .. n - 1, i \in S
      PROVE  i + 1 \in S
  <2>1. f[i + 1] = Take(f[i], queue[i + 1])
    BY <1>1, <1>6
  <2>2. g[i + 1] = Take(g[i], queue[i + 1])
    BY <1>1, <1>4 DEF Takings
  <2> QED
    BY <1>1, <1>9, <2>1, <2>2
<1>10. \A i \in 0 .. n : i \in S
  <2> HIDE DEF S, n
  <2> QED
    BY <1>1, <1>8, <1>9, InductUpTo
<1>11. f[n] = g[n]
  BY <1>1, <1>10
<1> QED
  BY <1>4, <1>7, <1>11

(* The takings of a queue and those of a longer one with the same front.    *)
LEMMA SameTakings ==
  ASSUME NEW q \in Seq(Packet), NEW r \in Seq(Packet), Len(q) <= Len(r),
         \A i \in 1 .. Len(q) : q[i] = r[i],
         NEW f, Takings(f, q), NEW g, Takings(g, r)
  PROVE  \A i \in 0 .. Len(q) : f[i] = g[i]
<1>1. Len(q) \in Nat /\ Len(r) \in Nat
  OBVIOUS
<1> DEFINE S == {i \in 0 .. Len(q) : f[i] = g[i]}
<1>2. 0 \in S
  BY <1>1 DEF Takings
<1>3. ASSUME NEW i \in 0 .. Len(q) - 1, i \in S
      PROVE  i + 1 \in S
  <2>1. i + 1 \in 1 .. Len(q) /\ i + 1 \in 1 .. Len(r)
    BY <1>1
  <2>2. f[i + 1] = Take(f[i], q[i + 1]) /\ g[i + 1] = Take(g[i], r[i + 1])
    BY <2>1 DEF Takings
  <2> QED
    BY <1>3, <2>1, <2>2
<1>4. \A i \in 0 .. Len(q) : i \in S
  <2> HIDE DEF S
  <2> QED
    BY <1>1, <1>2, <1>3, InductUpTo
<1> QED
  BY <1>4

(* A datagram that arrives is the last to be taken.                         *)
LEMMA WaitingAppend ==
  ASSUME NEW q \in Seq(Packet), NEW d \in Packet
  PROVE  /\ Waiting(q) \in Seq(Packet)
         /\ Waiting(Append(q, d)) = Take(Waiting(q), d)
<1> DEFINE r == Append(q, d)
<1>1. /\ r \in Seq(Packet) /\ Len(r) = Len(q) + 1 /\ Len(q) \in Nat
      /\ \A i \in 1 .. Len(q) : q[i] = r[i]
      /\ r[Len(q) + 1] = d
  OBVIOUS
<1> HIDE DEF r
<1>2. PICK f : Takings(f, q) /\ Waiting(q) = f[Len(q)]
  BY WaitingIs
<1>3. PICK g : Takings(g, r) /\ Waiting(r) = g[Len(r)]
  BY <1>1, WaitingIs
<1>4. f[Len(q)] = g[Len(q)]
  BY <1>1, <1>2, <1>3, SameTakings
<1>5. g[Len(q) + 1] = Take(g[Len(q)], d)
  BY <1>1, <1>3 DEF Takings
<1>6. f[Len(q)] \in Seq(Packet)
  BY <1>1, <1>2 DEF Takings
<1> QED
  BY <1>1, <1>2, <1>3, <1>4, <1>5, <1>6 DEF r

(* Nothing is taken of an empty queue.                                      *)
LEMMA WaitingEmpty == Waiting(<<>>) = <<>>
<1>1. <<>> \in Seq(Packet) /\ Len(<<>>) = 0
  OBVIOUS
<1> QED
  BY <1>1, WaitingIs DEF Takings

(* What was taken before stays in front.                                    *)
LEMMA TakeBehind ==
  ASSUME NEW v \in Seq(Packet), NEW w \in Seq(Packet), NEW d \in Packet
  PROVE  Take(v \o w, d) = v \o Take(w, d)
<1>1. CASE d.len > 0
  <2> DEFINE e == Truncated(d, BUF_SIZE)
  <2>1. e \in Packet
    BY PacketAssumption
  <2>2. Take(v \o w, d) = Append(v \o w, e) /\ Take(w, d) = Append(w, e)
    BY <1>1 DEF Take
  <2> HIDE DEF e
  <2>3. Append(v \o w, e) = v \o Append(w, e)
    BY <2>1
  <2> QED
    BY <2>2, <2>3
<1>2. CASE ~(d.len > 0)
  BY <1>2 DEF Take
<1> QED
  BY <1>1, <1>2

(* The oldest datagram of a queue is the first to be taken.                 *)
LEMMA WaitingFront ==
  ASSUME NEW q \in Seq(Packet), q # <<>>
  PROVE  Waiting(q) = Take(<<>>, Head(q)) \o Waiting(Tail(q))
<1> DEFINE t == Tail(q)
           n == Len(t)
           w == Take(<<>>, Head(q))
<1>1. /\ t \in Seq(Packet) /\ n \in Nat /\ Len(q) = n + 1 /\ Head(q) = q[1]
      /\ q[1] \in Packet /\ <<>> \in Seq(Packet)
      /\ \A i \in 1 .. n : t[i] = q[i + 1] /\ t[i] \in Packet
  OBVIOUS
<1>2. w \in Seq(Packet)
  BY <1>1, TakeType
<1>3. PICK f : Takings(f, q) /\ Waiting(q) = f[Len(q)]
  BY WaitingIs
<1>4. PICK g : Takings(g, t) /\ Waiting(t) = g[Len(t)]
  BY <1>1, WaitingIs
<1>5. f[1] = w
  BY <1>1, <1>3 DEF Takings
<1>6. g[0] = <<>>
  BY <1>4 DEF Takings
<1>7. \A i \in 1 .. n : f[i + 1] = Take(f[i], t[i])
  BY <1>1, <1>3 DEF Takings
<1>8. \A i \in 1 .. n : g[i] = Take(g[i - 1], t[i]) /\ g[i - 1] \in Seq(Packet)
  <2>1. /\ g \in [0 .. Len(t) -> Seq(Packet)]
        /\ \A i \in 1 .. Len(t) : g[i] = Take(g[i - 1], t[i])
    BY <1>4 DEF Takings
  <2> HIDE DEF t
  <2>2. \A i \in 1 .. n : i - 1 \in 0 .. Len(t)
    BY <1>1
  <2> QED
    BY <2>1, <2>2, Zenon
<1> HIDE DEF w, t
<1> DEFINE S == {i \in 0 .. n : f[i + 1] = w \o g[i]}
<1>9. 0 \in S
  BY <1>1, <1>2, <1>5, <1>6
<1>10. ASSUME NEW i \in 0 .. n - 1, i \in S
       PROVE  i + 1 \in S
  <2> DEFINE j == i + 1
  <2>1. j \in 1 .. n /\ j - 1 = i /\ f[j] = w \o g[i]
    BY <1>1, <1>10
  <2> HIDE DEF j
  <2>2. f[j + 1] = Take(f[j], t[j]) /\ g[j] = Take(g[i], t[j])
        /\ g[i] \in Seq(Packet) /\ t[j] \in Packet
    BY <1>1, <1>7, <1>8, <2>1
  <2>3. Take(w \o g[i], t[j]) = w \o Take(g[i], t[j])
    BY <1>2, <2>2, TakeBehind
  <2>4. f[j + 1] = w \o g[j] /\ j \in 0 .. n
    BY <1>1, <2>1, <2>2, <2>3
  <2> QED
    BY <2>4 DEF j
<1>11. \A i \in 0 .. n : i \in S
  <2> HIDE DEF S, n
  <2> QED
    BY <1>1, <1>9, <1>10, InductUpTo
<1>12. f[n + 1] = w \o g[n]
  BY <1>1, <1>11
<1> QED
  BY <1>1, <1>3, <1>4, <1>12 DEF w, t

-----------------------------------------------------------------------------
(* What is due.                                                             *)

\* A server that answers: its socket is bound.
Answering(p) == pc[p] \in {"poll", "send"}

\* What a server at l has to answer, with q in its ring and b in its buffer.
DueAt(l, q, b) == IF l = "poll" THEN Waiting(q) ELSE <<b>> \o Waiting(q)

(* Two servers cannot have the port at the same time, so all that is due is *)
(* what the one that has it got.                                            *)
OneAnswers ==
  /\ \A p \in Server : Answering(p) =>
       /\ DueNow = DueAt(pc[p], Queues[sock[p]], buf[p])
       /\ \A q \in Server : Answering(q) => q = p
  /\ (\A p \in Server : ~Answering(p)) => DueNow = <<>>

(* This follows from what the servers own.                                  *)
LEMMA DueIs == NetInv => OneAnswers
<1> SUFFICES ASSUME NetInv PROVE OneAnswers
  OBVIOUS
<1> DEFINE A == {p \in Server : pc[p] \in {"poll", "send"}}
<1>1. ASSUME NEW p \in Server, NEW q \in Server, Answering(p), Answering(q) PROVE q = p
  <2>1. /\ pc[p] \in Serving /\ pc[p] # "bind" /\ pc[q] \in Serving /\ pc[q] # "bind"
    BY <1>1 DEF Answering, Serving
  <2>2. Owns(p) /\ Named(p) /\ Owns(q) /\ Named(q)
    BY <2>1, Zenon DEF NetInv, ServerInv
  <2>3. sock[p] = sock[q]
    <3>1. /\ sock[p] \in Socket /\ sockets[sock[p]].in_use = 1
          /\ sockets[sock[p]].bound_port = ECHO_PORT
          /\ sock[q] \in Socket /\ sockets[sock[q]].in_use = 1
          /\ sockets[sock[q]].bound_port = ECHO_PORT /\ ECHO_PORT # 0
      BY <2>1, <2>2, SizeAssumption, Zenon DEF Owns, Named
    <3>2. PortsUnique
      BY DEF NetInv, SocketInv
    <3> QED
      BY <3>1, <3>2, Zenon DEF PortsUnique
  <2> QED
    BY <2>2, <2>3, Zenon DEF Owns
<1>2. ASSUME NEW p \in Server, Answering(p)
      PROVE  DueNow = DueAt(pc[p], Queues[sock[p]], buf[p])
  <2>1. p \in A /\ \A q \in A : q = p
    BY <1>1, <1>2, Zenon DEF Answering
  <2>2. A # {} /\ (CHOOSE q \in A : TRUE) = p
    BY <2>1, Zenon
  <2>3. DueNow = Due(p)
    BY <2>2, Zenon DEF DueNow
  <2>4. Queues[sock[p]] = Queued(sockets[sock[p]])
    <3>1. sock[p] \in Socket
      BY <1>2, Zenon DEF NetInv, ServerInv, Owns, Answering, Serving
    <3> QED
      BY <3>1, Zenon DEF Queues
  <2>5. pc[p] = "poll" \/ (pc[p] = "send" /\ pc[p] # "poll")
    BY <1>2 DEF Answering
  <2> QED
    BY <2>3, <2>4, <2>5 DEF Due, DueAt
<1>3. ASSUME \A p \in Server : ~Answering(p) PROVE DueNow = <<>>
  <2>1. A = {}
    BY <1>3 DEF Answering
  <2> QED
    BY <2>1, Zenon DEF DueNow
<1> QED
  BY <1>1, <1>2, <1>3 DEF OneAnswers

(* The same of the next state.                                              *)
LEMMA DueNext ==
  ASSUME NetInv'
  PROVE  /\ \A p \in Server : Answering(p)' => DueNow' = DueAt(pc'[p], Queues'[sock'[p]], buf'[p])
         /\ (\A p \in Server : ~Answering(p)') => DueNow' = <<>>
<1>1. /\ \A p \in Server : Answering(p)' => DueNow' = DueAt(pc[p], Queues[sock[p]], buf[p])'
      /\ (\A p \in Server : ~Answering(p)') => DueNow' = <<>>
  <2>1. OneAnswers'
    BY DueIs, PTL
  <2> QED
    BY <2>1, Zenon DEF OneAnswers
<1>2. ASSUME NEW p \in Server
      PROVE  DueAt(pc[p], Queues[sock[p]], buf[p])' = DueAt(pc'[p], Queues'[sock'[p]], buf'[p])
  BY Zenon DEF DueAt, Waiting, Take, Truncated
<1> QED
  BY <1>1, <1>2, Zenon

(* Nothing changes for the one that answers.                                *)
LEMMA SameDue ==
  ASSUME NetInv, NetInv',
         \A q \in Server : /\ Answering(q)' <=> Answering(q)
                           /\ Answering(q) => /\ pc'[q] = pc[q] /\ buf'[q] = buf[q]
                                              /\ Queues'[sock'[q]] = Queues[sock[q]]
  PROVE  DueNow' = DueNow
<1>1. OneAnswers
  BY DueIs
<1>2. CASE \A q \in Server : ~Answering(q)
  BY <1>1, <1>2, DueNext, Zenon DEF OneAnswers
<1>3. ASSUME NEW q \in Server, Answering(q) PROVE DueNow' = DueNow
  <2>1. DueNow' = DueAt(pc'[q], Queues'[sock'[q]], buf'[q])
    BY <1>3, DueNext, Zenon
  <2>2. DueNow = DueAt(pc[q], Queues[sock[q]], buf[q])
    BY <1>1, <1>3, Zenon DEF OneAnswers
  <2>3. pc'[q] = pc[q] /\ buf'[q] = buf[q] /\ Queues'[sock'[q]] = Queues[sock[q]]
    BY <1>3, Zenon
  <2> QED
    BY <2>1, <2>2, <2>3, Zenon
<1> QED
  BY <1>2, <1>3, Zenon

(* What the server that answers knows of its socket.                        *)
LEMMA AnsweringHas ==
  ASSUME NetInv, NEW p \in Server, pc[p] \in Serving
  PROVE  /\ sock[p] \in Socket /\ sock[p] \in InUse
         /\ Queues[sock[p]] \in Seq(Packet)
         /\ \A q \in Server \ {p} : sock[q] # sock[p]
         /\ pc[p] = "send" => buf[p] \in Packet
<1>1. Owns(p) /\ (pc[p] = "send" => buf[p] \in Packet)
  BY Zenon DEF NetInv, ServerInv
<1>2. sock[p] \in Socket /\ sock[p] \in InUse
  BY <1>1 DEF Owns, InUse
<1>3. Queues[sock[p]] \in Seq(Packet)
  BY <1>2, Zenon DEF NetInv, QueuedPackets
<1> QED
  BY <1>1, <1>2, <1>3, Zenon DEF Owns

(* A step that sends no datagram gives no answer.                           *)
LEMMA NoAnswer ==
  ASSUME sent' = NoFrame \/ sent'.ethertype # ETH_TYPE_IPV4
           \/ sent'.payload.header.protocol # IP_PROTO_UDP
  PROVE  AnswerNow' = NoPacket
<1>1. NoFrame.ethertype # ETH_TYPE_IPV4
  BY DEF NoFrame, ETH_TYPE_IPV4
<1>2. ~IsUdp(sent)'
  BY <1>1, Zenon DEF IsUdp, IsIp
<1> QED
  BY <1>2, Zenon DEF AnswerNow

(* The protocol field is the one asked for.                                 *)
LEMMA BuiltProtocol ==
  ASSUME NEW id, NEW protocol, NEW dst, NEW length
  PROVE  BuildHeader(id, protocol, dst, length).protocol = protocol
<1> DEFINE flags == htons(16384)
           g == [version |-> 4, ihl |-> 5, total_length |-> htons(IP_HEADER + length),
                 id |-> htons(id), flags_frag |-> flags, ttl |-> 64,
                 protocol |-> protocol, checksum |-> 0, src_ip |-> our_ip, dst_ip |-> dst]
           c == ip_checksum(HeaderWords(g), <<>>)
<1>1. BuildHeader(id, protocol, dst, length) = [g EXCEPT !.checksum = c]
  BY DEF BuildHeader
<1> HIDE DEF flags, c
<1> QED
  BY <1>1

(* A frame that brings no datagram.                                         *)
LEMMA EchoNoDatagram ==
  ASSUME NetInv, NetInv', UNCHANGED server_vars, NEW f \in Traffic,
         Dropped \/ RxArp(f) \/ RxPing(f)
  PROVE  Echo!Quiet
<1>1. AnswerNow' = NoPacket
  <2>1. CASE sent' = NoFrame
    BY <2>1, NoAnswer
  <2>2. CASE Dropped
    BY <2>1, <2>2 DEF Dropped, NoBuffer
  <2>3. CASE RxArp(f) /\ sent' # NoFrame
    <3>1. sent'.ethertype = ETH_TYPE_ARP
      <4>1. PICK mac, arp : sent' = [ethertype |-> ETH_TYPE_ARP, dest |-> mac, payload |-> arp]
        BY <2>3, Zenon DEF RxArp, NoBuffer, arp_send_reply, ethernet_tx
      <4> QED
        BY <4>1, Zenon
    <3>2. ETH_TYPE_ARP # ETH_TYPE_IPV4
      BY DEF ETH_TYPE_ARP, ETH_TYPE_IPV4
    <3> QED
      BY <3>1, <3>2, NoAnswer, Zenon
  <2>4. CASE RxPing(f) /\ sent' # NoFrame
    <3>1. sent'.payload.header.protocol = IP_PROTO_ICMP
      <4>1. PICK mac, id : sent' = IpFrameFor(mac, id, IP_PROTO_ICMP, Header(f).src_ip,
                             EchoReply(Body(f)), IpLength(Header(f)))
        BY <2>4, Zenon DEF RxPing, icmp_echo_reply, ip_tx, NoBuffer, ethernet_tx, IpFrameFor
      <4>2. sent'.payload.header = BuildHeader(id, IP_PROTO_ICMP, Header(f).src_ip,
                                               IpLength(Header(f)))
        BY <4>1, Zenon DEF IpFrameFor
      <4> QED
        BY <4>2, BuiltProtocol
    <3>2. IP_PROTO_ICMP # IP_PROTO_UDP
      BY DEF IP_PROTO_ICMP, IP_PROTO_UDP
    <3> QED
      BY <3>1, <3>2, NoAnswer, Zenon
  <2> QED
    BY <2>1, <2>2, <2>3, <2>4
<1>2. DueNow' = DueNow
  <2>1. /\ sockets' = sockets /\ pc' = pc /\ sock' = sock /\ buf' = buf
    BY Zenon DEF Dropped, RxArp, RxPing, NoEffect, server_vars
  <2>2. Queues' = Queues
    BY <2>1, Zenon DEF Queues, Queued, Socket
  <2> QED
    BY <2>1, <2>2, SameDue, Zenon DEF Answering
<1> QED
  BY <1>1, <1>2, Zenon DEF Echo!Quiet

(* A datagram behind the others of a ring is due last, cut to the server's  *)
(* buffer; an empty one is never due.                                       *)
LEMMA DueAppend ==
  ASSUME NEW l, NEW q \in Seq(Packet), NEW d \in Packet, NEW b, l # "poll" => b \in Packet
  PROVE  DueAt(l, Append(q, d), b) = DueAt(l, q, b)
           \/ \E e \in Packet : DueAt(l, Append(q, d), b) = Append(DueAt(l, q, b), e)
<1> DEFINE e == Truncated(d, BUF_SIZE)
           w == Waiting(q)
<1>1. e \in Packet
  BY PacketAssumption
<1>2. w \in Seq(Packet) /\ Waiting(Append(q, d)) = Take(w, d)
  BY WaitingAppend
<1>3. Take(w, d) = w \/ Take(w, d) = Append(w, e)
  BY DEF Take
<1> HIDE DEF e, w
<1>4. CASE l = "poll"
  BY <1>1, <1>2, <1>3, <1>4 DEF DueAt, w
<1>5. CASE l # "poll"
  <2>1. b \in Packet
    BY <1>5
  <2>2. <<b>> \o Append(w, e) = Append(<<b>> \o w, e)
    BY <1>1, <1>2, <2>1
  <2>3. /\ DueAt(l, q, b) = <<b>> \o w
        /\ DueAt(l, Append(q, d), b) = <<b>> \o Take(w, d)
    BY <1>2, <1>5, Zenon DEF DueAt, w
  <2> QED
    BY <1>1, <1>3, <2>2, <2>3, Zenon
<1> QED
  BY <1>4, <1>5

(* A datagram that is put into a ring.                                      *)
LEMMA EchoDatagram ==
  ASSUME NetInv, NetInv', UNCHANGED server_vars, NEW f \in Traffic, RxUdp(f)
  PROVE  Echo!Quiet \/ \E d \in Packet : Echo!Arrive(d)
<1>1. AnswerNow' = NoPacket
  BY NoAnswer DEF RxUdp, NoBuffer
<1>2. pc' = pc /\ sock' = sock /\ buf' = buf
  BY DEF server_vars
<1>3. PICK d \in Packet, s \in Socket : M!Arrive(s, d)
  <2> DEFINE port == ntohs(Body(f).dst_port)
             packet == Kept(Header(f), Body(f))
  <2>1. port \in Port /\ packet \in Packet /\ socket_deliver_udp(port, packet)
    BY UdpFrame, Zenon DEF RxUdp
  <2> HIDE DEF port, packet
  <2> QED
    BY <2>1, MapDeliver, Zenon DEF NetInv
<1>4. Queues' = [Queues EXCEPT ![s] = Append(@, d)]
  BY <1>3, Zenon DEF M!Arrive
<1>5. Queues \in [Socket -> Seq(Packet)]
  BY DEF NetInv, QueuedPackets
<1>6. CASE \E p \in Server : Answering(p) /\ sock[p] = s
  <2>1. PICK p \in Server : Answering(p) /\ sock[p] = s
    BY <1>6
  <2> DEFINE q == Queues[s]
  <2>2. q \in Seq(Packet) /\ Queues'[s] = Append(q, d)
    <3> DEFINE Q == Queues
    <3> HIDE DEF Q
    <3>1. Q \in [Socket -> Seq(Packet)] /\ Q' = [Q EXCEPT ![s] = Append(@, d)]
      BY <1>4, <1>5 DEF Q
    <3>2. Q[s] \in Seq(Packet) /\ Q'[s] = Append(Q[s], d)
      BY <3>1
    <3> QED
      BY <3>2 DEF Q
  <2>3. DueNow = DueAt(pc[p], q, buf[p])
    BY <2>1, DueIs, Zenon DEF OneAnswers
  <2>4. DueNow' = DueAt(pc[p], Append(q, d), buf[p])
    BY <1>2, <2>1, <2>2, DueNext, Zenon DEF Answering
  <2>5. pc[p] # "poll" => buf[p] \in Packet
    BY <2>1, AnsweringHas DEF Answering, Serving
  <2> HIDE DEF q
  <2>6. DueNow' = DueNow \/ \E e \in Packet : DueNow' = Append(DueNow, e)
    <3>1. \A l, b : (l # "poll" => b \in Packet) =>
            \/ DueAt(l, Append(q, d), b) = DueAt(l, q, b)
            \/ \E e \in Packet : DueAt(l, Append(q, d), b) = Append(DueAt(l, q, b), e)
      BY <2>2, DueAppend
    <3> QED
      BY <2>3, <2>4, <2>5, <3>1, Zenon
  <2> QED
    BY <1>1, <2>6, Zenon DEF Echo!Quiet, Echo!Arrive
<1>7. CASE \A p \in Server : Answering(p) => sock[p] # s
  <2>1. ASSUME NEW p \in Server, Answering(p) PROVE Queues'[sock[p]] = Queues[sock[p]]
    <3>1. sock[p] \in Socket /\ sock[p] # s
      BY <1>7, <2>1, AnsweringHas DEF Answering, Serving
    <3> QED
      BY <1>4, <1>5, <3>1, Zenon
  <2>2. DueNow' = DueNow
    BY <1>2, <2>1, SameDue, Zenon DEF Answering
  <2> QED
    BY <1>1, <2>2, Zenon DEF Echo!Quiet
<1> QED
  BY <1>6, <1>7

(* A server that does not answer, before the step or after it, and keeps    *)
(* away from the ring of the one that does.                                 *)
LEMMA DueElsewhere ==
  ASSUME NetInv, NetInv', NEW p \in Server, NEW l, NEW v, NEW b,
         ~Answering(p), l \notin {"poll", "send"},
         pc' = [pc EXCEPT ![p] = l], sock' = [sock EXCEPT ![p] = v],
         buf' = [buf EXCEPT ![p] = b],
         \A q \in Server \ {p} : Answering(q) => Queues'[sock[q]] = Queues[sock[q]]
  PROVE  DueNow' = DueNow
<1>1. /\ pc \in [Server -> {"off", "socket"} \cup Serving]
      /\ sock \in [Server -> Socket \cup {-1}]
      /\ buf \in [Server -> Packet \cup {NoPacket}]
  BY Zenon DEF NetInv, ServerInv, ServerTypeOK
<1>2. pc'[p] = l
  BY <1>1, Zenon
<1>3. \A q \in Server \ {p} : pc'[q] = pc[q] /\ sock'[q] = sock[q] /\ buf'[q] = buf[q]
  BY <1>1, Zenon
<1>4. ~Answering(p)'
  BY <1>2 DEF Answering
<1>5. \A q \in Server \ {p} : Answering(q)' <=> Answering(q)
  BY <1>3, Zenon DEF Answering
<1>6. ASSUME NEW q \in Server
      PROVE  /\ Answering(q)' <=> Answering(q)
             /\ Answering(q) => /\ pc'[q] = pc[q] /\ buf'[q] = buf[q]
                                /\ Queues'[sock'[q]] = Queues[sock[q]]
  BY <1>3, <1>4, <1>5, Zenon
<1> QED
  BY <1>6, SameDue, Zenon

(* The table is left as it is.                                              *)
LEMMA SameQueues ==
  ASSUME NoEffect
  PROVE  Queues' = Queues
  BY Zenon DEF NoEffect, Queues, Queued, Socket

(* The socket call.                                                         *)
LEMMA EchoSocket ==
  ASSUME NetInv, NetInv', NEW p \in Server, pc[p] = "socket", sys_command16_socket(p),
         StackIdle, UNCHANGED buf
  PROVE  Echo!Quiet
<1>1. AnswerNow' = NoPacket
  BY NoAnswer DEF StackIdle, NoBuffer
<1>2. ~Answering(p) /\ buf' = [buf EXCEPT ![p] = buf[p]] /\ sock = [sock EXCEPT ![p] = sock[p]]
  BY DEF Answering, NetInv, ServerInv, ServerTypeOK
<1>3. "bind" \notin {"poll", "send"} /\ "off" \notin {"poll", "send"}
  OBVIOUS
<1>4. CASE socket_create /\ (\E s \in Socket : sock' = [sock EXCEPT ![p] = s])
           /\ pc' = [pc EXCEPT ![p] = "bind"]
  <2>1. PICK v \in Socket : sock' = [sock EXCEPT ![p] = v]
    BY <1>4
  <2>2. PICK s \in Socket : M!Open(s)
    BY <1>4, MapCreate DEF NetInv
  <2>3. s \notin InUse /\ Queues' = [Queues EXCEPT ![s] = <<>>]
    BY <2>2, Zenon DEF M!Open
  <2>4. ASSUME NEW q \in Server \ {p}, Answering(q) PROVE Queues'[sock[q]] = Queues[sock[q]]
    <3>1. sock[q] \in Socket /\ sock[q] # s
      BY <2>3, <2>4, AnsweringHas DEF Answering, Serving
    <3> QED
      BY <2>3, <3>1, Zenon DEF Queues
  <2>5. DueNow' = DueNow
    BY <1>2, <1>3, <1>4, <2>1, <2>4, DueElsewhere, Zenon
  <2> QED
    BY <1>1, <2>5, Zenon DEF Echo!Quiet
<1>5. CASE NoEffect /\ pc' = [pc EXCEPT ![p] = "off"] /\ UNCHANGED sock
  <2>1. sock' = [sock EXCEPT ![p] = sock[p]]
    BY <1>2, <1>5
  <2>2. DueNow' = DueNow
    BY <1>2, <1>3, <1>5, <2>1, SameQueues, DueElsewhere, Zenon
  <2> QED
    BY <1>1, <2>2, Zenon DEF Echo!Quiet
<1> QED
  BY <1>4, <1>5, Zenon DEF sys_command16_socket

(* The bind call: nothing was due, and nothing waits in a ring that had no  *)
(* port until now.                                                          *)
LEMMA EchoBind ==
  ASSUME NoneToPortZero, NetInv, NetInv', NEW p \in Server, pc[p] = "bind",
         sys_command17_bind(p), StackIdle, UNCHANGED buf
  PROVE  Echo!Quiet
<1>0. /\ pc \in [Server -> {"off", "socket"} \cup Serving]
      /\ sock \in [Server -> Socket \cup {-1}]
      /\ buf \in [Server -> Packet \cup {NoPacket}]
  BY Zenon DEF NetInv, ServerInv, ServerTypeOK
<1>1. AnswerNow' = NoPacket
  BY NoAnswer DEF StackIdle, NoBuffer
<1>2. ~Answering(p) /\ buf' = [buf EXCEPT ![p] = buf[p]]
  BY <1>0 DEF Answering
<1>3. pc[p] \in Serving
  BY DEF Serving
<1>4. CASE socket_bind(sock[p], ECHO_PORT) /\ pc' = [pc EXCEPT ![p] = "poll"] /\ UNCHANGED sock
  <2>1. sock[p] \in Socket /\ ECHO_PORT \in Port
    BY <1>3, AnsweringHas, SizeAssumption
  <2>2. Queues' = Queues
    <3>1. M!Bind(sock[p], ECHO_PORT)
      BY <1>4, <2>1, MapBind DEF NetInv
    <3> QED
      BY <3>1, Zenon DEF M!Bind
  <2>3. Queues[sock[p]] = <<>>
    <3>1. sockets[sock[p]].recv_count = 0
      BY <1>3, Zenon DEF NetInv, ServerInv, Named
    <3>2. Len(Queues[sock[p]]) = sockets[sock[p]].recv_count
      BY <2>1, SocketRing DEF NetInv
    <3>3. Queues[sock[p]] \in Seq(Packet)
      BY <1>3, AnsweringHas
    <3> QED
      BY <3>1, <3>2, <3>3, EmptySeq
  <2>4. Answering(p)' /\ pc'[p] = "poll" /\ \A q \in Server \ {p} : pc'[q] = pc[q]
    BY <1>0, <1>4 DEF Answering
  <2>5. DueNow' = <<>>
    <3>1. DueNow' = DueAt("poll", <<>>, buf'[p])
      BY <1>4, <2>2, <2>3, <2>4, DueNext, Zenon
    <3> QED
      BY <3>1, WaitingEmpty, Zenon DEF DueAt
  <2>6. \A q \in Server : ~Answering(q)
    <3>1. OneAnswers'
      BY DueIs, PTL
    <3>2. \A q \in Server : Answering(q)' => q = p
      BY <2>4, <3>1, Zenon DEF OneAnswers
    <3> QED
      BY <1>2, <2>4, <3>2, Zenon DEF Answering
  <2>7. DueNow = <<>>
    BY <2>6, DueIs, Zenon DEF OneAnswers
  <2> QED
    BY <1>1, <2>5, <2>7, Zenon DEF Echo!Quiet
<1>5. CASE NoEffect /\ pc' = [pc EXCEPT ![p] = "off"] /\ sock' = [sock EXCEPT ![p] = -1]
  <2>1. "off" \notin {"poll", "send"}
    OBVIOUS
  <2>2. DueNow' = DueNow
    BY <1>2, <1>5, <2>1, SameQueues, DueElsewhere
  <2> QED
    BY <1>1, <2>2, Zenon DEF Echo!Quiet
<1> QED
  BY <1>4, <1>5, Zenon DEF sys_command17_bind

(* What a server with an empty buffer gets of its next datagram.            *)
LEMMA TakeFirst ==
  ASSUME NEW d \in Packet
  PROVE  LET e == Truncated(d, BUF_SIZE)
         IN  Take(<<>>, d) = IF e.len > 0 THEN <<e>> ELSE <<>>
<1> DEFINE e == Truncated(d, BUF_SIZE)
<1>1. /\ d \in [src_ip : Address, src_port : Word, len : 0 .. SOCKET_MAX_PACKET_SIZE]
      /\ BUF_SIZE \in 1 .. SOCKET_MAX_PACKET_SIZE /\ SOCKET_MAX_PACKET_SIZE \in Nat
  BY PacketAssumption, SizeAssumption
<1>2. e.len = IF d.len > BUF_SIZE THEN BUF_SIZE ELSE d.len
  BY <1>1 DEF Truncated
<1>3. d.len \in Nat
  BY <1>1
<1>4. e.len > 0 <=> d.len > 0
  <2> DEFINE l == d.len
             m == e.len
  <2>1. l \in Nat /\ m = IF l > BUF_SIZE THEN BUF_SIZE ELSE l
    BY <1>2, <1>3
  <2> HIDE DEF l, m, e
  <2>2. m > 0 <=> l > 0
    BY <1>1, <2>1
  <2> QED
    BY <2>2 DEF l, m
<1>5. Take(<<>>, d) = IF d.len > 0 THEN Append(<<>>, e) ELSE <<>>
  BY Zenon DEF Take
<1>6. \A x : Append(<<>>, x) = <<x>>
  OBVIOUS
<1>7. Take(<<>>, d) = IF e.len > 0 THEN <<e>> ELSE <<>>
  BY <1>4, <1>5, <1>6, Zenon
<1> QED
  BY <1>7, Zenon

(* The recvfrom call: the oldest datagram moves from the ring to the        *)
(* server's buffer, and an empty one out of the way.                        *)
LEMMA EchoRecv ==
  ASSUME NetInv, NetInv', NEW p \in Server, pc[p] = "poll", sys_command19_recvfrom(p), StackIdle
  PROVE  Echo!Quiet
<1>0. /\ pc \in [Server -> {"off", "socket"} \cup Serving]
      /\ buf \in [Server -> Packet \cup {NoPacket}]
  BY Zenon DEF NetInv, ServerInv, ServerTypeOK
<1>1. AnswerNow' = NoPacket
  BY NoAnswer DEF StackIdle, NoBuffer
<1>2. Answering(p) /\ pc[p] \in Serving
  BY DEF Answering, Serving
<1> DEFINE s == sock[p]
           q == Queues[s]
           d == Truncated(received', BUF_SIZE)
<1>3. s \in Socket /\ q \in Seq(Packet)
  BY <1>2, AnsweringHas
<1>4. /\ socket_recvfrom(s) /\ sock' = sock
      /\ \/ d.len > 0 /\ buf' = [buf EXCEPT ![p] = d] /\ pc' = [pc EXCEPT ![p] = "send"]
         \/ ~(d.len > 0) /\ UNCHANGED <<buf, pc>>
  BY Zenon DEF sys_command19_recvfrom
<1>5. M!Receive(s)
  BY <1>3, <1>4, MapRecv DEF NetInv
<1>6. q # <<>> /\ received' = Head(q) /\ Queues'[s] = Tail(q)
  BY <1>3, <1>5, Zenon DEF M!Receive, Queues
<1>7. Waiting(q) = Take(<<>>, received') \o Waiting(Tail(q))
  BY <1>3, <1>6, WaitingFront
<1>8. received' \in Packet /\ d \in Packet /\ Tail(q) \in Seq(Packet)
  <2>1. \A x : x \in Seq(Packet) /\ x # <<>> => Head(x) \in Packet /\ Tail(x) \in Seq(Packet)
    OBVIOUS
  <2> QED
    BY <1>3, <1>6, <2>1, PacketAssumption, Zenon
<1>9. Take(<<>>, received') = IF d.len > 0 THEN <<d>> ELSE <<>>
  BY <1>8, TakeFirst
<1>10. DueNow = Waiting(q)
  BY <1>2, DueIs, Zenon DEF OneAnswers, DueAt
<1> HIDE DEF q, d
<1>11. Waiting(Tail(q)) \in Seq(Packet)
  BY <1>8, WaitingAppend
<1>12. CASE d.len > 0 /\ buf' = [buf EXCEPT ![p] = d] /\ pc' = [pc EXCEPT ![p] = "send"]
  <2>1. pc'[p] = "send" /\ buf'[p] = d /\ Answering(p)'
    BY <1>0, <1>12 DEF Answering
  <2>2. DueNow' = DueAt("send", Tail(q), d)
    BY <1>4, <1>6, <2>1, DueNext, Zenon
  <2>3. DueNow' = <<d>> \o Waiting(Tail(q))
    BY <2>2 DEF DueAt
  <2>4. DueNow' = DueNow
    BY <1>7, <1>9, <1>10, <1>12, <2>3
  <2> QED
    BY <1>1, <2>4, Zenon DEF Echo!Quiet
<1>13. CASE ~(d.len > 0) /\ UNCHANGED <<buf, pc>>
  <2>1. pc'[p] = "poll" /\ Answering(p)'
    BY <1>13 DEF Answering
  <2>2. DueNow' = DueAt("poll", Tail(q), buf'[p])
    BY <1>4, <1>6, <2>1, DueNext, Zenon
  <2>3. DueNow' = Waiting(Tail(q))
    BY <2>2 DEF DueAt
  <2>4. <<>> \o Waiting(Tail(q)) = Waiting(Tail(q))
    BY <1>11
  <2>5. DueNow' = DueNow
    BY <1>7, <1>9, <1>10, <1>13, <2>3, <2>4, Zenon
  <2> QED
    BY <1>1, <2>5, Zenon DEF Echo!Quiet
<1> QED
  BY <1>4, <1>12, <1>13

(* The sendto call: the answer is the oldest datagram that is due and goes  *)
(* back to its sender, or it is lost on the way down.                       *)
LEMMA EchoSend ==
  ASSUME NetInv, NetInv', NEW p \in Server, pc[p] = "send", sys_command18_sendto(p),
         UNCHANGED arp_vars
  PROVE  Echo!Answer \/ Echo!Lose
<1>0. pc \in [Server -> {"off", "socket"} \cup Serving]
  BY Zenon DEF NetInv, ServerInv, ServerTypeOK
<1>1. Answering(p) /\ pc[p] \in Serving
  BY DEF Answering, Serving
<1> DEFINE q == Queues[sock[p]]
<1>2. q \in Seq(Packet) /\ buf[p] \in Packet
  BY <1>1, AnsweringHas
<1>3. PICK d \in Packet : d = buf[p]
  BY <1>2
<1>4. DueNow = <<d>> \o Waiting(q)
  <2>1. DueNow = DueAt("send", q, d)
    BY <1>1, <1>3, DueIs, Zenon DEF OneAnswers
  <2> QED
    BY <2>1 DEF DueAt
<1>5. NoEffect /\ pc' = [pc EXCEPT ![p] = "poll"] /\ sock' = sock
  BY Zenon DEF sys_command18_sendto
<1>6. pc'[p] = "poll" /\ Answering(p)' /\ Queues'[sock'[p]] = q
  BY <1>0, <1>5, SameQueues DEF Answering
<1>7. DueNow' = Waiting(q)
  <2>1. DueNow' = DueAt("poll", q, buf'[p])
    BY <1>6, DueNext, Zenon
  <2> QED
    BY <2>1 DEF DueAt
<1>8. DueNow # <<>> /\ Head(DueNow) = d /\ DueNow' = Tail(DueNow)
  <2>1. Waiting(q) \in Seq(Packet)
    BY <1>2, <1>3, WaitingAppend
  <2>2. \A w \in Seq(Packet) : /\ <<d>> \o w # <<>>
                               /\ Head(<<d>> \o w) = d /\ Tail(<<d>> \o w) = w
    OBVIOUS
  <2> QED
    BY <1>4, <1>7, <2>1, <2>2, Zenon
<1>9. CASE sent' = NoFrame
  <2>1. AnswerNow' = NoPacket
    BY <1>9, NoAnswer
  <2> QED
    BY <1>8, <2>1, Zenon DEF Echo!Lose
<1>10. CASE sent' # NoFrame
  <2>1. /\ IsIp(sent)' /\ sent'.payload.header.dst_ip = d.src_ip
        /\ sent'.payload.header.protocol = IP_PROTO_UDP
        /\ ntohs(sent'.payload.body.length) = UDP_HEADER + d.len
        /\ ntohs(sent'.payload.body.dst_port) = d.src_port
    BY <1>3, <1>10, UdpSent, Zenon
  <2>2. AnswerNow' = [src_ip |-> d.src_ip, src_port |-> d.src_port,
                      len |-> (UDP_HEADER + d.len) - UDP_HEADER]
    <3>1. IsUdp(sent)'
      BY <2>1, Zenon DEF IsUdp
    <3>2. AnswerNow' = [src_ip |-> sent'.payload.header.dst_ip,
                        src_port |-> ntohs(sent'.payload.body.dst_port),
                        len |-> ntohs(sent'.payload.body.length) - UDP_HEADER]
      BY <3>1, Zenon DEF AnswerNow, ntohs, htons, BYTE, UDP_HEADER
    <3> QED
      BY <2>1, <3>2, Zenon
  <2>3. d \in [src_ip : Address, src_port : Word, len : 0 .. SOCKET_MAX_PACKET_SIZE]
    BY PacketAssumption
  <2>4. (UDP_HEADER + d.len) - UDP_HEADER = d.len
    <3>1. d.len \in Nat
      BY <2>3, SizeAssumption
    <3>2. \A l \in Nat : (UDP_HEADER + l) - UDP_HEADER = l
      BY DEF UDP_HEADER
    <3> QED
      BY <3>1, <3>2
  <2>5. d = [src_ip |-> d.src_ip, src_port |-> d.src_port, len |-> d.len]
    BY <2>3
  <2>6. AnswerNow' = Head(DueNow)
    BY <1>8, <2>2, <2>4, <2>5, Zenon
  <2> QED
    BY <1>8, <2>6, Zenon DEF Echo!Answer
<1> QED
  BY <1>9, <1>10

(* A server starts, or its process is killed with all that was due.         *)
LEMMA EchoLife ==
  ASSUME NetInv, NetInv', NEW p \in Server, Start(p) \/ Kill(p)
  PROVE  Echo!Quiet \/ Echo!Stop
<1>0. /\ pc \in [Server -> {"off", "socket"} \cup Serving]
      /\ sock = [sock EXCEPT ![p] = sock[p]] /\ buf = [buf EXCEPT ![p] = buf[p]]
  BY DEF NetInv, ServerInv, ServerTypeOK
<1>1. AnswerNow' = NoPacket
  BY NoAnswer DEF Start, Kill, StackIdle, NoBuffer
<1>2. Queues' = Queues
  BY SameQueues DEF Start, Kill
<1>3. "off" \notin {"poll", "send"} /\ "socket" \notin {"poll", "send"}
  OBVIOUS
<1>4. CASE Start(p)
  <2>1. ~Answering(p)
    BY <1>4 DEF Start, Answering
  <2>2. /\ pc' = [pc EXCEPT ![p] = "socket"] /\ sock' = [sock EXCEPT ![p] = sock[p]]
        /\ buf' = [buf EXCEPT ![p] = buf[p]]
    BY <1>0, <1>4 DEF Start
  <2>3. DueNow' = DueNow
    BY <1>2, <1>3, <2>1, <2>2, DueElsewhere
  <2> QED
    BY <1>1, <2>3, Zenon DEF Echo!Quiet
<1>5. CASE Kill(p) /\ ~Answering(p)
  <2>1. DueNow' = DueNow
    BY <1>2, <1>3, <1>5, DueElsewhere DEF Kill
  <2> QED
    BY <1>1, <2>1, Zenon DEF Echo!Quiet
<1>6. CASE Kill(p) /\ Answering(p)
  <2>1. \A q \in Server \ {p} : ~Answering(q)
    BY <1>6, DueIs, Zenon DEF OneAnswers
  <2>2. pc'[p] = "off" /\ \A q \in Server \ {p} : pc'[q] = pc[q]
    BY <1>0, <1>6, Zenon DEF Kill
  <2>3. \A q \in Server : ~Answering(q)'
    BY <1>3, <2>1, <2>2, Zenon DEF Answering
  <2>4. DueNow' = <<>>
    BY <2>3, DueNext, Zenon
  <2> QED
    BY <1>1, <2>4, Zenon DEF Echo!Stop
<1> QED
  BY <1>4, <1>5, <1>6

(* ImplementsEcho: with any number of servers, killed and started at any    *)
(* moment, and whatever the wire delivers, every datagram taken is answered *)
(* at most once, to its sender, in the order of arrival.  The hypothesis is *)
(* needed: a datagram for port 0 is put into the ring of a socket that is   *)
(* not bound yet, and the server that binds it answers it.                  *)
THEOREM StackEchoes == ASSUME NoneToPortZero PROVE NetSpec => ImplementsEcho
<1>1. NetInit => Echo!Init
  <2> SUFFICES ASSUME NetInit PROVE Echo!Init
    OBVIOUS
  <2>1. AnswerNow = NoPacket
    <3>1. NoFrame.ethertype # ETH_TYPE_IPV4
      BY DEF NoFrame, ETH_TYPE_IPV4
    <3>2. ~IsUdp(sent)
      BY <3>1, Zenon DEF NetInit, IsUdp, IsIp
    <3> QED
      BY <3>2, Zenon DEF AnswerNow
  <2>2. \A p \in Server : ~Answering(p)
    BY DEF NetInit, Answering
  <2>3. DueNow = <<>>
    BY <2>2, NetStart, DueIs, Zenon DEF OneAnswers
  <2> QED
    BY <2>1, <2>3, Zenon DEF Echo!Init
<1>2. ASSUME NetInv, NetInv', [NetNext]_net_vars
      PROVE  [Echo!Next]_<<DueNow, AnswerNow>>
  <2>1. CASE UNCHANGED net_vars
    <3>1. /\ sockets' = sockets /\ pc' = pc /\ sock' = sock /\ buf' = buf /\ sent' = sent
      BY <2>1 DEF net_vars, stack_vars, server_vars
    <3>2. Queues' = Queues
      BY <3>1, Zenon DEF Queues, Queued, Socket
    <3>3. DueNow' = DueNow
      BY <1>2, <3>1, <3>2, SameDue, Zenon DEF Answering
    <3>4. AnswerNow' = AnswerNow
      BY <3>1, Zenon DEF AnswerNow, IsUdp, IsIp, ntohs, htons, BYTE, UDP_HEADER
    <3> QED
      BY <3>3, <3>4, Zenon
  <2>2. ASSUME NEW f \in Traffic, ethernet_rx(f), UNCHANGED server_vars PROVE Echo!Next
    BY <1>2, <2>2, RxCases, EchoNoDatagram, EchoDatagram, Zenon DEF Echo!Next
  <2>3. ASSUME NEW p \in Server, udpecho(p) PROVE Echo!Next
    <3>1. CASE pc[p] = "socket" /\ sys_command16_socket(p) /\ StackIdle /\ UNCHANGED buf
      BY <1>2, <3>1, EchoSocket, Zenon DEF Echo!Next
    <3>2. CASE pc[p] = "bind" /\ sys_command17_bind(p) /\ StackIdle /\ UNCHANGED buf
      BY <1>2, <3>2, EchoBind, Zenon DEF Echo!Next
    <3>3. CASE pc[p] = "poll" /\ sys_command19_recvfrom(p) /\ StackIdle
      BY <1>2, <3>3, EchoRecv, Zenon DEF Echo!Next
    <3>4. CASE pc[p] = "send" /\ sys_command18_sendto(p) /\ UNCHANGED arp_vars
      BY <1>2, <3>4, EchoSend, Zenon DEF Echo!Next
    <3> QED
      BY <2>3, <3>1, <3>2, <3>3, <3>4, Zenon DEF udpecho
  <2>4. ASSUME NEW p \in Server, Start(p) \/ Kill(p) PROVE Echo!Next
    BY <1>2, <2>4, EchoLife, Zenon DEF Echo!Next
  <2> QED
    BY <1>2, <2>1, <2>2, <2>3, <2>4, Zenon DEF NetNext, Receive
<1>3. NetInv /\ [NetNext]_net_vars => [Echo!Next]_<<DueNow, AnswerNow>>
  BY <1>2, NetStep
<1> QED
  BY <1>1, <1>3, NetStart, NetStep, PTL DEF NetSpec, ImplementsEcho, Echo!Spec

=============================================================================
