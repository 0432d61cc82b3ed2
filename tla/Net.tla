-------------------------------- MODULE Net ---------------------------------
(***************************************************************************)
(* The network stack above the driver, from ethernet_rx to the sockets and  *)
(* back down to ethernet_tx (src/src/sys/net), with the echo servers that   *)
(* use it (src/programs/udpecho).  A frame the driver received runs through *)
(* the whole stack in one step, inside the interrupt; so does a system      *)
(* call.  The wire may deliver any frame of Traffic at any time: frames get *)
(* lost, repeated, reordered and damaged.                                   *)
(***************************************************************************)
EXTENDS Socket, Arp, Ip, Sequences

CONSTANTS Traffic,              \* the frames the wire may deliver
          our_mac,
          ip_id_counter,        \* the values the counter may have; nothing depends on its order
          SOCKET_MAX_PACKET_SIZE, BUF_SIZE, ECHO_PORT,
          Server                \* the slots echo servers run in

ETH_TYPE_IPV4 == 2048
ETH_TYPE_ARP == 2054

\* The length of what an IP header is followed by.
IpLength(ip) == (ntohs(ip.total_length) - (ip.ihl * 4)) % WORD

\* The payload of a datagram of the wire, and what the stack keeps of it.
UdpLength(udp) == ntohs(udp.length) - UDP_HEADER
Kept(ip, udp) ==
  [src_ip |-> ip.src_ip, src_port |-> ntohs(udp.src_port),
   len |-> IF UdpLength(udp) > SOCKET_MAX_PACKET_SIZE THEN SOCKET_MAX_PACKET_SIZE
           ELSE UdpLength(udp)]

\* The part of a datagram that fits the caller's buffer.
Truncated(d, max_len) == [d EXCEPT !.len = IF @ > max_len THEN max_len ELSE @]

ASSUME SizeAssumption ==
  /\ SOCKET_MAX_PACKET_SIZE \in 1 .. WORD - 1 - IP_HEADER - UDP_HEADER
  /\ BUF_SIZE \in 1 .. SOCKET_MAX_PACKET_SIZE
  /\ ECHO_PORT \in Port \ {0}
  /\ ip_id_counter \subseteq Word

(* The frames of the wire.  The fields have the width they have in memory.  *)
(* An IP header has no options, and an ICMP message is as long as its IP    *)
(* header says: what the checksum would run over otherwise is not modelled. *)
ASSUME TrafficAssumption ==
  \A f \in Traffic :
    /\ f.ethertype = ETH_TYPE_ARP => /\ f.payload.sender_ip \in Ip
                                     /\ f.payload.sender_mac \in Mac
    /\ f.ethertype = ETH_TYPE_IPV4 =>
         LET h == f.payload.header
             b == f.payload.body
         IN  /\ h \in HeaderType /\ h.ihl <= 5
             /\ h.protocol = IP_PROTO_ICMP =>
                  /\ b \in IcmpType
                  /\ ntohs(h.total_length) =
                       (h.ihl * 4) + ICMP_HEADER + (2 * Len(b.data)) + Len(b.odd)
             /\ h.protocol = IP_PROTO_UDP =>
                  /\ b \in UdpType
                  /\ ntohs(b.dst_port) \in Port
                  /\ UdpAccepted(IpLength(h), b) => Kept(h, b) \in Packet

\* Packet holds what the stack keeps of those datagrams, and what a server gets of it.
ASSUME PacketAssumption ==
  /\ Packet \subseteq [src_ip : Address, src_port : Word, len : 0 .. SOCKET_MAX_PACKET_SIZE]
  /\ \A d \in Packet : Truncated(d, BUF_SIZE) \in Packet

VARIABLES sent,                 \* the frame the last step gave to the driver
          pc, sock,             \* of each server: where it is, its descriptor
          buf                   \* and the datagram it is about to send back

stack_vars == <<sockets, received, arp_cache, arp_cache_next, sent>>
server_vars == <<pc, sock, buf>>
net_vars == <<stack_vars, server_vars>>

NoFrame == [ethertype |-> 0, dest |-> 0, payload |-> [len |-> 0]]

NetInit == /\ Init /\ ArpInit
           /\ sent = NoFrame
           /\ pc = [p \in Server |-> "off"]
           /\ sock = [p \in Server |-> -1]
           /\ buf = [p \in Server |-> NoPacket]
-----------------------------------------------------------------------------
\* The way down.  A packet is given up where a buffer cannot be allocated.
NoBuffer == sent' = NoFrame

\* The driver takes the frame, or its ring is full and the frame is lost.
ethernet_tx(dest_mac, ethertype, payload) ==
  \/ sent' = [ethertype |-> ethertype, dest |-> dest_mac, payload |-> payload]
  \/ sent' = NoFrame

ip_tx(dst_ip, protocol, body, length) ==
  \/ NoBuffer
  \/ arp_cache_lookup(dst_ip) = {} /\ sent' = NoFrame
  \/ \E mac \in arp_cache_lookup(dst_ip), id \in ip_id_counter :
       ethernet_tx(mac, ETH_TYPE_IPV4,
         [len |-> IP_HEADER + length, body |-> body,
          header |-> BuildHeader(id, protocol, dst_ip, length)])

udp_tx(dst_ip, src_port, dst_port, len) ==
  \/ NoBuffer
  \/ ip_tx(dst_ip, IP_PROTO_UDP,
           [src_port |-> htons(src_port), dst_port |-> htons(dst_port),
            length |-> htons(UDP_HEADER + len)], UDP_HEADER + len)

icmp_echo_reply(ip, icmp, len) ==
  NoBuffer \/ ip_tx(ip.src_ip, IP_PROTO_ICMP, EchoReply(icmp), len)

arp_send_reply(request) ==
  \/ NoBuffer
  \/ ethernet_tx(request.sender_mac, ETH_TYPE_ARP,
       [len |-> 28, hwtype |-> htons(1), protype |-> htons(ETH_TYPE_IPV4),
        opcode |-> htons(2), sender_mac |-> our_mac, sender_ip |-> our_ip,
        target_mac |-> request.sender_mac, target_ip |-> request.sender_ip])
-----------------------------------------------------------------------------
\* The way up.
Dropped == NoEffect /\ NoBuffer /\ UNCHANGED arp_vars

\* The request is for us.
is_our_ip(ip) == ip = our_ip

(* Every well-formed packet updates the cache, whatever its opcode; a       *)
(* request for our address is answered.                                     *)
arp_rx(arp) ==
  LET malformed == \/ arp.len < 28
                   \/ ntohs(arp.hwtype) # 1
                   \/ ntohs(arp.protype) # ETH_TYPE_IPV4
  IN  \/ malformed /\ Dropped
      \/ /\ ~malformed
         /\ NoEffect
         /\ arp_cache_update(arp.sender_ip, arp.sender_mac)
         /\ IF ntohs(arp.opcode) = 1 /\ is_our_ip(arp.target_ip)
              THEN arp_send_reply(arp)
              ELSE NoBuffer

icmp_rx(ip, icmp, len) ==
  IF IcmpAccepted(len, icmp) /\ icmp.type = ICMP_TYPE_ECHO_REQUEST
    THEN icmp_echo_reply(ip, icmp, len) /\ NoEffect /\ UNCHANGED arp_vars
    ELSE Dropped

udp_rx(ip, udp, len) ==
  \/ /\ UdpAccepted(len, udp)
     /\ socket_deliver_udp(ntohs(udp.dst_port), Kept(ip, udp))
     /\ NoBuffer /\ UNCHANGED arp_vars
  \/ /\ UdpAccepted(len, udp) =>
          \A s \in Socket : Addressee(s, ntohs(udp.dst_port)) =>
                              sockets[s].recv_count >= SOCKET_RECV_QUEUE_SIZE
     /\ Dropped

ip_rx(packet) ==
  LET ip == packet.header
      len == IpLength(ip)
  IN  IF HeaderAccepted(packet.len, ip)
        THEN CASE ip.protocol = IP_PROTO_ICMP -> icmp_rx(ip, packet.body, len)
               [] ip.protocol = IP_PROTO_UDP  -> udp_rx(ip, packet.body, len)
               [] OTHER                       -> Dropped
        ELSE Dropped

ethernet_rx(frame) ==
  \/ frame.ethertype = ETH_TYPE_IPV4 /\ ip_rx(frame.payload)
  \/ frame.ethertype = ETH_TYPE_ARP /\ arp_rx(frame.payload)
  \/ frame.ethertype \notin {ETH_TYPE_IPV4, ETH_TYPE_ARP} /\ Dropped

Receive == \E frame \in Traffic : ethernet_rx(frame) /\ UNCHANGED server_vars
-----------------------------------------------------------------------------
(* The system calls of a server.  A call that takes a frame neither way     *)
(* leaves the rest of the stack alone.                                      *)
StackIdle == NoBuffer /\ UNCHANGED arp_vars

sys_command16_socket(p) ==
  \/ /\ socket_create
     /\ \E s \in Socket :
          /\ sockets'[s] # sockets[s]
          /\ sock' = [sock EXCEPT ![p] = s]
     /\ pc' = [pc EXCEPT ![p] = "bind"]
  \/ /\ \A s \in Socket : sockets[s].in_use = 1
     /\ NoEffect
     /\ pc' = [pc EXCEPT ![p] = "off"]
     /\ UNCHANGED sock

sys_command17_bind(p) ==
  \/ /\ socket_bind(sock[p], ECHO_PORT)
     /\ pc' = [pc EXCEPT ![p] = "poll"]
     /\ UNCHANGED sock
  \/ /\ \E s \in Socket : sockets[s].in_use = 1 /\ sockets[s].bound_port = ECHO_PORT
     /\ NoEffect
     /\ pc' = [pc EXCEPT ![p] = "off"]
     /\ sock' = [sock EXCEPT ![p] = -1]

\* The program takes an answer of 0 for "nothing there", an empty datagram too.
sys_command19_recvfrom(p) ==
  /\ socket_recvfrom(sock[p])
  /\ LET d == Truncated(received', BUF_SIZE) IN
       IF d.len > 0
         THEN buf' = [buf EXCEPT ![p] = d] /\ pc' = [pc EXCEPT ![p] = "send"]
         ELSE UNCHANGED <<buf, pc>>
  /\ UNCHANGED sock

\* Mutant: back to where the server itself listens.
socket_sendto_swapped(s, d) ==
  /\ sockets[s].in_use = 1
  /\ d.len \in 1 .. SOCKET_MAX_PACKET_SIZE
  /\ udp_tx(d.src_ip, d.src_port, sockets[s].bound_port, d.len)

\* The guards hold for every call udpecho makes.
socket_sendto(s, d) ==
  /\ sockets[s].in_use = 1
  /\ d.len \in 1 .. SOCKET_MAX_PACKET_SIZE
  /\ udp_tx(d.src_ip, sockets[s].bound_port, d.src_port, d.len)

\* Mutant: the server tries again until the driver takes its answer.
sys_command18_retry(p) ==
  /\ socket_sendto(sock[p], buf[p])
  /\ NoEffect
  /\ IF sent' = NoFrame
       THEN UNCHANGED <<buf, pc>>
       ELSE buf' = [buf EXCEPT ![p] = NoPacket] /\ pc' = [pc EXCEPT ![p] = "poll"]
  /\ UNCHANGED sock

sys_command18_sendto(p) ==
  /\ socket_sendto(sock[p], buf[p])
  /\ NoEffect
  /\ buf' = [buf EXCEPT ![p] = NoPacket]
  /\ pc' = [pc EXCEPT ![p] = "poll"]
  /\ UNCHANGED sock

\* main of udpecho.c, one system call after the other.
udpecho(p) ==
  \/ pc[p] = "socket" /\ sys_command16_socket(p) /\ StackIdle /\ UNCHANGED buf
  \/ pc[p] = "bind" /\ sys_command17_bind(p) /\ StackIdle /\ UNCHANGED buf
  \/ pc[p] = "poll" /\ sys_command19_recvfrom(p) /\ StackIdle
  \/ pc[p] = "send" /\ sys_command18_sendto(p) /\ UNCHANGED arp_vars

\* A server is started again after its process ended; sockets are not closed.
Start(p) == /\ pc[p] = "off"
            /\ pc' = [pc EXCEPT ![p] = "socket"]
            /\ NoEffect /\ StackIdle
            /\ UNCHANGED <<sock, buf>>

\* The process is killed between two of its system calls.
Kill(p) == /\ pc[p] # "off"
           /\ pc' = [pc EXCEPT ![p] = "off"]
           /\ sock' = [sock EXCEPT ![p] = -1]
           /\ buf' = [buf EXCEPT ![p] = NoPacket]
           /\ NoEffect /\ StackIdle
      
NetNext == Receive \/ \E p \in Server : udpecho(p) \/ Start(p) \/ Kill(p)

NetSpec == /\ NetInit /\ [][NetNext]_net_vars
           /\ \A p \in Server : WF_net_vars(udpecho(p))
-----------------------------------------------------------------------------
(* The table, the cache and the programs keep their types.                  *)
NetTypeOK == /\ TypeOK /\ ArpTypeOK
             /\ pc \in [Server -> {"off", "socket", "bind", "poll", "send"}]
             /\ sock \in [Server -> Socket \cup {-1}]
             /\ buf \in [Server -> Packet \cup {NoPacket}]

\* No datagram of the wire is for port 0, which socket_deliver_udp takes for
\* the port of a socket that is not bound yet.
NoneToPortZero ==
  \A f \in Traffic :
    f.ethertype = ETH_TYPE_IPV4 /\ f.payload.header.protocol = IP_PROTO_UDP
      => ntohs(f.payload.body.dst_port) # 0

(* A process uses only the socket it created itself, however often servers  *)
(* were killed and started again: no other live one has it, and a new       *)
(* server inherits neither the port nor the datagrams of a dead one.  The   *)
(* code has no other protection than to keep the sockets of the dead open:  *)
(* descriptors are global and not checked against the caller.               *)
SocketsNotShared ==
  /\ NetTypeOK
  /\ \A p \in Server : pc[p] \in {"bind", "poll", "send"} =>
       /\ sockets[sock[p]].in_use = 1
       /\ \A q \in Server \ {p} : sock[q] # sock[p]
       /\ pc[p] # "bind" => sockets[sock[p]].bound_port = ECHO_PORT
       /\ pc[p] = "bind" => /\ sockets[sock[p]].bound_port = 0
                            /\ NoneToPortZero => sockets[sock[p]].recv_count = 0

IsIp(f) == f.ethertype = ETH_TYPE_IPV4
IsPing(f) == IsIp(f) /\ f.payload.header.protocol = IP_PROTO_ICMP
IsUdp(f) == IsIp(f) /\ f.payload.header.protocol = IP_PROTO_UDP

(* A frame goes to the link address the cache has for its receiver; the     *)
(* asker of an ARP request is in the cache by the time it has its reply, so *)
(* its next packet can be answered.                                         *)
FramesReachTheHost ==
  /\ IsIp(sent) => {sent.dest} = arp_cache_lookup(sent.payload.header.dst_ip)
  /\ sent.ethertype = ETH_TYPE_ARP =>
       /\ {sent.dest} = arp_cache_lookup(sent.payload.target_ip)
       /\ sent.payload.target_mac = sent.dest

(* Every packet the stack sends passes the checks of a correct receiver:    *)
(* header and ICMP checksum, lengths that agree from layer to layer.        *)
PacketsVerify ==
  IsIp(sent) =>
    LET h == sent.payload.header IN
    /\ Valid(HeaderWords(h))
    /\ h.src_ip = our_ip
    /\ ntohs(h.total_length) = sent.payload.len
    /\ IsPing(sent) => Valid(IcmpWords(sent.payload.body) \o sent.payload.body.odd)
    /\ IsUdp(sent) => ntohs(sent.payload.body.length) = sent.payload.len - IP_HEADER

(* An echo reply returns the identifier, the sequence number and the data   *)
(* of an undamaged ping of the host it goes to.                             *)
RepliesMatchPings ==
  IsPing(sent) =>
    \E f \in Traffic :
      /\ IsPing(f)
      /\ f.payload.header.src_ip = sent.payload.header.dst_ip
      /\ Valid(HeaderWords(f.payload.header))
      /\ Valid(IcmpWords(f.payload.body) \o f.payload.body.odd)
      /\ f.payload.body.type = ICMP_TYPE_ECHO_REQUEST
      /\ f.payload.body.id = sent.payload.body.id
      /\ f.payload.body.sequence = sent.payload.body.sequence
      /\ f.payload.body.data = sent.payload.body.data
      /\ f.payload.body.odd = sent.payload.body.odd

(* Every frame the stack sends is right in all its layers: it reaches the   *)
(* host it is meant for, passes that host's checks, and, if it answers a    *)
(* ping, answers one that host sent.                                        *)
FramesSentAreRight == FramesReachTheHost /\ PacketsVerify /\ RepliesMatchPings

\* What becomes of the datagrams of a queue when a server takes them: the
\* empty ones are passed over, the others cut to its buffer.
Take(taken, d) == IF d.len > 0 THEN Append(taken, Truncated(d, BUF_SIZE)) ELSE taken
Waiting(queue) ==
  LET taken[n \in 0 .. Len(queue)] == IF n = 0 THEN <<>> ELSE Take(taken[n - 1], queue[n])
  IN  taken[Len(queue)]

\* The datagrams a server has still to answer.
Due(p) == CASE pc[p] = "poll" -> Waiting(Queued(sockets[sock[p]]))
            [] pc[p] = "send" -> <<buf[p]>> \o Waiting(Queued(sockets[sock[p]]))
            [] OTHER          -> <<>>
DueNow == LET serving == {p \in Server : pc[p] \in {"poll", "send"}}
          IN  IF serving = {} THEN <<>> ELSE Due(CHOOSE p \in serving : TRUE)

\* The datagram the last step sent, seen by who gets it.
AnswerNow == IF IsUdp(sent)
               THEN [src_ip |-> sent.payload.header.dst_ip,
                     src_port |-> ntohs(sent.payload.body.dst_port),
                     len |-> ntohs(sent.payload.body.length) - UDP_HEADER]
               ELSE NoPacket

Echo == INSTANCE EchoService WITH
          Datagram <- Packet, Nothing <- NoPacket, due <- DueNow, answer <- AnswerNow

(* The echo server keeps the promise of module EchoService, with servers    *)
(* that are killed and started: an answer is the oldest datagram that is    *)
(* due, goes to its sender, and is given once.                              *)
ImplementsEcho == Echo!Spec

(* A server that is left running works off what is due, whatever else       *)
(* arrives: its queue empties again and again or datagrams keep leaving it. *)
EchoesFlow ==
  \A p \in Server : \/ []<>(Due(p) = <<>>)
                    \/ []<><<Len(Due(p)') < Len(Due(p))>>_net_vars
=============================================================================
