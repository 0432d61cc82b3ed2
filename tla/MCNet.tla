------------------------------- MODULE MCNet --------------------------------
(* Traffic for Net: three hosts in front of a cache of two, one of which    *)
(* changes its link address; pings with data of even and odd length, one    *)
(* whose sum carries twice; datagrams that are empty, short and longer than *)
(* the server's buffer; and of each kind packets the stack has to drop.     *)
EXTENDS Net

A == <<10, 258>>     \* 10.0.2.1, 10.0.2.2 and 10.0.2.3 as words
B == <<10, 514>>
C == <<10, 770>>
MCOurIp == <<10, 3842>>
MCIp == {A, B, C}
MCMac == 1 .. 4

ArpFrame(op, ip, mac, target) ==
  [ethertype |-> ETH_TYPE_ARP, dest |-> our_mac, payload |->
    [len |-> 46, hwtype |-> htons(1), protype |-> htons(ETH_TYPE_IPV4), opcode |-> htons(op),
     sender_mac |-> mac, sender_ip |-> ip, target_mac |-> 0, target_ip |-> target]]

ArpFrames ==
  LET good == ArpFrame(1, A, 1, our_ip) IN
  {ArpFrame(1, A, 2, our_ip), ArpFrame(2, A, 1, our_ip), ArpFrame(1, B, 3, our_ip),
   ArpFrame(1, B, 3, A), ArpFrame(3, C, 4, our_ip),
   [good EXCEPT !.payload.len = 27], [good EXCEPT !.payload.hwtype = htons(6)],
   [good EXCEPT !.payload.protype = htons(ETH_TYPE_ARP)], good}

\* A correct sender: the sum is made in network order.
Checksum(words) == htons((WORD - 1) - Fold(SumInNetworkOrder(words)))

IpFrame(src, protocol, length, body) ==
  LET h == [BuildHeader(5, protocol, our_ip, length) EXCEPT !.src_ip = src, !.checksum = 0]
  IN  [ethertype |-> ETH_TYPE_IPV4, dest |-> our_mac, payload |->
        [len |-> IP_HEADER + length, body |-> body,
         header |-> [h EXCEPT !.checksum = Checksum(HeaderWords(h))]]]

Icmp(type, id, data, odd) ==
  LET c == [type |-> type, code |-> 0, checksum |-> 0, id |-> id, sequence |-> 1,
            data |-> data, odd |-> odd]
  IN  [c EXCEPT !.checksum = Checksum(IcmpWords(c) \o odd)]
Ping(src, type, id, data, odd) ==
  IpFrame(src, IP_PROTO_ICMP, 8 + 2 * Len(data) + Len(odd), Icmp(type, id, data, odd))

Udp(src, port, len) ==
  IpFrame(src, IP_PROTO_UDP, 8 + len,
    [src_port |-> htons(5000), dst_port |-> htons(port), length |-> htons(8 + len)])

IpFrames ==
  LET ping == Ping(A, 8, 300, <<65535, 65535, 65000>>, <<255>>)
      udp == Udp(A, ECHO_PORT, 5)
      coded == [code |-> 3, type |-> 8, checksum |-> 0, id |-> 7, sequence |-> 1,
                data |-> <<>>, odd |-> <<>>]
  IN  {ping, Ping(B, 8, 7, <<>>, <<>>),
       IpFrame(B, IP_PROTO_ICMP, 8, [coded EXCEPT !.checksum = Checksum(IcmpWords(coded))]),
       Ping(B, 0, 7, <<>>, <<>>), Udp(A, ECHO_PORT, 0), Udp(B, ECHO_PORT, 1100), Udp(B, 9, 5),
       IpFrame(A, IP_PROTO_TCP, 20, [src_port |-> 0]), IpFrame(A, 2, 8, [src_port |-> 0]),
       [ping EXCEPT !.payload.body.id = 301], [ping EXCEPT !.payload.header.src_ip = B],
       [udp EXCEPT !.payload.body.length = htons(7)],
       [udp EXCEPT !.payload.body.length = htons(14)],
       [udp EXCEPT !.payload.len = 19],
       [udp EXCEPT !.payload.header.dst_ip = C], [udp EXCEPT !.payload.header.ttl = 63],
       [ping EXCEPT !.ethertype = 2056]}

MCTraffic == ArpFrames \cup IpFrames

MCPacket == [src_ip : {A, B}, src_port : {5000}, len : {0, 5, 1024, 1100}]
=============================================================================
