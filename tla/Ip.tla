-------------------------------- MODULE Ip ----------------------------------
(***************************************************************************)
(* Headers and checksums of src/src/sys/net/ip.c, icmp.c and udp.c.  The    *)
(* unit is the 16-bit word as the CPU loads it from memory, low byte first; *)
(* a field in network order is stored through htons.  An IP address is a    *)
(* pair of words.                                                           *)
(***************************************************************************)
EXTENDS Integers, Sequences

CONSTANT our_ip

BYTE == 256
WORD == BYTE * BYTE
Byte == 0 .. BYTE - 1
Word == 0 .. WORD - 1
Address == Word \X Word

ASSUME AddressAssumption == our_ip \in Address

\* The two bytes of a word change places; ntohs is the same function.
htons(x) == ((x % BYTE) * BYTE) + (x \div BYTE)
ntohs(x) == htons(x)

\* while (sum >> 16) sum = (sum & 0xFFFF) + (sum >> 16)
Fold(sum) ==
  LET f[s \in Nat] == IF s < WORD THEN s ELSE f[(s % WORD) + (s \div WORD)]
  IN  f[sum]

Sum(words) ==
  LET sum[n \in 0 .. Len(words)] == IF n = 0 THEN 0 ELSE sum[n - 1] + words[n]
  IN  sum[Len(words)]

\* The words of the data and, when its length is odd, the byte left over.
ip_checksum(words, odd) == WORD - 1 - Fold(Sum(words) + Sum(odd))
-----------------------------------------------------------------------------
IP_PROTO_ICMP == 1
IP_PROTO_TCP == 6
IP_PROTO_UDP == 17
IP_HEADER == 20              \* sizeof(struct ip_header)
ICMP_HEADER == 8
UDP_HEADER == 8

\* struct ip_header, struct icmp_header with the data behind it, struct udp_header.
HeaderType ==
  [version : 0 .. 15, ihl : 0 .. 15, total_length : Word, id : Word, flags_frag : Word,
   ttl : Byte, protocol : Byte, checksum : Word, src_ip : Address, dst_ip : Address]
IcmpType ==
  [type : Byte, code : Byte, checksum : Word, id : Word, sequence : Word,
   data : Seq(Word), odd : {<<>>} \cup {<<b>> : b \in Byte}]
UdpType == [src_port : Word, dst_port : Word, length : Word]

\* The words of a header; the checksum field is one of them.
HeaderWords(h) ==
  <<(h.version * 16) + h.ihl, h.total_length, h.id, h.flags_frag,
    h.ttl + (h.protocol * BYTE), h.checksum>> \o h.src_ip \o h.dst_ip

\* The header ip_tx fills in: first with a checksum of 0, then with the real one.
BuildHeader(id, protocol, dst, length) ==
  LET h == [version |-> 4, ihl |-> 5, total_length |-> htons(IP_HEADER + length),
            id |-> htons(id), flags_frag |-> htons(16384), ttl |-> 64,
            protocol |-> protocol, checksum |-> 0, src_ip |-> our_ip, dst_ip |-> dst]
  IN  [h EXCEPT !.checksum = ip_checksum(HeaderWords(h), <<>>)]

\* The checks of ip_rx, on a packet of len bytes.
HeaderAccepted(len, h) ==
  /\ len >= IP_HEADER
  /\ h.version = 4
  /\ h.ihl * 4 >= 20
  /\ ip_checksum(HeaderWords(h), <<>>) = 0
  /\ h.dst_ip = our_ip

ICMP_TYPE_ECHO_REPLY == 0
ICMP_TYPE_ECHO_REQUEST == 8

IcmpWords(c) == <<c.type + (c.code * BYTE), c.checksum, c.id, c.sequence>> \o c.data

\* The checks of icmp_rx on a message of len bytes.
IcmpAccepted(len, c) ==
  /\ len >= ICMP_HEADER
  /\ ip_checksum(IcmpWords(c), c.odd) = 0

\* Mutant: the checksum field still holds the request's when it is computed.
EchoReply_stale(c) ==
  LET r == [c EXCEPT !.type = ICMP_TYPE_ECHO_REPLY, !.code = 0]
  IN  [r EXCEPT !.checksum = ip_checksum(IcmpWords(r), r.odd)]

\* The message icmp_echo_reply builds from a request.
EchoReply(c) ==
  LET r == [c EXCEPT !.type = ICMP_TYPE_ECHO_REPLY, !.code = 0, !.checksum = 0]
  IN  [r EXCEPT !.checksum = ip_checksum(IcmpWords(r), r.odd)]

\* The checks of udp_rx on a datagram in len bytes.
UdpAccepted(len, u) ==
  /\ len >= UDP_HEADER
  /\ ntohs(u.length) >= UDP_HEADER
  /\ ntohs(u.length) <= len

(* The checksum of RFC 1071, on words in network order: the code adds the   *)
(* words as the CPU loads them and relies on the sum not to depend on it.   *)
SumInNetworkOrder(words) == Sum([i \in DOMAIN words |-> ntohs(words[i])])
Valid(words) == SumInNetworkOrder(words) % (WORD - 1) = 0
=============================================================================
