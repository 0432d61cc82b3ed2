-------------------------------- MODULE Arp ---------------------------------
(***************************************************************************)
(* The ARP cache of src/src/sys/net/arp.c: a table of fixed size that maps  *)
(* the IP addresses of neighbours to their link addresses, filled and then  *)
(* overwritten in a circle.                                                 *)
(***************************************************************************)
EXTENDS Integers

CONSTANTS ARP_CACHE_SIZE,
          Ip, Mac

ASSUME ArpAssumption == ARP_CACHE_SIZE \in Nat \ {0}

VARIABLES arp_cache, arp_cache_next

arp_vars == <<arp_cache, arp_cache_next>>

Slot == 0 .. ARP_CACHE_SIZE - 1

Entry == [ip : Ip, mac : Mac, valid : {1}]
Unused == [valid |-> 0]      \* a zeroed struct arp_cache_entry

ArpTypeOK == /\ arp_cache \in [Slot -> Entry \cup {Unused}]
             /\ arp_cache_next \in Slot

ArpInit == arp_cache = [i \in Slot |-> Unused] /\ arp_cache_next = 0

\* The slot holds a valid entry of this address.
Holds(i, ip) == arp_cache[i].valid = 1 /\ arp_cache[i].ip = ip
-----------------------------------------------------------------------------
\* Mutant: once the table is full the last slot is overwritten.
arp_cache_update_last(ip, mac) ==
  \/ \E i \in Slot : /\ Holds(i, ip)
                     /\ arp_cache' = [arp_cache EXCEPT ![i].mac = mac]
                     /\ UNCHANGED arp_cache_next
  \/ /\ \A i \in Slot : ~Holds(i, ip)
     /\ arp_cache' = [arp_cache EXCEPT ![arp_cache_next] =
                        [ip |-> ip, mac |-> mac, valid |-> 1]]
     /\ arp_cache_next' = IF arp_cache_next = ARP_CACHE_SIZE - 1
                            THEN arp_cache_next ELSE arp_cache_next + 1

(* The first entry of the address gets the new link address; without one    *)
(* the next slot of the circle is overwritten.                              *)
arp_cache_update(ip, mac) ==
  \/ \E i \in Slot :
       /\ Holds(i, ip) /\ \A j \in 0 .. i - 1 : ~Holds(j, ip)
       /\ arp_cache' = [arp_cache EXCEPT ![i].mac = mac]
       /\ UNCHANGED arp_cache_next
  \/ /\ \A i \in Slot : ~Holds(i, ip)
     /\ arp_cache' = [arp_cache EXCEPT ![arp_cache_next] =
                        [ip |-> ip, mac |-> mac, valid |-> 1]]
     /\ arp_cache_next' = (arp_cache_next + 1) % ARP_CACHE_SIZE

\* The link addresses of the first entry of the address: none or one.
arp_cache_lookup(ip) ==
  {arp_cache[i].mac : i \in {j \in Slot : Holds(j, ip) /\ \A k \in 0 .. j - 1 : ~Holds(k, ip)}}

ArpNext == \E ip \in Ip, mac \in Mac : arp_cache_update(ip, mac)

ArpSpec == ArpInit /\ [][ArpNext]_arp_vars
-----------------------------------------------------------------------------
(* No address has two entries.  arp_cache_update and arp_cache_lookup both  *)
(* stop at the first, so a second would keep a link address that is never   *)
(* refreshed and that comes back when the first is overwritten.             *)
OneEntryPerIp ==
  \A i, j \in Slot :
    /\ arp_cache[i].valid = 1 /\ arp_cache[j].valid = 1
    /\ arp_cache[i].ip = arp_cache[j].ip
    => i = j

(* Until the table is full its entries are the slots below arp_cache_next;  *)
(* from then on every slot is in use and arp_cache_next is the oldest.      *)
Full == arp_cache[arp_cache_next].valid = 1
Oldest == IF Full THEN arp_cache_next ELSE 0
Count == IF Full THEN ARP_CACHE_SIZE ELSE arp_cache_next

\* The slot of the k-th oldest entry, and the entries in that order.
At(k) == (Oldest + k - 1) % ARP_CACHE_SIZE
Known == [k \in 1 .. Count |-> [ip |-> arp_cache[At(k)].ip, mac |-> arp_cache[At(k)].mac]]

N == INSTANCE Neighbours WITH Size <- ARP_CACHE_SIZE, known <- Known

(* The table is the list of the hosts met last, oldest first: a refreshed   *)
(* entry keeps its age and a new one displaces the oldest (arp.c:54).       *)
ImplementsNeighbours == N!Spec
=============================================================================
