----------------------------- MODULE Neighbours -----------------------------
(***************************************************************************)
(* What the ARP cache promises its users: the link addresses most recently  *)
(* announced by the last Size hosts it met.  A host that announces itself   *)
(* again keeps its place; a new host displaces the one met first.           *)
(***************************************************************************)
EXTENDS Naturals, Sequences

CONSTANTS Size, Ip, Mac

VARIABLE known       \* the hosts, oldest first, each with its latest address

Init == known = <<>>

Again(ip, mac) == \E i \in 1 .. Len(known) :
                    /\ known[i].ip = ip
                    /\ known' = [known EXCEPT ![i].mac = mac]

Meet(ip, mac) == /\ \A i \in 1 .. Len(known) : known[i].ip # ip
                 /\ LET host == [ip |-> ip, mac |-> mac] IN
                      known' = IF Len(known) < Size THEN Append(known, host)
                                                    ELSE Append(Tail(known), host)

Ask == UNCHANGED known

Next == Ask \/ \E ip \in Ip, mac \in Mac : Again(ip, mac) \/ Meet(ip, mac)

Spec == Init /\ [][Next]_known
=============================================================================
