------------------------------ MODULE Mailboxes -----------------------------
(***************************************************************************)
(* What the socket layer promises a program: each open socket has a port,   *)
(* or none yet, and a bounded first-in first-out queue of the datagrams     *)
(* that arrived for it.  A datagram that finds the queue full is dropped;   *)
(* nothing else is lost, repeated or reordered.                             *)
(***************************************************************************)
EXTENDS Naturals, Sequences

CONSTANTS Socket, Port, Packet, Capacity, Nothing

VARIABLES open,      \* the sockets in use
          port,      \* the port of each, 0 when it has none
          queue,     \* its datagrams, oldest first
          received   \* what the last receive call returned

vars == <<open, port, queue, received>>

Init == /\ open = {}
        /\ port = [s \in Socket |-> 0]
        /\ queue = [s \in Socket |-> <<>>]
        /\ received = Nothing

Open(s) == /\ s \notin open
           /\ open' = open \cup {s}
           /\ port' = [port EXCEPT ![s] = 0]
           /\ queue' = [queue EXCEPT ![s] = <<>>]
           /\ received' = Nothing

Bind(s, p) == /\ s \in open
              /\ port[s] = 0
              /\ p # 0
              /\ \A t \in open : port[t] # p
              /\ port' = [port EXCEPT ![s] = p]
              /\ received' = Nothing
              /\ UNCHANGED <<open, queue>>

Arrive(s, d) == /\ s \in open
                /\ Len(queue[s]) < Capacity
                /\ queue' = [queue EXCEPT ![s] = Append(@, d)]
                /\ received' = Nothing
                /\ UNCHANGED <<open, port>>

Receive(s) == /\ s \in open
              /\ queue[s] # <<>>
              /\ received' = Head(queue[s])
              /\ queue' = [queue EXCEPT ![s] = Tail(@)]
              /\ UNCHANGED <<open, port>>

Close(s) == /\ s \in open
            /\ open' = open \ {s}
            /\ port' = [port EXCEPT ![s] = 0]
            /\ queue' = [queue EXCEPT ![s] = <<>>]
            /\ received' = Nothing

Nop == received' = Nothing /\ UNCHANGED <<open, port, queue>>

Next == \/ \E s \in Socket : Open(s) \/ Receive(s) \/ Close(s)
        \/ \E s \in Socket, p \in Port : Bind(s, p)
        \/ \E s \in Socket, d \in Packet : Arrive(s, d)
        \/ Nop

Spec == Init /\ [][Next]_vars
=============================================================================
