---------------------------- MODULE EchoService -----------------------------
(***************************************************************************)
(* What the echo server promises its clients: each datagram it took is      *)
(* answered at most once, to its sender, in the order of arrival.  An       *)
(* answer that cannot be sent is lost, and so is everything when the server *)
(* is stopped.                                                              *)
(***************************************************************************)
EXTENDS Sequences

CONSTANTS Datagram, Nothing

VARIABLES due,       \* the datagrams taken and not answered, oldest first
          answer     \* the answer sent in the last step, if any

Init == due = <<>> /\ answer = Nothing

Arrive(d) == due' = Append(due, d) /\ answer' = Nothing

Answer == due # <<>> /\ answer' = Head(due) /\ due' = Tail(due)

Lose == due # <<>> /\ answer' = Nothing /\ due' = Tail(due)

Stop == due' = <<>> /\ answer' = Nothing

Quiet == answer' = Nothing /\ UNCHANGED due

Next == Quiet \/ Answer \/ Lose \/ Stop \/ \E d \in Datagram : Arrive(d)

Spec == Init /\ [][Next]_<<due, answer>>
=============================================================================
