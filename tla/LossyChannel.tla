--------------------------- MODULE LossyChannel ---------------------------
(* What every hand-over of this program promises whose queue drops rather  *)
(* than blocks: the cloud relay's uplink (src/src/growatt/cloud.rs) and    *)
(* the recorder (src/src/record.rs).  Messages are numbered as they are    *)
(* offered.  One may be lost, and never comes twice or after a later one.  *)
EXTENDS Naturals, Sequences

VARIABLES
    offered,   \* how many messages have been offered
    received   \* the messages that have come out

Init == offered = 0 /\ received = <<>>

Offer == offered' = offered + 1 /\ UNCHANGED received

(* The next one out: those between it and the one before are lost.         *)
Receive ==
    /\ \E m \in 1..offered :
         /\ \A i \in 1..Len(received) : received[i] < m
         /\ received' = Append(received, m)
    /\ UNCHANGED offered

Next == Offer \/ Receive

Spec == Init /\ [][Next]_<<offered, received>>
=============================================================================
