---------------------------- MODULE PacketQueue ----------------------------
(***************************************************************************)
(* What Buffer_15_4 promises its clients: a bounded queue of packets.      *)
(***************************************************************************)
EXTENDS Sequences, Naturals

CONSTANTS Packet, Capacity

VARIABLE queue

Init == queue = <<>>

Store(p) == Len(queue) < Capacity /\ queue' = Append(queue, p)

GetOldest == queue # <<>> /\ queue' = Tail(queue)

Erase == queue' = <<>>

Next == (\E p \in Packet : Store(p)) \/ GetOldest \/ Erase

Spec == Init /\ [][Next]_queue
=============================================================================
