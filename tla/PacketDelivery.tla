-------------------------- MODULE PacketDelivery --------------------------
(***************************************************************************)
(* What a fragmentation session promises: a packet reaches the other side  *)
(* at most once and only if it was offered, and its sender takes it for    *)
(* delivered only after it was.                                            *)
(***************************************************************************)
EXTENDS Naturals

CONSTANT Packets

VARIABLES
    offered,    \* the packets handed to a sender
    delivered,  \* how often each packet came out at the other side
    confirmed   \* the packets whose sender was told that they did

vars == <<offered, delivered, confirmed>>

Init ==
    /\ offered = {}
    /\ delivered = [p \in Packets |-> 0]
    /\ confirmed = {}

Offer(p) ==
    /\ p \notin offered
    /\ offered' = offered \cup {p}
    /\ UNCHANGED <<delivered, confirmed>>

Deliver(p) ==
    /\ p \in offered
    /\ delivered[p] = 0
    /\ delivered' = [delivered EXCEPT ![p] = 1]
    /\ UNCHANGED <<offered, confirmed>>

Confirm(p) ==
    /\ delivered[p] = 1
    /\ p \notin confirmed
    /\ confirmed' = confirmed \cup {p}
    /\ UNCHANGED <<offered, delivered>>

Next == \E p \in Packets : Offer(p) \/ Deliver(p) \/ Confirm(p)

Spec == Init /\ [][Next]_vars

=============================================================================
