------------------------------ MODULE ArqFec ------------------------------
(***************************************************************************)
(* An ARQ-FEC sender and the receiver of its fragments, over a link that   *)
(* loses at most MaxLoss messages.  Neither machine runs a timer while it  *)
(* waits: the lines that would start them are commented out in the source. *)
(***************************************************************************)
EXTENDS ArqFecSender, ArqFecReceiver

VARIABLES
    offered,    \* history: the packets a session was opened for
    confirmed   \* history: the packets whose sender was told the end

history == <<offered, confirmed>>
vars == <<linkVars, snd, rcv, delivered, history>>

TypeOK ==
    /\ LinkTypeOK
    /\ SenderTypeOK
    /\ ReceiverTypeOK
    /\ offered \subseteq Packets
    /\ confirmed \subseteq offered

Init ==
    /\ LinkInit
    /\ SenderInit
    /\ ReceiverInit
    /\ offered = {}
    /\ confirmed = {}

-----------------------------------------------------------------------------
Offer(p) ==
    /\ p \notin offered
    /\ SenderOpen(p)
    /\ offered' = offered \cup {p}
    /\ UNCHANGED <<rcv, delivered, confirmed>>

Sender ==
    /\ SenderStep
    /\ confirmed' = IF snd.state # "END" /\ snd'.state = "END"
                      THEN confirmed \cup {snd.pkt} ELSE confirmed
    /\ UNCHANGED <<rcv, delivered, offered>>

SenderTurn ==
    /\ SenderHears \/ SenderReaped
    /\ UNCHANGED <<rcv, delivered, history>>

Receiver == ReceiverStep /\ UNCHANGED <<snd, history>>

ReceiverTurn ==
    /\ RcvDiscard \/ RcvReaped
    /\ UNCHANGED <<snd, history>>

Link ==
    /\ LoseUp \/ LoseDown
    /\ UNCHANGED <<snd, rcv, delivered, history>>

Next ==
    \/ \E p \in Packets : Offer(p)
    \/ Sender \/ SenderTurn \/ Receiver \/ ReceiverTurn \/ Link

Spec == Init /\ [][Next]_vars

(* Threads run, and what was not lost arrives.  Nothing makes the stack    *)
(* lose a message or a timer expire at a given moment.                     *)
Fairness ==
    /\ WF_vars(Sender)
    /\ WF_vars(SenderHears /\ UNCHANGED <<rcv, delivered, history>>)
    /\ WF_vars(Receiver)

FairSpec == Spec /\ Fairness

-----------------------------------------------------------------------------
(* A tile that the receiver holds is at the column it was cut from: the    *)
(* sender's counters and the receiver's get_tile_ptr() agree on what a     *)
(* fragment's W and FCN mean, in first transmissions and in repeated ones. *)
TilesInPlace ==
    \A i \in Columns : rcv.got[i] # NoTile => rcv.got[i].idx = i

(* A machine that sends has asked to be executed exactly once more: none,  *)
(* and it stands still; two, and it would send while it should wait.       *)
AgainPending ==
    LET agains == Cardinality({i \in DOMAIN snd.queue : snd.queue[i] = Again})
    IN  /\ snd.state \in {"SEND", "RESEND_MISSING_TILES"} => agains = 1
        /\ snd.state = "WAIT_x_SESSION_ACK" => agains <= 1

(* Both machines with the link between them keep what PacketDelivery       *)
(* promises: no packet is delivered twice, by a session or by a second one *)
(* that its late fragments open, and none is confirmed undelivered.        *)
Delivery == INSTANCE PacketDelivery
DeliverySpec == Delivery!Spec

(* The part of that promise that a sender relies on, as an invariant.      *)
ConfirmedMeansDelivered ==
    \A p \in confirmed : delivered[p] > 0

Crashed == rcv.state = "crashed"

(* Once the receiver misses fragments and the sender repeats them, the     *)
(* session is confirmed unless one more message is lost, however many were *)
(* lost before.                                                            *)
RecoveryConfirms ==
    \A k \in 0 .. MaxLoss :
        (/\ snd.state = "RESEND_MISSING_TILES"
         /\ rcv.state = "WAIT_X_MISSING_FRAG"
         /\ losses = k)
            ~> (offered \subseteq confirmed \/ losses > k)

(* Without a loss every session is confirmed.                              *)
CleanLinkConfirms ==
    (snd.state = "SEND" /\ losses = 0)
        ~> (offered \subseteq confirmed \/ losses > 0 \/ Crashed)

=============================================================================
