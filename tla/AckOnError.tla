---------------------------- MODULE AckOnError ----------------------------
(***************************************************************************)
(* The ACK-on-Error sender on a node, its retransmission timer, and a      *)
(* gateway.  The gateway is not the one of this repository, whose          *)
(* ACK-on-Error receiver takes no fragment (SCHCMessage), but any that     *)
(* speaks its format: it may answer a frame of the node, once, with any    *)
(* ACK of the windows it has seen so far, or not at all.                   *)
(***************************************************************************)
EXTENDS AckOnErrorSender

CONSTANT MaxAcks    \* bound on the answers of the gateway

ASSUME MaxAcksAssumption == MaxAcks \in Nat

VARIABLE acks       \* the number of answers so far

vars == <<snd, air, acks>>

Init == SenderInit /\ acks = 0

(* A frame opens the receive windows of the node once.                     *)
Answer(m) ==
    /\ air # <<>>
    /\ acks < MaxAcks
    /\ acks' = acks + 1
    /\ air' = Tail(air)
    /\ snd' = [snd EXCEPT !.queue = Append(@, m)]

Running == snd.state \notin {"dead", "undefined"}

WindowsSeen == {w \in 0 .. nWindows - 1 : w <= snd.window}

GatewayAcks == Running /\ \E w \in WindowsSeen : Answer(Ack(w))

GatewayAborts == Running /\ Answer(ReceiverAbort)

Ascending(S) ==
    {list \in [1 .. Cardinality(S) -> S] :
       \A i, j \in DOMAIN list : i < j => list[i] < list[j]}

(* The tiles that are missing from the windows listed, one of each window  *)
(* at least.  Only compound ACKs list more than one.                       *)
GatewayNacks ==
    /\ Running
    /\ \E missing \in (SUBSET (FullTiles \cup {LastTile})) \ {{}} :
         LET listed == {i \div windowSize : i \in missing}
         IN  /\ listed \subseteq WindowsSeen
             /\ snd.mechanism = "compound_ack" \/ Cardinality(listed) = 1
             /\ \E windows \in Ascending(listed) : Answer(Nack(windows, missing))

(* The callback of the timer, on the timer's own thread.                   *)
TimerFires ==
    /\ Running
    /\ snd.timer
    /\ snd' = [snd EXCEPT !.timer = FALSE,
                          !.queue = Append(@, TimerExpired)]
    /\ UNCHANGED <<air, acks>>

SenderStep == SenderNext /\ UNCHANGED acks

Next ==
    \/ SenderStep \/ TimerFires
    \/ GatewayAcks \/ GatewayNacks \/ GatewayAborts

Spec == Init /\ [][Next]_vars

(* The thread of the session takes its events, and a timer that is armed   *)
(* expires.  Nothing is assumed of the gateway.                            *)
FairSpec == Spec /\ WF_vars(SenderStep) /\ WF_vars(TimerFires)

-----------------------------------------------------------------------------
(* The state of the machine is well formed.                                *)
TypeOK ==
    /\ snd \in [state : {"INIT", "SEND", "WAIT_x_ACK", "RESEND", "END",
                         "ERROR", "dead", "undefined"},
                mechanism : Mechanisms, nFullTiles : Sizes,
                ptr : Nat, window : 0 .. 4, fcn : 0 .. windowSize - 1,
                bitmap : SUBSET UNION {PositionsOf(w) : w \in Windows},
                errors : Seq(Windows), confirmed : Windows,
                attempts : 0 .. maxAckReq + 1, timer : BOOLEAN,
                queue : Seq([type : {"again", "timer", "abort"}]
                            \cup [type : {"ack"}, w : Windows]
                            \cup [type : {"nack"}, windows : Seq(Windows),
                                  missing : SUBSET Nat]),
                lacking : SUBSET Nat, unheeded : SUBSET Nat, stray : BOOLEAN]
    /\ acks \in 0 .. MaxAcks

(* A sender that waits for an ACK will hear of something: its timer is     *)
(* armed, or the expiry is on its way, whatever was stopped and started.   *)
WaitGuarded ==
    snd.state = "WAIT_x_ACK" =>
        snd.timer \/ \E i \in DOMAIN snd.queue : snd.queue[i].type = "timer"

(* The W and FCN fields of a fragment, sent or resent, say where its tiles *)
(* are in the packet, and they are tiles of the packet.                    *)
FragmentsInPlace ==
    \A i \in DOMAIN air : air[i].type = "regular" =>
        /\ air[i].first = air[i].w * windowSize + (windowSize - 1 - air[i].fcn)
        /\ air[i].first + air[i].n <= snd.nFullTiles

(* A sender that waits has sent every full tile up to where it is, and has *)
(* sent again each one that an ACK it decoded said was missing; but for    *)
(* those of an ACK that is not compound whose bit was set before, since    *)
(* the bitmap of such an ACK is stored where nobody reads it, and as long  *)
(* as no ACK came out of turn, since ACK_END_WIN repairs its own window    *)
(* whatever the window of the ACK.                                         *)
WaitingHasSent ==
    snd.state = "WAIT_x_ACK" /\ ~snd.stray =>
        snd.lacking \cap 0 .. snd.ptr - 1 \subseteq snd.unheeded

(* The program stays within its arrays as long as each ACK is of the       *)
(* window the sender waits for, and comes while it waits.                  *)
InTurnAcksSafe == snd.state = "undefined" => snd.stray

(* With the bound on the answers, a session always ends, but for three     *)
(* cases: a packet of more tiles than four windows stays in STATE_INIT; a  *)
(* NACK of a last window that has no full tile leaves ACK_END_WIN in       *)
(* STATE_RESEND; and past an access outside its arrays all bets are off.   *)
TooLarge == snd.nFullTiles >= 4 * windowSize
NothingToResend ==
    /\ snd.state = "RESEND" /\ snd.mechanism = "ack_end_win"
    /\ last_ptr = 0
SessionEnds == TooLarge \/ <>(~Running \/ NothingToResend)

=============================================================================
