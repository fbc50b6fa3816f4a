-------------------------- MODULE MessageExchange --------------------------
(***************************************************************************)
(* The two ends of a session write messages to each other (SCHCMessage)    *)
(* and read them.  The fragments of an uplink session carry rule 20 and    *)
(* are read by the gateway, those of a downlink session rule 21 and are    *)
(* read by the node; the ACKs of a session carry its rule the other way.   *)
(***************************************************************************)
EXTENDS SCHCMessage

CONSTANTS
    Receivers,      \* the receiving machines there may be
    Payloads,       \* payloads of a fragment, sequences of bytes
    FCNs,           \* the FCN of the first tile of a fragment
    RCSs,           \* check sequences of packets
    AckBitmaps,     \* bitmaps of a window, for an ACK
    CompoundBitmaps,    \* and for a compound ACK
    WindowLists     \* the windows that a compound ACK may list

ASSUME ExchangeAssumption ==
    /\ Receivers \subseteq {"ArqFec", "AckOnError"}
    /\ Payloads \subseteq Seq(Byte)
    /\ FCNs \subseteq 0 .. windowSize - 1
    /\ RCSs \subseteq Nat
    /\ \A b \in AckBitmaps \cup CompoundBitmaps :
         b \in Seq(Bit) /\ Len(b) = windowSize
    /\ \A l \in WindowLists : l \in Seq(0 .. 3) /\ IsInjective(l) /\ l # <<>>

VARIABLES
    rule,       \* the rule of the session
    receiver,   \* its receiving machine
    meant,      \* what the writer of the message meant: type and fields
    msg         \* the bytes on the air, none if there is no message

vars == <<rule, receiver, meant, msg>>

(* The ends of a session, by their protocol.  The ACK-on-Error machines    *)
(* do not use their _protoType: both read as a node does.                  *)
FragmentReader ==
    IF receiver = "AckOnError" \/ rule = 21 THEN "LORAWAN" ELSE "LORAWAN_NS"
AckReader == IF rule = 20 THEN "LORAWAN" ELSE "LORAWAN_NS"

Nothing == [type |-> "nothing"]

Init ==
    /\ rule \in Rules
    /\ receiver \in Receivers
    /\ receiver = "AckOnError" => rule = 20
    /\ meant = Nothing
    /\ msg = <<>>

Write ==
    /\ msg = <<>>
    /\ UNCHANGED <<rule, receiver>>

SendRegular ==
    \E w \in 0 .. 3, fcn \in FCNs, p \in Payloads :
        /\ Write
        /\ meant' = [type |-> "regular", w |-> w, fcn |-> fcn, payload |-> p]
        /\ msg' = create_regular_fragment(w, fcn, p)

SendAll1 ==
    \E w \in 0 .. 3, rcs \in RCSs, p \in Payloads :
        /\ Write
        /\ meant' = [type |-> "all_1", w |-> w, rcs |-> rcs, payload |-> p]
        /\ msg' = create_all_1_fragment(w, rcs, p)

SendAckReq ==
    \E w \in 0 .. 3 :
        /\ Write
        /\ meant' = [type |-> "ack_req", w |-> w]
        /\ msg' = create_ack_request(w)

SendAbort ==
    \E w \in 0 .. 3 :
        /\ Write
        /\ meant' = [type |-> "sender_abort", w |-> w]
        /\ msg' = create_sender_abort(w)

SendAck ==
    \E w \in 0 .. 3, c \in Bit, b \in AckBitmaps :
        /\ Write
        /\ meant' = [type |-> "ack", w |-> w, c |-> c, bitmap |-> b]
        /\ msg' = create_schc_ack(w, c, b)

(* The bitmaps of the four windows.                                        *)
Alternating(even, odd) == [w \in 0 .. 3 |-> IF w % 2 = 0 THEN even ELSE odd]

SendCompound ==
    \E last_win \in 0 .. 3, l \in WindowLists, even, odd \in CompoundBitmaps :
        /\ Write
        /\ meant' = [type |-> "compound_ack", windows |-> l,
                     bitmaps |-> [i \in DOMAIN l |-> Alternating(even, odd)[l[i]]]]
        /\ msg' = create_schc_ack_compound(last_win, l, Alternating(even, odd))

(* A receiver that misses nothing lists no window, and sends an ACK.       *)
SendNoneMissing ==
    \E last_win \in 0 .. 3, even, odd \in CompoundBitmaps :
        /\ Write
        /\ meant' = [type |-> "ack", w |-> last_win, c |-> 1]
        /\ msg' = create_schc_ack_compound(last_win, <<>>, Alternating(even, odd))

Read ==
    /\ msg # <<>>
    /\ meant' = Nothing
    /\ msg' = <<>>
    /\ UNCHANGED <<rule, receiver>>

Next ==
    \/ SendRegular \/ SendAll1 \/ SendAckReq \/ SendAbort
    \/ SendAck \/ SendCompound \/ SendNoneMissing \/ Read

Spec == Init /\ [][Next]_vars

-----------------------------------------------------------------------------
(* The receiving machine takes a message of its sender for what it is; but *)
(* for a fragment without a tile, whose type is left uninitialised.        *)
FragmentsToldApart ==
    meant.type \in FragmentTypes
        /\ ~(meant.type = "regular" /\ meant.payload = <<>>)
      => get_msg_type(FragmentReader, rule, msg) = meant.type

(* The sender takes a message of the receiver for what it is: the bitmap   *)
(* of one window never makes an ACK as long as a compound ACK of two.  A   *)
(* compound ACK of one window is taken for an ACK.                         *)
AcksToldApart ==
    meant.type \in AckTypes =>
        get_msg_type(AckReader, rule, msg) =
            IF meant.type = "compound_ack" /\ Len(meant.windows) = 1
              THEN "ack" ELSE meant.type

(* The fields of a message survive the air.                                *)
FieldsSurvive ==
    /\ meant.type \notin {"compound_ack", "nothing"} => W(msg) = meant.w
    /\ meant.type = "regular" => FCN(msg) = meant.fcn
    /\ meant.type = "all_1" => DecodedRcs(msg) = meant.rcs
    /\ meant.type \in {"regular", "all_1"} =>
         DecodedPayload(msg) = meant.payload
    /\ meant.type = "ack" => C(msg) = meant.c

(* The bitmaps survive, however a message was cut or padded: the bits of   *)
(* an ACK with C = 0 say which tiles are missing, those up to the last bit *)
(* in their places and none behind it; a compound ACK gives back the       *)
(* windows it lists, and the bitmap of each.                               *)
BitmapsSurvive ==
    /\ meant.type = "ack" /\ meant.c = 0 =>
         \A i \in 1 .. windowSize :
             LET bits == DecodedBits(msg)
             IN  meant.bitmap[i] = IF i \in DOMAIN bits THEN bits[i] ELSE 1
    /\ meant.type = "compound_ack" =>
         /\ DecodedWindows(msg) = meant.windows
         /\ \A i \in DOMAIN meant.windows :
              DecodedBitmap(msg, i) = meant.bitmaps[i]

=============================================================================
