---------------------------- MODULE ArqFecLink ----------------------------
(***************************************************************************)
(* What the two ARQ-FEC machines (FragmentationSCHC/src/schcArqFec/)       *)
(* exchange, and the link between them: two FIFO channels that may lose    *)
(* messages.  An encoded packet is nFullTiles tiles, any ksymbols of which *)
(* recover it; a tile is the packet it comes from and its place there.     *)
(***************************************************************************)
EXTENDS Naturals, Sequences, FiniteSets

CONSTANTS
    windowSize,     \* tiles in a window: 63
    nFullTiles,     \* tiles of an encoded packet, _nsymbols
    ksymbols,       \* tiles that recover it
    payloadTiles,   \* tiles that fit in a fragment, by the MTU
    Packets,        \* the packets there are to send
    NoPacket,       \* no packet, and so not one of them
    MaxLoss         \* bound on the number of messages lost

(* W has two bits.  63 tiles make a window, and the largest MTU, of DR5,   *)
(* carries 22 of them.                                                     *)
ASSUME ArqFecAssumption ==
    /\ windowSize \in Nat \ {0, 1}
    /\ nFullTiles \in 1 .. 4 * windowSize
    /\ ksymbols \in 1 .. nFullTiles
    /\ payloadTiles \in 1 .. windowSize - 1
    /\ MaxLoss \in Nat
    /\ NoPacket \notin Packets

Windows == 0 .. 3
Positions == 0 .. 4 * windowSize - 1
Tiles == [pkt : Packets, idx : 0 .. nFullTiles - 1]
NoTile == [pkt |-> NoPacket, idx |-> 0]

nWindows == (nFullTiles + windowSize - 1) \div windowSize

(* The places of the bits of window w in the bitmaps, first to last.       *)
PositionsOf(w) == w * windowSize .. (w + 1) * windowSize - 1

-----------------------------------------------------------------------------
(* The messages.  A fragment carries n consecutive tiles of its packet,    *)
(* from the first on, and says where they go by its W and FCN fields only. *)
(* An All-1 carries the RCS and the residual bits of its packet.           *)
RegularFragment(p, w, fcn, first, n) ==
    [type |-> "regular", pkt |-> p, w |-> w, fcn |-> fcn, first |-> first,
     n |-> n]
All1(p, w) == [type |-> "all1", pkt |-> p, w |-> w]
AckReq == [type |-> "req"]
Ack(w) == [type |-> "ack", w |-> w]
Compound(windows, bitmap) ==
    [type |-> "compound", windows |-> windows, bitmap |-> bitmap]

UpMessages ==
    [type : {"regular"}, pkt : Packets, w : Windows, fcn : 0 .. windowSize - 1,
     first : 0 .. nFullTiles - 1, n : 1 .. payloadTiles]
    \cup [type : {"all1"}, pkt : Packets, w : Windows]
    \cup {AckReq}
DownMessages ==
    [type : {"ack"}, w : Windows]
    \cup [type : {"compound"}, windows : SUBSET Windows,
          bitmap : SUBSET Positions]

(* get_msg_type(): a compound ACK of one window is nine bytes long, and    *)
(* only longer ones are told from an ACK with C = 0.                       *)
IsCompound(m) == m.type = "compound" /\ Cardinality(m.windows) > 1
IsAck(m, w) == m.type = "ack" /\ m.w = w

-----------------------------------------------------------------------------
VARIABLES
    up,         \* fragments and ACK requests under way to the receiver
    down,       \* ACKs under way to the sender
    losses      \* the number of messages lost so far

linkVars == <<up, down, losses>>

LinkTypeOK ==
    /\ up \in Seq(UpMessages)
    /\ down \in Seq(DownMessages)
    /\ losses \in 0 .. MaxLoss

LinkInit == up = <<>> /\ down = <<>> /\ losses = 0

(* send_frame(), once for each message.                                    *)
SendUp(ms) == up' = up \o ms
SendDown(ms) == down' = down \o ms

LoseUp ==
    /\ up # <<>>
    /\ losses < MaxLoss
    /\ up' = Tail(up)
    /\ losses' = losses + 1
    /\ UNCHANGED down

LoseDown ==
    /\ down # <<>>
    /\ losses < MaxLoss
    /\ down' = Tail(down)
    /\ losses' = losses + 1
    /\ UNCHANGED up

=============================================================================
