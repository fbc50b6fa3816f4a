---------------------------- MODULE SCHCMessage ----------------------------
(***************************************************************************)
(* The messages on the air, byte by byte: how SCHCMessage.cpp builds each  *)
(* one, tells one from another by its length and its header, and decodes   *)
(* it.  A header is the window W, in two bits, and six bits which are the  *)
(* FCN of a fragment or, in an ACK, the bit C and five bits more.          *)
(***************************************************************************)
EXTENDS Integers, Sequences, SequencesExt, FiniteSetsExt

windowSize == 63    \* and decodeMsg() counts on it: 63 bits, 65 with a W
All1FCN == 63

Bit == {0, 1}
Byte == 0 .. 255

BitsOf(n, k) == [i \in 1 .. k |-> (n \div 2^(k - i)) % 2]
WindowAt(bits, i) == 2 * bits[i] + bits[i + 1]
ByteAt(bits, i) ==
    128 * bits[i] + 64 * bits[i + 1] + 32 * bits[i + 2] + 16 * bits[i + 3]
    + 8 * bits[i + 4] + 4 * bits[i + 5] + 2 * bits[i + 6] + bits[i + 7]
BitsOfBytes(bytes) == [i \in 1 .. 8 * Len(bytes) |->
                         BitsOf(bytes[((i - 1) \div 8) + 1], 8)[((i - 1) % 8) + 1]]
BytesOfBits(bits) == [i \in 1 .. Len(bits) \div 8 |-> ByteAt(bits, 8 * i - 7)]

-----------------------------------------------------------------------------
Header(w, low) == (w % 4) * 64 + (low % 64)

create_regular_fragment(w, fcn, payload) == <<Header(w, fcn)>> \o payload

create_ack_request(w) == <<Header(w, 0)>>

create_sender_abort(w) == <<Header(w, All1FCN)>>

create_all_1_fragment(w, rcs, payload) ==
    <<Header(w, All1FCN)>> \o [i \in 1 .. 4 |-> (rcs \div 256^(4 - i)) % 256]
    \o payload

(* The bits that fill the last byte, eight of them when it is full.        *)
Padding(n, bit) == [i \in 1 .. 8 - (n % 8) |-> bit]

(* A bitmap is cut after its last 0, and filled with 1s.  The argument     *)
(* must_compress is always true.                                           *)
Compressed(bitmap) ==
    SubSeq(bitmap, 1, Max({1} \cup {i \in DOMAIN bitmap : bitmap[i] = 0}))

(* Mutant: the bitmap is cut before its last 0.                            *)
create_schc_ack_cut(w, c, bitmap) ==
    LET kept == Compressed(bitmap)
        bits == BitsOf(w, 2) \o <<c>> \o SubSeq(kept, 1, Len(kept) - 1)
    IN  IF c = 1 THEN <<Header(w, 32)>>
        ELSE BytesOfBits(bits \o Padding(Len(bits), 1))

create_schc_ack(w, c, bitmap) ==
    LET bits == BitsOf(w, 2) \o <<c>> \o Compressed(bitmap)
    IN  IF c = 1 THEN <<Header(w, 32)>>
        ELSE BytesOfBits(bits \o Padding(Len(bits), 1))

(* The windows with missing tiles, each with its whole bitmap.             *)
WindowBits(windows, bitmaps) ==
    [i \in 1 .. (windowSize + 2) * Len(windows) |->
       LET w == windows[((i - 1) \div (windowSize + 2)) + 1]
       IN  (BitsOf(w, 2) \o bitmaps[w])[((i - 1) % (windowSize + 2)) + 1]]

(* The bit C is only after the first W.                                    *)
create_schc_ack_compound(last_win, windows, bitmaps) ==
    LET bits == InsertAt(WindowBits(windows, bitmaps), 3, 0)
    IN  IF windows = <<>> THEN <<Header(last_win, 32)>>
        ELSE BytesOfBits(bits \o Padding(Len(bits), 0))

-----------------------------------------------------------------------------
W(msg) == msg[1] \div 64
C(msg) == (msg[1] \div 32) % 2
FCN(msg) == msg[1] % 64

(* Fragments of rule 20 go up and of rule 21 down.  A protocol says which  *)
(* end reads: LORAWAN is the node, LORAWAN_NS the gateway.                 *)
Protocols == {"LORAWAN", "LORAWAN_NS"}
Rules == {20, 21}
ReadsFragments(protocol, rule) ==
    (rule = 20) <=> (protocol = "LORAWAN_NS")

FragmentTypes == {"ack_req", "sender_abort", "all_1", "regular"}
AckTypes == {"receiver_abort", "ack", "compound_ack"}

FragmentType(msg) ==
    CASE Len(msg) = 1 /\ FCN(msg) = 0 -> "ack_req"
      [] Len(msg) = 1 /\ FCN(msg) = All1FCN -> "sender_abort"
      [] Len(msg) > 1 /\ FCN(msg) = All1FCN -> "all_1"
      [] Len(msg) > 1 /\ FCN(msg) # All1FCN -> "regular"
      [] OTHER -> "uninitialised"

(* Mutant: an ACK with the nine bytes of a whole bitmap is a compound ACK. *)
AckTypeOfNine(msg) ==
    CASE C(msg) = 1 /\ Len(msg) = 2 -> "receiver_abort"
      [] C(msg) = 1 /\ Len(msg) # 2 -> "ack"
      [] C(msg) = 0 /\ Len(msg) >= 9 -> "compound_ack"
      [] C(msg) = 0 /\ Len(msg) < 9 -> "ack"

AckType(msg) ==
    CASE C(msg) = 1 /\ Len(msg) = 2 -> "receiver_abort"
      [] C(msg) = 1 /\ Len(msg) # 2 -> "ack"
      [] C(msg) = 0 /\ Len(msg) > 9 -> "compound_ack"
      [] C(msg) = 0 /\ Len(msg) <= 9 -> "ack"

(* Mutant: a fragment is read as an ACK by either end.                     *)
get_msg_type_rule_only(protocol, rule, msg) ==
    IF rule = 20 THEN AckType(msg) ELSE FragmentType(msg)

get_msg_type(protocol, rule, msg) ==
    IF ReadsFragments(protocol, rule) THEN FragmentType(msg) ELSE AckType(msg)

-----------------------------------------------------------------------------
(* decodeMsg() of a fragment: the RCS of an All-1, and the payload.        *)
DecodedRcs(msg) ==
    ((msg[2] * 256 + msg[3]) * 256 + msg[4]) * 256 + msg[5]

(* Mutant: a fragment loses its first byte.                                *)
DecodedPayloadShort(msg) ==
    SubSeq(msg, IF FCN(msg) = All1FCN THEN 6 ELSE 3, Len(msg))

DecodedPayload(msg) ==
    SubSeq(msg, IF FCN(msg) = All1FCN THEN 6 ELSE 2, Len(msg))

(* What decodeMsg() appends to the bitmap of the window of an ACK with     *)
(* C = 0: all the bits behind C, those of the padding among them.          *)
DecodedBits(msg) == SubSeq(BitsOfBytes(msg), 4, 8 * Len(msg))

(* How many windows a compound ACK has, and where the bits of each begin.  *)
NWindows(msg) == (8 * Len(msg) - 1) \div (windowSize + 2)
WindowStart(i) == IF i = 1 THEN 1 ELSE (i - 1) * (windowSize + 2) + 2

(* The list _windows_with_error, and the bitmap of each window in it.      *)
DecodedWindows(msg) ==
    [i \in 1 .. NWindows(msg) |-> WindowAt(BitsOfBytes(msg), WindowStart(i))]
DecodedBitmap(msg, i) ==
    LET first == (i - 1) * (windowSize + 2) + 4
    IN  SubSeq(BitsOfBytes(msg), first, first + windowSize - 1)

=============================================================================
