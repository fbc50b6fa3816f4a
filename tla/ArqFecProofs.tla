----------------------------- MODULE ArqFecProofs -----------------------------
(***************************************************************************)
(* Theorems about ArqFec for windows of any size, any number of packets,   *)
(* tiles and losses, with proofs that TLAPS checks.                        *)
(***************************************************************************)
EXTENDS ArqFec, FiniteSetTheorems, SequenceTheorems, WellFoundedInduction,
        TLAPS

-----------------------------------------------------------------------------
(* Places of tiles.                                                        *)

(* The place of the first tile of a window.                                *)
Place(w) == w * windowSize

(* The windows follow each other, and four of them hold every place.       *)
LEMMA PlacesOfWindows ==
    /\ \A w \in Windows :
         /\ Place(w) \in Nat
         /\ (w + 1) * windowSize = Place(w) + windowSize
         /\ Place(w) + windowSize <= 4 * windowSize
         /\ PositionsOf(w) = Place(w) .. Place(w) + windowSize - 1
         /\ PositionsOf(w) \subseteq Positions
    /\ \A v, w \in Windows : v < w => Place(v) + windowSize <= Place(w)
    /\ 4 * windowSize \in Nat
<1>1. windowSize \in Nat \ {0, 1}
  BY ArqFecAssumption
<1>2. /\ Place(0) = 0 /\ Place(1) = windowSize /\ Place(2) = 2 * windowSize
      /\ Place(3) = 3 * windowSize
  BY <1>1 DEF Place
<1>3. \A w \in Windows : w = 0 \/ w = 1 \/ w = 2 \/ w = 3
  BY DEF Windows
<1>4. \A w \in Windows :
        /\ Place(w) \in Nat
        /\ (w + 1) * windowSize = Place(w) + windowSize
        /\ Place(w) + windowSize <= 4 * windowSize
  <2> SUFFICES ASSUME NEW w \in Windows
               PROVE  /\ Place(w) \in Nat
                      /\ (w + 1) * windowSize = Place(w) + windowSize
                      /\ Place(w) + windowSize <= 4 * windowSize
    OBVIOUS
  <2>1. CASE w = 0 \/ w = 1
    BY <1>1, <1>2, <2>1
  <2>2. CASE w = 2
    BY <1>1, <1>2, <2>2
  <2>3. CASE w = 3
    BY <1>1, <1>2, <2>3
  <2> QED
    BY <1>3, <2>1, <2>2, <2>3
<1>5. \A w \in Windows :
        /\ PositionsOf(w) = Place(w) .. Place(w) + windowSize - 1
        /\ PositionsOf(w) \subseteq Positions
  <2> SUFFICES ASSUME NEW w \in Windows
               PROVE  /\ PositionsOf(w) = Place(w) .. Place(w) + windowSize - 1
                      /\ PositionsOf(w) \subseteq Positions
    OBVIOUS
  <2>1. PositionsOf(w) = Place(w) .. (w + 1) * windowSize - 1
    BY DEF PositionsOf, Place
  <2>2. PositionsOf(w) = Place(w) .. Place(w) + windowSize - 1
    <3>1. (w + 1) * windowSize - 1 = Place(w) + windowSize - 1
      BY <1>1, <1>4
    <3> QED
      BY <2>1, <3>1, Zenon
  <2> HIDE DEF Place
  <2> QED
    BY <1>1, <1>4, <2>2 DEF Positions
<1>6. \A v, w \in Windows : v < w => Place(v) + windowSize <= Place(w)
  <2> HIDE DEF Place
  <2> QED
    BY <1>1, <1>2, <1>3
<1> QED
  BY <1>1, <1>4, <1>5, <1>6

LEMMA QuotientAndRest ==
    ASSUME NEW i \in Nat, NEW b \in Nat \ {0}
    PROVE  /\ i \div b \in Nat /\ i % b \in 0 .. b - 1
           /\ i = (i \div b) * b + (i % b)
<1>1. i \div b \in Nat
  OBVIOUS
<1>2. i % b \in 0 .. b - 1
  OBVIOUS
<1>3. i = (i \div b) * b + (i % b)
  OBVIOUS
<1> QED
  BY <1>1, <1>2, <1>3

(* The place of a tile within its window.                                  *)
LEMMA PlaceInWindow ==
    ASSUME NEW w \in Windows, NEW i \in PositionsOf(w)
    PROVE  i \in Nat /\ i % windowSize = i - Place(w)
<1>1. /\ windowSize \in Nat \ {0, 1} /\ Place(w) \in Nat
      /\ i \in Nat /\ Place(w) <= i /\ i < Place(w) + windowSize
  BY PlacesOfWindows, ArqFecAssumption
<1>2. windowSize \in Nat \ {0}
  BY <1>1
<1>3. \E q \in Nat : \E r \in 0 .. windowSize - 1 :
        i = q * windowSize + r /\ i % windowSize = r
  BY <1>1, <1>2, QuotientAndRest
<1>4. PICK q \in Nat : \E r \in 0 .. windowSize - 1 :
        i = q * windowSize + r /\ i % windowSize = r
  BY <1>3
<1>5. PICK r \in 0 .. windowSize - 1 :
        i = q * windowSize + r /\ i % windowSize = r
  BY <1>4
<1>6. w \in Nat /\ Place(w) = w * windowSize
  BY DEF Windows, Place
<1>7. ~(q >= w + 1)
  <2> SUFFICES ASSUME q >= w + 1 PROVE FALSE
    OBVIOUS
  <2>1. (q - (w + 1)) * windowSize >= 0
    BY <1>2, <1>6
  <2>2. q * windowSize
          = (q - (w + 1)) * windowSize + w * windowSize + windowSize
    BY <1>2, <1>6
  <2> QED
    BY <1>1, <1>5, <1>6, <2>1, <2>2
<1>8. ~(q + 1 <= w)
  <2> SUFFICES ASSUME q + 1 <= w PROVE FALSE
    OBVIOUS
  <2>1. (w - (q + 1)) * windowSize >= 0
    BY <1>2, <1>6
  <2>2. w * windowSize
          = (w - (q + 1)) * windowSize + q * windowSize + windowSize
    BY <1>2, <1>6
  <2> QED
    BY <1>1, <1>5, <1>6, <2>1, <2>2
<1>9. q = w
  BY <1>6, <1>7, <1>8
<1> QED
  BY <1>1, <1>5, <1>6, <1>9

LEMMA LeastIs ==
    ASSUME NEW S \in SUBSET Nat, S # {}
    PROVE  \E k \in S : \A j \in S : k <= j
<1>1. \E k \in S : \A j \in S : ~(<<j, k>> \in OpToRel(<, Nat))
  BY NatLessThanWellFounded, WFMin
<1>2. OpToRel(<, Nat) = {p \in Nat \X Nat : p[1] < p[2]}
  BY Zenon DEF OpToRel
<1>3. \A j, k \in Nat : <<j, k>> \in {p \in Nat \X Nat : p[1] < p[2]} <=> j < k
  BY SMT
<1>4. \E k \in S : \A j \in S : ~(j < k)
  BY <1>1, <1>2, <1>3
<1> QED
  BY <1>4

(* How many windows there are shows in the tiles that the first one takes. *)
LEMMA OneWindow ==
    /\ nWindows = 1 => nFullTiles <= windowSize
    /\ nWindows # 1 => nFullTiles > windowSize
<1>1. /\ windowSize \in Nat \ {0} /\ nFullTiles \in Nat \ {0}
      /\ nFullTiles + windowSize - 1 \in Nat
  BY PlacesOfWindows, ArqFecAssumption
<1>2. PICK q \in Nat, r \in 0 .. windowSize - 1 :
        nFullTiles + windowSize - 1 = q * windowSize + r /\ nWindows = q
  BY <1>1, QuotientAndRest DEF nWindows
<1>3. CASE q = 0
  BY <1>1, <1>2, <1>3
<1>4. CASE q = 1
  BY <1>1, <1>2, <1>4
<1>5. CASE q >= 2
  <2>1. (q - 2) * windowSize >= 0
    BY <1>1, <1>5
  <2>2. q * windowSize = (q - 2) * windowSize + 2 * windowSize
    BY <1>1
  <2> QED
    BY <1>1, <1>2, <1>5, <2>1, <2>2
<1> QED
  BY <1>3, <1>4, <1>5

-----------------------------------------------------------------------------
(* Types and places.                                                       *)

(* A fragment that says where its tiles are, and has tiles of the packet.  *)
PlacedMessages ==
    {m \in UpMessages :
       m.type = "regular" =>
         PlaceOf(m) = m.first /\ m.first + m.n <= nFullTiles}

Sending == {"SEND", "WAIT_x_SESSION_ACK", "RESEND_MISSING_TILES"}

(* The counters of a sender agree, and there is something to repair.       *)
SenderPlaced ==
    /\ snd.state \in Sending => snd.pkt \in offered
    /\ snd.state = "SEND" =>
         /\ snd.ptr < nFullTiles
         /\ snd.ptr = Place(snd.window) + windowSize - 1 - snd.fcn
    /\ snd.state = "RESEND_MISSING_TILES" => snd.errors # {}

SenderPart == up \in Seq(PlacedMessages) /\ SenderTypeOK /\ SenderPlaced

ReceiverPart == down \in Seq(DownMessages) /\ ReceiverTypeOK /\ TilesInPlace

HistoryPart ==
    losses \in 0 .. MaxLoss /\ offered \subseteq Packets /\ confirmed \subseteq offered

PlacesInv == SenderPart /\ ReceiverPart /\ HistoryPart

LEMMA FragmentPlaced ==
    ASSUME NEW p \in Packets, NEW w \in Windows, NEW fcn \in 0 .. windowSize - 1,
           NEW n \in 1 .. payloadTiles, NEW first \in Nat,
           first = Place(w) + windowSize - 1 - fcn, first + n <= nFullTiles
    PROVE  RegularFragment(p, w, fcn, first, n) \in PlacedMessages
<1> DEFINE msg == RegularFragment(p, w, fcn, first, n)
<1>1. nFullTiles \in Nat /\ windowSize \in Nat /\ payloadTiles \in Nat
  BY PlacesOfWindows, ArqFecAssumption
<1>2. first \in 0 .. nFullTiles - 1
  BY <1>1
<1>3. msg \in UpMessages
  BY <1>2 DEF RegularFragment, UpMessages
<1>4. PlaceOf(msg) = (w + 1) * windowSize - 1 - fcn /\ msg.first = first /\ msg.n = n
  BY DEF PlaceOf, RegularFragment
<1>5. (w + 1) * windowSize = Place(w) + windowSize /\ Place(w) \in Nat
  BY PlacesOfWindows
<1>6. PlaceOf(msg) = first
  BY <1>1, <1>4, <1>5
<1>7. PlaceOf(msg) = msg.first /\ msg.first + msg.n <= nFullTiles
  BY <1>4, <1>6
<1>8. msg \in PlacedMessages
  <2> HIDE DEF msg
  <2> QED
    BY <1>3, <1>7 DEF PlacedMessages
<1> QED
  BY <1>8

LEMMA OthersPlaced ==
    /\ \A p \in Packets, w \in Windows : All1(p, w) \in PlacedMessages
    /\ AckReq \in PlacedMessages
<1>1. \A p \in Packets, w \in Windows :
        All1(p, w) \in UpMessages /\ All1(p, w).type = "all1"
  BY DEF All1, UpMessages
<1>2. AckReq \in UpMessages /\ AckReq.type = "req"
  BY DEF AckReq, UpMessages
<1> QED
  BY <1>1, <1>2 DEF PlacedMessages

LEMMA Constants ==
    /\ windowSize \in Nat /\ windowSize > 1
    /\ nFullTiles \in Nat /\ nFullTiles > 0 /\ nFullTiles <= 4 * windowSize
    /\ payloadTiles \in Nat /\ payloadTiles > 0 /\ payloadTiles < windowSize
    /\ NoPacket \notin Packets /\ MaxLoss \in Nat
    /\ Place(0) = 0
BY PlacesOfWindows, ArqFecAssumption DEF Place

LEMMA SenderOpenPlaced ==
    ASSUME PlacesInv, NEW p \in Packets, Offer(p)
    PROVE  SenderPart'
<1> DEFINE s == [NoSender EXCEPT !.pkt = p]
           remaining == IF nWindows = 1 THEN nFullTiles ELSE windowSize
<1>1. remaining \in 1 .. nFullTiles
      /\ (remaining <= payloadTiles => remaining = nFullTiles)
  BY OneWindow, Constants
<1>2. 0 \in Windows /\ windowSize - 1 \in 0 .. windowSize - 1
  BY Constants DEF Windows
<1>3. /\ s.pkt = p /\ s.window = 0 /\ s.fcn = windowSize - 1 /\ s.ptr = 0
      /\ s.bitmap = {} /\ s.errors = {} /\ s.queue = <<>> /\ s.state = "none"
  BY DEF NoSender
<1>4. \A n \in 1 .. payloadTiles :
        n <= nFullTiles => Fragment(s, n) \in PlacedMessages
  <2> SUFFICES ASSUME NEW n \in 1 .. payloadTiles, n <= nFullTiles
               PROVE  Fragment(s, n) \in PlacedMessages
    OBVIOUS
  <2>1. RegularFragment(p, 0, windowSize - 1, 0, n) \in PlacedMessages
    BY <1>2, FragmentPlaced, Constants
  <2> QED
    BY <1>3, <2>1 DEF Fragment
<1>5. CASE remaining > payloadTiles
  <2>1. Fragment(s, payloadTiles) \in PlacedMessages
    BY <1>1, <1>4, <1>5, Constants
  <2>2. up' \in Seq(PlacedMessages)
    BY <1>5, <2>1 DEF Offer, SenderOpen, SendUp, PlacesInv, SenderPart
  <2>3. snd' = [s EXCEPT !.state = "SEND", !.ptr = payloadTiles,
                         !.fcn = @ - payloadTiles, !.queue = <<Again>>]
    BY <1>5 DEF Offer, SenderOpen
  <2>4. SenderTypeOK'
    <3>1. <<Again>> \in Seq(DownMessages \cup {Again})
      OBVIOUS
    <3>2. payloadTiles \in 0 .. nFullTiles
      BY <1>1, <1>5, Constants
    <3>3. windowSize - 1 - payloadTiles \in 0 .. windowSize - 1
      BY Constants
    <3> QED
      BY <1>2, <2>3, <3>1, <3>2, <3>3 DEF SenderTypeOK, SenderStates, NoSender
  <2>5. SenderPlaced'
    <3>1. /\ snd'.state = "SEND" /\ snd'.pkt = p /\ snd'.ptr = payloadTiles
          /\ snd'.fcn = windowSize - 1 - payloadTiles /\ snd'.window = 0
      BY <2>3 DEF NoSender
    <3>2. p \in offered'
      BY DEF Offer
    <3> QED
      BY <1>1, <1>5, <3>1, <3>2, Constants DEF SenderPlaced
  <2> QED
    BY <2>2, <2>4, <2>5 DEF SenderPart
<1>6. CASE ~(remaining > payloadTiles)
  <2>1. LastFragments(s, remaining) \in Seq(PlacedMessages)
    <3>1. Fragment(s, remaining) \in PlacedMessages
      BY <1>1, <1>4, <1>6, Constants
    <3>2. All1(s.pkt, s.window) \in PlacedMessages
      BY <1>2, <1>3, OthersPlaced
    <3> HIDE DEF s, remaining
    <3> QED
      BY <3>1, <3>2 DEF LastFragments
  <2>2. up' \in Seq(PlacedMessages)
    <3>1. up' = up \o LastFragments(s, remaining)
      BY <1>6 DEF Offer, SenderOpen, SendUp
    <3> QED
      BY <2>1, <3>1 DEF PlacesInv, SenderPart
  <2>3. snd' = [s EXCEPT !.state = "WAIT_x_SESSION_ACK", !.ptr = remaining]
    BY <1>6 DEF Offer, SenderOpen
  <2>4. SenderTypeOK'
    <3>1. <<>> \in Seq(DownMessages \cup {Again})
      OBVIOUS
    <3>2. remaining \in 0 .. nFullTiles
      BY <1>1
    <3> HIDE DEF remaining
    <3> QED
      BY <1>2, <2>3, <3>1, <3>2 DEF SenderTypeOK, SenderStates, NoSender
  <2>5. SenderPlaced'
    <3>1. snd'.state = "WAIT_x_SESSION_ACK" /\ snd'.pkt = p
      BY <2>3 DEF NoSender
    <3>2. p \in offered'
      BY DEF Offer
    <3> QED
      BY <3>1, <3>2 DEF SenderPlaced
  <2> QED
    BY <2>2, <2>4, <2>5 DEF SenderPart
<1> QED
  BY <1>5, <1>6

QueueEntries == DownMessages \cup {Again}

(* What a machine that takes an event finds in it, and what it leaves.     *)
LEMMA EventTaken ==
    ASSUME SenderTypeOK, snd.queue # <<>>
    PROVE  /\ Event \in QueueEntries
           /\ Tail(snd.queue) \in Seq(QueueEntries)
           /\ Append(Tail(snd.queue), Again) \in Seq(QueueEntries)
           /\ IsCompound(Event) =>
                /\ Event.windows \subseteq Windows /\ Event.windows # {}
                /\ Event.bitmap \subseteq Positions
<1>1. snd.queue \in Seq(QueueEntries)
  BY DEF SenderTypeOK, QueueEntries
<1>2. Event \in QueueEntries /\ Tail(snd.queue) \in Seq(QueueEntries)
  BY <1>1 DEF Event
<1>3. Append(Tail(snd.queue), Again) \in Seq(QueueEntries)
  BY <1>2 DEF QueueEntries
<1>4. ASSUME IsCompound(Event)
      PROVE  /\ Event.windows \subseteq Windows /\ Event.windows # {}
             /\ Event.bitmap \subseteq Positions
  <2>1. Event.type = "compound" /\ Cardinality(Event.windows) > 1
    BY <1>4 DEF IsCompound
  <2>2. Event.windows \subseteq Windows /\ Event.bitmap \subseteq Positions
    BY <1>2, <2>1 DEF QueueEntries, DownMessages, Again
  <2>3. Event.windows # {}
    <3> SUFFICES ASSUME Event.windows = {} PROVE FALSE
      OBVIOUS
    <3>1. Cardinality(Event.windows) = 0
      BY FS_EmptySet
    <3> QED
      BY <2>1, <3>1
  <2> QED
    BY <2>2, <2>3
<1> QED
  BY <1>2, <1>3, <1>4

(* The counters of a machine that sends leave room for one more fragment.  *)
LEMMA MorePlaced ==
    ASSUME PlacesInv, snd.state = "SEND", NEW n \in 1 .. payloadTiles,
           snd.ptr + n <= nFullTiles
    PROVE  /\ snd.pkt \in Packets
           /\ Fragment(snd, n) \in PlacedMessages
           /\ All1(snd.pkt, snd.window) \in PlacedMessages
           /\ snd.ptr + n \in 0 .. nFullTiles
<1>1. /\ snd.pkt \in Packets /\ snd.window \in Windows
      /\ snd.fcn \in 0 .. windowSize - 1 /\ snd.ptr \in Nat
      /\ snd.ptr = Place(snd.window) + windowSize - 1 - snd.fcn
  BY DEF PlacesInv, SenderPart, HistoryPart, SenderTypeOK, SenderPlaced, Sending
<1>2. Fragment(snd, n) \in PlacedMessages
  BY <1>1, FragmentPlaced DEF Fragment
<1> QED
  BY <1>1, <1>2, OthersPlaced, Constants

LEMMA SendMorePlaced ==
    ASSUME PlacesInv, SendMore, UNCHANGED offered
    PROVE  SenderPart'
<1> DEFINE n == payloadTiles
<1>1. /\ snd.state = "SEND" /\ snd.queue # <<>> /\ snd.ptr + n < nFullTiles
      /\ snd \in [state : SenderStates, pkt : Packets \cup {NoPacket},
             ptr : 0 .. nFullTiles, window : Windows,
             fcn : 0 .. windowSize - 1, bitmap : SUBSET Positions,
             errors : SUBSET Windows, queue : Seq(QueueEntries)]
  BY Constants DEF SendMore, SenderIn, PlacesInv, SenderPart, SenderTypeOK, QueueEntries
<1>2. up' \in Seq(PlacedMessages)
  <2>1. Fragment(snd, n) \in PlacedMessages
    BY <1>1, MorePlaced, Constants
  <2> QED
    BY <2>1 DEF SendMore, SendUp, PlacesInv, SenderPart
<1>3. /\ Tail(snd.queue) \in Seq(QueueEntries)
      /\ Append(Tail(snd.queue), Again) \in Seq(QueueEntries)
  BY <1>1, EventTaken DEF PlacesInv, SenderPart
<1>4. /\ snd.ptr = Place(snd.window) + windowSize - 1 - snd.fcn
      /\ snd.pkt \in offered
  BY <1>1 DEF PlacesInv, SenderPart, SenderPlaced, Sending
<1>5. snd.ptr + n \in 0 .. nFullTiles
  BY <1>1, Constants
<1>6. CASE n > snd.fcn
  <2>1. snd' = [snd EXCEPT !.queue = Append(Tail(@), Again), !.ptr = @ + n,
                           !.fcn = @ + windowSize - n, !.window = @ + 1]
    BY <1>1, <1>6 DEF SendMore, Advanced, ExecuteAgain, Rest
  <2>2. snd.fcn + windowSize - n \in 0 .. windowSize - 1
    BY <1>1, <1>6, Constants
  <2>3. snd.window + 1 \in Windows
    <3>1. snd.window # 3
      <4> SUFFICES ASSUME snd.window = 3 PROVE FALSE
        OBVIOUS
      <4>1. Place(snd.window) + windowSize = 4 * windowSize
        BY Constants DEF Place
      <4>2. Place(snd.window) \in Nat /\ snd.fcn \in Nat /\ snd.ptr \in Nat
        BY <1>1, PlacesOfWindows
      <4> QED
        BY <1>1, <1>4, <1>6, <4>1, <4>2, Constants
    <3> QED
      BY <1>1, <3>1 DEF Windows
  <2>4. Place(snd.window + 1) = Place(snd.window) + windowSize
    BY <1>1, PlacesOfWindows DEF Place
  <2>5. Place(snd.window) \in Nat
    BY <1>1, PlacesOfWindows
  <2>6. SenderTypeOK'
    BY <1>1, <1>3, <1>5, <2>1, <2>2, <2>3 DEF SenderTypeOK, QueueEntries
  <2>7. /\ snd'.state = "SEND" /\ snd'.pkt = snd.pkt /\ snd'.ptr = snd.ptr + n
        /\ snd'.fcn = snd.fcn + windowSize - n /\ snd'.window = snd.window + 1
    BY <1>1, <2>1
  <2>8. SenderPlaced'
    BY <1>1, <1>4, <2>4, <2>5, <2>7, Constants DEF SenderPlaced
  <2> QED
    BY <1>2, <2>6, <2>8 DEF SenderPart
<1>7. CASE ~(n > snd.fcn)
  <2>1. snd' = [snd EXCEPT !.queue = Append(Tail(@), Again), !.ptr = @ + n,
                           !.fcn = @ - n]
    BY <1>1, <1>7 DEF SendMore, Advanced, ExecuteAgain, Rest
  <2>2. snd.fcn - n \in 0 .. windowSize - 1
    BY <1>1, <1>7, Constants
  <2>3. Place(snd.window) \in Nat
    BY <1>1, PlacesOfWindows
  <2>4. SenderTypeOK'
    BY <1>1, <1>3, <1>5, <2>1, <2>2 DEF SenderTypeOK, QueueEntries
  <2>5. /\ snd'.state = "SEND" /\ snd'.pkt = snd.pkt /\ snd'.ptr = snd.ptr + n
        /\ snd'.fcn = snd.fcn - n /\ snd'.window = snd.window
    BY <1>1, <2>1
  <2>6. SenderPlaced'
    BY <1>1, <1>4, <2>3, <2>5, Constants DEF SenderPlaced
  <2> QED
    BY <1>2, <2>4, <2>6 DEF SenderPart
<1> QED
  BY <1>6, <1>7

LEMMA SendLastPlaced ==
    ASSUME PlacesInv, SendLast \/ SendCut, UNCHANGED offered
    PROVE  SenderPart'
<1>1. /\ snd.state = "SEND" /\ snd.queue # <<>> /\ snd.ptr < nFullTiles
      /\ snd.ptr \in Nat /\ snd.pkt \in offered
  BY DEF SendLast, SendCut, SenderIn, PlacesInv, SenderPart, SenderPlaced,
         SenderTypeOK, Sending
<1>2. /\ Tail(snd.queue) \in Seq(QueueEntries)
  BY <1>1, EventTaken DEF PlacesInv, SenderPart
<1>3. CASE SendLast
  <2> DEFINE n == nFullTiles - snd.ptr
  <2>1. n \in 1 .. payloadTiles /\ snd.ptr + n <= nFullTiles
    BY <1>1, <1>3, Constants DEF SendLast
  <2>2. LastFragments(snd, n) \in Seq(PlacedMessages)
    <3>1. /\ Fragment(snd, n) \in PlacedMessages
          /\ All1(snd.pkt, snd.window) \in PlacedMessages
      BY <1>1, <2>1, MorePlaced
    <3> HIDE DEF n
    <3> QED
      BY <3>1 DEF LastFragments
  <2>3. up' \in Seq(PlacedMessages)
    BY <1>3, <2>2 DEF SendLast, SendUp, PlacesInv, SenderPart
  <2>4. snd' = [snd EXCEPT !.queue = Tail(@), !.state = "WAIT_x_SESSION_ACK",
                           !.ptr = nFullTiles]
    BY <1>3 DEF SendLast, Rest
  <2>5. SenderTypeOK'
    <3>1. nFullTiles \in 0 .. nFullTiles
      BY Constants
    <3> QED
      BY <1>2, <2>4, <3>1
      DEF PlacesInv, SenderPart, SenderTypeOK, QueueEntries, SenderStates
  <2>6. snd'.state = "WAIT_x_SESSION_ACK" /\ snd'.pkt = snd.pkt
    BY <2>4 DEF PlacesInv, SenderPart, SenderTypeOK
  <2> QED
    BY <1>1, <2>3, <2>5, <2>6 DEF SenderPart, SenderPlaced
<1>4. CASE SendCut
  <2>1. up' \in Seq(PlacedMessages)
    <3>1. All1(snd.pkt, snd.window) \in PlacedMessages
      BY <1>1, OthersPlaced
      DEF PlacesInv, SenderPart, SenderTypeOK, HistoryPart
    <3> QED
      BY <1>4, <3>1 DEF SendCut, SendUp, PlacesInv, SenderPart
  <2>2. snd' = [snd EXCEPT !.queue = Tail(@), !.state = "WAIT_x_SESSION_ACK"]
    BY <1>4 DEF SendCut, Rest
  <2>3. SenderTypeOK'
    BY <1>2, <2>2
    DEF PlacesInv, SenderPart, SenderTypeOK, QueueEntries, SenderStates
  <2>4. snd'.state = "WAIT_x_SESSION_ACK" /\ snd'.pkt = snd.pkt
    BY <2>2 DEF PlacesInv, SenderPart, SenderTypeOK
  <2> QED
    BY <1>1, <2>1, <2>3, <2>4 DEF SenderPart, SenderPlaced
<1> QED
  BY <1>3, <1>4

(* Steps of the sender that send nothing.                                  *)
LEMMA QuietSenderPlaced ==
    ASSUME PlacesInv, UNCHANGED offered,
           \/ SenderConfirmed \/ SenderReported \/ SenderIgnores \/ SenderEnds
           \/ SenderReaped \/ SenderHears
    PROVE  SenderPart'
<1>1. /\ up \in Seq(PlacedMessages) /\ SenderPlaced /\ SenderTypeOK
      /\ down \in Seq(DownMessages)
  BY DEF PlacesInv, SenderPart, ReceiverPart
<1>2. snd.queue # <<>> =>
        /\ Tail(snd.queue) \in Seq(QueueEntries)
        /\ Append(Tail(snd.queue), Again) \in Seq(QueueEntries)
  BY <1>1, EventTaken
<1>3. CASE SenderConfirmed
  <2>1. /\ up' = up /\ snd.queue # <<>>
        /\ snd' = [snd EXCEPT !.queue = Append(Tail(@), Again), !.state = "END"]
    BY <1>1, <1>3
    DEF SenderConfirmed, linkVars, SenderIn, ExecuteAgain, Rest, SenderTypeOK
  <2> QED
    BY <1>1, <1>2, <2>1
    DEF SenderPart, SenderTypeOK, SenderPlaced, QueueEntries, SenderStates, Sending
<1>4. CASE SenderReported
  <2> DEFINE listed == UNION {PositionsOf(w) : w \in Event.windows}
             bits == (snd.bitmap \ listed) \cup (Event.bitmap \cap listed)
  <2>1. /\ up' = up /\ snd.queue # <<>> /\ snd.state = "WAIT_x_SESSION_ACK"
        /\ IsCompound(Event)
        /\ snd' = [snd EXCEPT !.queue = Append(Tail(@), Again),
                              !.state = "RESEND_MISSING_TILES",
                              !.errors = Event.windows, !.bitmap = bits]
    BY <1>1, <1>4
    DEF SenderReported, linkVars, SenderIn, Reported, ExecuteAgain, Rest, SenderTypeOK
  <2>2. /\ Event.windows \subseteq Windows /\ Event.windows # {}
        /\ Event.bitmap \subseteq Positions
    BY <1>1, <2>1, EventTaken
  <2>3. bits \subseteq Positions
    BY <1>1, <2>2 DEF SenderTypeOK
  <2> HIDE DEF bits
  <2> QED
    BY <1>1, <1>2, <2>1, <2>2, <2>3
    DEF SenderPart, SenderTypeOK, SenderPlaced, QueueEntries, SenderStates, Sending
<1>5. CASE SenderIgnores
  <2>1. /\ up' = up /\ snd.queue # <<>>
        /\ snd' = [snd EXCEPT !.queue = Tail(@)]
    BY <1>5 DEF SenderIgnores, linkVars, Rest
  <2> QED
    BY <1>1, <1>2, <2>1
    DEF SenderPart, SenderTypeOK, SenderPlaced, QueueEntries
<1>6. CASE SenderEnds
  <2>1. /\ up' = up /\ snd.queue # <<>>
        /\ snd' = [snd EXCEPT !.queue = Tail(@), !.state = "dead"]
    BY <1>6 DEF SenderEnds, linkVars, Rest, SenderIn
  <2> QED
    BY <1>1, <1>2, <2>1
    DEF SenderPart, SenderTypeOK, SenderPlaced, QueueEntries, SenderStates, Sending
<1>7. CASE SenderReaped
  <2>1. up' = up /\ snd' = NoSender
    BY <1>7 DEF SenderReaped, linkVars
  <2>2. SenderTypeOK'
    BY <2>1, Constants DEF SenderTypeOK, NoSender, SenderStates, Windows
  <2> QED
    BY <1>1, <2>1, <2>2 DEF SenderPart, SenderPlaced, NoSender, Sending
<1>8. CASE SenderHears
  <2>1. up' = up /\ Head(down) \in DownMessages
    BY <1>1, <1>8 DEF SenderHears
  <2>2. CASE snd' = snd
    BY <1>1, <2>1, <2>2 DEF SenderPart, SenderTypeOK, SenderPlaced
  <2>3. CASE snd' = [snd EXCEPT !.queue = Append(@, Head(down))]
    <3>1. Append(snd.queue, Head(down)) \in Seq(QueueEntries)
      BY <1>1, <2>1 DEF SenderTypeOK, QueueEntries
    <3> QED
      BY <1>1, <2>1, <2>3, <3>1 DEF SenderPart, SenderTypeOK, SenderPlaced, QueueEntries
  <2> QED
    BY <1>8, <2>2, <2>3 DEF SenderHears
<1> QED
  BY <1>3, <1>4, <1>5, <1>6, <1>7, <1>8

(* What is repeated: the first run of missing tiles of the first window in *)
(* error, as far as a fragment holds it.                                   *)
LEMMA FrontWindowIs ==
    ASSUME snd.errors \subseteq Windows, snd.errors # {}
    PROVE  FrontWindow \in snd.errors
<1>1. snd.errors \in SUBSET Nat
  BY DEF Windows
<1>2. \E w \in snd.errors : \A v \in snd.errors : w <= v
  BY <1>1, LeastIs
<1> QED
  BY <1>2 DEF FrontWindow

LEMMA RunIs ==
    ASSUME snd.errors \subseteq Windows, snd.errors # {}, Missing(snd.bitmap) # {}
    PROVE  /\ FirstMissing \in PositionsOf(FrontWindow)
           /\ FirstMissing \in Nat
           /\ Cardinality(Run) \in 1 .. payloadTiles
           /\ Run = FirstMissing .. FirstMissing + Cardinality(Run) - 1
           /\ FirstMissing + Cardinality(Run) <= nFullTiles
           /\ Run \subseteq Missing(snd.bitmap)
<1> DEFINE lost == Missing(snd.bitmap)
           F == FirstMissing
           inRun(i) == F .. i \subseteq lost
<1>1. lost \subseteq PositionsOf(FrontWindow) /\ \A i \in lost : i < nFullTiles
  BY DEF Missing
<1>2. FrontWindow \in Windows
  BY FrontWindowIs
<1>3. lost \in SUBSET Nat
  BY <1>1, <1>2, PlacesOfWindows, Constants
<1>4. F \in lost /\ F \in Nat
  <2>1. \E i \in lost : \A j \in lost : i <= j
    BY <1>3, LeastIs
  <2>2. F \in lost
    BY <2>1 DEF FirstMissing
  <2> QED
    BY <1>3, <2>2
<1> DEFINE after == {k \in Nat : k >= 1 /\ (k >= payloadTiles \/ F + k \notin lost)}
<1> HIDE DEF lost, F
<1>5. payloadTiles \in after /\ after \in SUBSET Nat
  BY Constants
<1>6. PICK n \in after : \A k \in after : n <= k
  BY <1>5, LeastIs
<1>7. n \in 1 .. payloadTiles /\ n \in Nat
  BY <1>5, <1>6, Constants
<1>8. \A i \in F .. F + n - 1 : i \in lost
  <2> SUFFICES ASSUME NEW i \in F .. F + n - 1 PROVE i \in lost
    OBVIOUS
  <2>1. CASE i = F
    BY <1>4, <2>1
  <2>2. CASE i # F
    <3> DEFINE k == i - F
    <3>1. k \in Nat /\ k >= 1 /\ k < n /\ F + k = i
      BY <1>4, <1>7, <2>2
    <3>2. k \notin after
      BY <1>6, <3>1
    <3> QED
      BY <3>1, <3>2
  <2> QED
    BY <2>1, <2>2
<1>9. Run = {i \in F .. F + payloadTiles - 1 : F .. i \subseteq lost}
  BY DEF Run, F, lost
<1>10. F .. F + n - 1 \subseteq Run
  <2> SUFFICES ASSUME NEW i \in F .. F + n - 1 PROVE i \in Run
    OBVIOUS
  <2>1. i \in F .. F + payloadTiles - 1
    BY <1>4, <1>7, Constants
  <2>2. F .. i \subseteq F .. F + n - 1
    BY <1>4, <1>7
  <2> QED
    BY <1>8, <1>9, <2>1, <2>2
<1>11. Run \subseteq F .. F + n - 1
  <2> SUFFICES ASSUME NEW i \in Run, i >= F + n PROVE FALSE
    BY <1>4, <1>7, <1>9, Constants
  <2>1. i \in F .. F + payloadTiles - 1 /\ F .. i \subseteq lost
    BY <1>9
  <2>2. n < payloadTiles
    BY <1>4, <1>7, <2>1, Constants
  <2>3. F + n \notin lost
    BY <1>6, <2>2, Constants
  <2>4. F + n \in F .. i
    BY <1>4, <1>7, <2>1
  <2> QED
    BY <2>1, <2>3, <2>4
<1>12. Run = F .. F + n - 1
  BY <1>10, <1>11
<1>13. Cardinality(Run) = n
  <2>1. Cardinality(F .. F + n - 1) = n
    <3>1. F \in Int /\ F + n - 1 \in Int /\ F <= F + n - 1
      BY <1>4, <1>7
    <3>2. Cardinality(F .. F + n - 1) = (F + n - 1) - F + 1
      BY <3>1, FS_Interval
    <3> QED
      BY <1>4, <1>7, <3>2
  <2> QED
    BY <1>12, <2>1
<1>14. F + n <= nFullTiles
  <2>1. F + n - 1 \in lost
    BY <1>4, <1>7, <1>8
  <2> QED
    BY <1>1, <1>4, <1>7, <2>1, Constants DEF lost
<1>15. F \in PositionsOf(FrontWindow)
  BY <1>1, <1>4 DEF lost
<1> QED
  BY <1>4, <1>7, <1>8, <1>12, <1>13, <1>14, <1>15 DEF F, lost

LEMMA ResendPlaced ==
    ASSUME PlacesInv, Resend, UNCHANGED offered
    PROVE  SenderPart'
<1>1. /\ up \in Seq(PlacedMessages) /\ SenderPlaced /\ SenderTypeOK
      /\ snd.state = "RESEND_MISSING_TILES" /\ snd.queue # <<>>
      /\ snd.pkt \in offered /\ snd.pkt \in Packets
      /\ snd.errors \subseteq Windows /\ snd.errors # {}
  BY DEF PlacesInv, SenderPart, HistoryPart, Resend, SenderIn, SenderPlaced,
         SenderTypeOK, Sending
<1>2. /\ Tail(snd.queue) \in Seq(QueueEntries)
      /\ Append(Tail(snd.queue), Again) \in Seq(QueueEntries)
  BY <1>1, EventTaken
<1>3. FrontWindow \in Windows
  BY <1>1, FrontWindowIs
<1>4. ResendFragment \in Seq(PlacedMessages)
  <2>1. CASE Missing(snd.bitmap) = {}
    BY <2>1 DEF ResendFragment
  <2>2. CASE Missing(snd.bitmap) # {}
    <3> DEFINE fcn == windowSize - 1 - (FirstMissing % windowSize)
               n == Cardinality(Run)
    <3>1. /\ FirstMissing \in PositionsOf(FrontWindow) /\ FirstMissing \in Nat
          /\ n \in 1 .. payloadTiles /\ FirstMissing + n <= nFullTiles
      BY <1>1, <2>2, RunIs
    <3>2. FirstMissing % windowSize = FirstMissing - Place(FrontWindow)
      BY <1>3, <3>1, PlaceInWindow
    <3>3. /\ Place(FrontWindow) \in Nat /\ Place(FrontWindow) <= FirstMissing
          /\ FirstMissing <= Place(FrontWindow) + windowSize - 1
      <4>1. /\ PositionsOf(FrontWindow)
                 = Place(FrontWindow) .. Place(FrontWindow) + windowSize - 1
            /\ Place(FrontWindow) \in Nat
        BY <1>3, PlacesOfWindows
      <4> QED
        BY <3>1, <4>1, Constants
    <3>4. /\ fcn \in 0 .. windowSize - 1
          /\ FirstMissing = Place(FrontWindow) + windowSize - 1 - fcn
      BY <3>1, <3>2, <3>3, Constants
    <3> HIDE DEF fcn, n
    <3>5. RegularFragment(snd.pkt, FrontWindow, fcn, FirstMissing, n) \in PlacedMessages
      BY <1>1, <1>3, <3>1, <3>4, FragmentPlaced
    <3> QED
      BY <2>2, <3>5 DEF ResendFragment, fcn, n
  <2> QED
    BY <2>1, <2>2
<1>5. up' \in Seq(PlacedMessages)
  <2>1. up' = up \o ResendFragment \/ up' = up \o (ResendFragment \o <<AckReq>>)
    BY DEF Resend, SendUp
  <2>2. ResendFragment \o <<AckReq>> \in Seq(PlacedMessages)
    BY <1>4, OthersPlaced
  <2>3. \A ms \in Seq(PlacedMessages) : up \o ms \in Seq(PlacedMessages)
    BY <1>1, ConcatProperties
  <2> QED
    BY <1>4, <2>1, <2>2, <2>3
<1> DEFINE marked == snd.bitmap \cup (IF Missing(snd.bitmap) = {} THEN {} ELSE Run)
<1>6. marked \subseteq Positions
  <2>1. Missing(snd.bitmap) \subseteq Positions
    BY <1>3, PlacesOfWindows DEF Missing
  <2>2. snd.bitmap \subseteq Positions
    BY <1>1 DEF SenderTypeOK
  <2>3. Missing(snd.bitmap) # {} => Run \subseteq Positions
    BY <1>1, <2>1, RunIs
  <2> QED
    BY <2>2, <2>3
<1> DEFINE s == [Rest EXCEPT !.bitmap = marked]
<1>7. \/ snd' = ExecuteAgain(s)
      \/ WindowsLeft(snd) # {} /\ snd' = ExecuteAgain([s EXCEPT !.errors = WindowsLeft(snd)])
      \/ snd' = [s EXCEPT !.errors = {}, !.state = "WAIT_x_SESSION_ACK"]
  BY Zenon DEF Resend
<1>8. WindowsLeft(snd) \subseteq Windows
  BY <1>1 DEF WindowsLeft
<1> HIDE DEF marked
<1>9. CASE snd' = ExecuteAgain(s)
  BY <1>1, <1>2, <1>5, <1>6, <1>9
  DEF ExecuteAgain, Rest, SenderPart, SenderTypeOK, SenderPlaced, QueueEntries, Sending
<1>10. CASE WindowsLeft(snd) # {}
            /\ snd' = ExecuteAgain([s EXCEPT !.errors = WindowsLeft(snd)])
  <2> DEFINE left == WindowsLeft(snd)
  <2> HIDE DEF left
  <2>1. left \subseteq Windows /\ left # {} /\ snd' = ExecuteAgain([s EXCEPT !.errors = left])
    BY <1>8, <1>10 DEF left
  <2> QED
    BY <1>1, <1>2, <1>5, <1>6, <2>1
    DEF ExecuteAgain, Rest, SenderPart, SenderTypeOK, SenderPlaced, QueueEntries, Sending
<1>11. CASE snd' = [s EXCEPT !.errors = {}, !.state = "WAIT_x_SESSION_ACK"]
  BY <1>1, <1>2, <1>5, <1>6, <1>11
  DEF Rest, SenderPart, SenderTypeOK, SenderPlaced, QueueEntries, Sending, SenderStates
<1> QED
  BY <1>7, <1>9, <1>10, <1>11

ReceiverRecord ==
    [state : ReceiverStates, got : [Columns -> Tiles \cup {NoTile}],
     bitmap : SUBSET Positions, last : Windows,
     rcs : Packets \cup {NoPacket}, again : BOOLEAN, timer : BOOLEAN]

InPlace(r) == \A i \in Columns : r.got[i] # NoTile => r.got[i].idx = i

(* A fragment that says where its tiles are is stored there.               *)
LEMMA StoredInPlace ==
    ASSUME NEW r \in ReceiverRecord, InPlace(r),
           NEW m \in PlacedMessages, m.type = "regular"
    PROVE  Stored(r, m) \in ReceiverRecord /\ InPlace(Stored(r, m))
<1> DEFINE got == [i \in Columns |->
                     IF i \in PlacesOf(m)
                       THEN [pkt |-> m.pkt, idx |-> m.first + i - PlaceOf(m)]
                       ELSE r.got[i]]
           bits == r.bitmap \cup PlacesOf(m)
<1>1. /\ m.pkt \in Packets /\ m.first \in Nat /\ m.n \in Nat
      /\ PlaceOf(m) = m.first /\ m.first + m.n <= nFullTiles
  BY Constants DEF PlacedMessages, UpMessages, AckReq
<1>2. PlacesOf(m) = m.first .. m.first + m.n - 1
  BY <1>1 DEF PlacesOf
<1>3. \A i \in Columns : i \in PlacesOf(m) => m.first + i - PlaceOf(m) = i
  BY <1>1, Constants DEF Columns
<1>4. \A i \in Columns : got[i] \in Tiles \cup {NoTile}
  <2> SUFFICES ASSUME NEW i \in Columns PROVE got[i] \in Tiles \cup {NoTile}
    OBVIOUS
  <2>1. CASE i \in PlacesOf(m)
    <3>1. got[i] = [pkt |-> m.pkt, idx |-> i]
      BY <1>3, <2>1
    <3> QED
      BY <1>1, <3>1 DEF Tiles, Columns
  <2>2. CASE i \notin PlacesOf(m)
    BY <2>2 DEF ReceiverRecord
  <2> QED
    BY <2>1, <2>2
<1>5. \A i \in Columns : got[i] # NoTile => got[i].idx = i
  <2> SUFFICES ASSUME NEW i \in Columns, got[i] # NoTile PROVE got[i].idx = i
    OBVIOUS
  <2>1. CASE i \in PlacesOf(m)
    <3>1. got[i] = [pkt |-> m.pkt, idx |-> i]
      BY <1>3, <2>1
    <3> QED
      BY <3>1
  <2>2. CASE i \notin PlacesOf(m)
    BY <2>2 DEF InPlace
  <2> QED
    BY <2>1, <2>2
<1>6. bits \subseteq Positions
  <2>1. PlacesOf(m) \subseteq Positions
    BY <1>1, <1>2, Constants DEF Positions
  <2> QED
    BY <2>1 DEF ReceiverRecord
<1>7. got \in [Columns -> Tiles \cup {NoTile}]
  BY <1>4
<1>8. Stored(r, m) = [r EXCEPT !.got = got, !.bitmap = bits]
  BY DEF Stored
<1> HIDE DEF got, bits
<1> QED
  BY <1>5, <1>6, <1>7, <1>8 DEF ReceiverRecord, InPlace

(* The parts of a receiver's step that matter for types and places.        *)
LEMMA WindowsReported ==
    ASSUME NEW r \in ReceiverRecord
    PROVE  Compound(WindowsWithError(r),
                    r.bitmap \cap UNION {PositionsOf(w) : w \in WindowsWithError(r)})
             \in DownMessages
<1> DEFINE windows == WindowsWithError(r)
           bits == r.bitmap \cap UNION {PositionsOf(w) : w \in windows}
<1>1. windows \subseteq Windows
  BY DEF WindowsWithError, ReceiverRecord
<1>2. bits \subseteq Positions
  BY DEF ReceiverRecord
<1> HIDE DEF windows, bits
<1>3. Compound(windows, bits) \in DownMessages
  BY <1>1, <1>2 DEF Compound, DownMessages
<1> QED
  BY <1>3 DEF windows, bits

LEMMA AcksAreMessages == Ack(1) \in DownMessages /\ Ack(3) \in DownMessages
BY DEF Ack, DownMessages, Windows

ReceiverPlaced(r) == r \in ReceiverRecord /\ InPlace(r)

LEMMA ReceiverPartIs ==
    ReceiverPart <=>
      /\ down \in Seq(DownMessages) /\ ReceiverPlaced(rcv)
      /\ delivered \in [Packets -> Nat]
BY DEF ReceiverPart, ReceiverTypeOK, TilesInPlace, ReceiverPlaced, InPlace, ReceiverRecord

LEMMA MarkedInPlace ==
    ASSUME NEW r, ReceiverPlaced(r), NEW m \in PlacedMessages, m.type = "all1"
    PROVE  ReceiverPlaced(Marked(r, m))
<1>1. m.w \in Windows /\ m.pkt \in Packets
  BY DEF PlacedMessages, UpMessages, AckReq
<1>2. (m.w + 1) * windowSize - 1 \in Positions
  <2>1. /\ (m.w + 1) * windowSize = Place(m.w) + windowSize
        /\ Place(m.w) \in Nat /\ Place(m.w) + windowSize <= 4 * windowSize
    BY <1>1, PlacesOfWindows
  <2> QED
    BY <2>1, Constants, PlacesOfWindows DEF Positions
<1> DEFINE bits == r.bitmap \cup {(m.w + 1) * windowSize - 1}
<1>3. bits \subseteq Positions
  BY <1>2 DEF ReceiverPlaced, ReceiverRecord
<1>4. Marked(r, m) = [r EXCEPT !.last = m.w, !.rcs = m.pkt, !.bitmap = bits]
  BY DEF Marked
<1> HIDE DEF bits
<1> QED
  BY <1>1, <1>3, <1>4 DEF ReceiverPlaced, ReceiverRecord, InPlace

(* Whatever a receiver does with its state, its timer and its last window. *)
LEMMA RestInPlace ==
    ASSUME NEW r, ReceiverPlaced(r)
    PROVE  /\ \A state \in ReceiverStates :
                /\ ReceiverPlaced([r EXCEPT !.state = state])
                /\ ReceiverPlaced([r EXCEPT !.state = state, !.again = TRUE])
                /\ ReceiverPlaced([r EXCEPT !.state = state, !.timer = TRUE])
           /\ ReceiverPlaced([r EXCEPT !.again = FALSE, !.timer = TRUE])
           /\ \A w \in Windows :
                ReceiverPlaced([r EXCEPT !.last = IF w > @ THEN w ELSE @])
BY DEF ReceiverPlaced, ReceiverRecord, InPlace

LEMMA ReceiverStepPlaced ==
    ASSUME PlacesInv, ReceiverStep \/ RcvDiscard \/ RcvReaped
    PROVE  up' \in Seq(PlacedMessages) /\ ReceiverPart'
<1>1. /\ up \in Seq(PlacedMessages) /\ down \in Seq(DownMessages)
      /\ ReceiverPlaced(rcv) /\ delivered \in [Packets -> Nat]
  BY ReceiverPartIs DEF PlacesInv, SenderPart
<1>2. up # <<>> => Msg \in PlacedMessages /\ Tail(up) \in Seq(PlacedMessages)
  BY <1>1 DEF Msg
<1>3. \A m \in DownMessages : down \o <<m>> \in Seq(DownMessages)
  BY <1>1
<1>4. UNCHANGED <<down, delivered>> =>
        down' \in Seq(DownMessages) /\ delivered' \in [Packets -> Nat]
  BY <1>1
<1>5. \A p : [delivered EXCEPT ![p] = @ + 1] \in [Packets -> Nat]
  <2> SUFFICES ASSUME NEW p
               PROVE  [delivered EXCEPT ![p] = @ + 1] \in [Packets -> Nat]
    OBVIOUS
  <2>1. CASE p \in Packets
    BY <1>1, <2>1
  <2>2. CASE p \notin Packets
    <3>1. [delivered EXCEPT ![p] = @ + 1] = delivered
      BY <1>1, <2>2
    <3> QED
      BY <1>1, <3>1
  <2> QED
    BY <2>1, <2>2
<1>6. \A r : Deliver(r) =>
         /\ down' = down \o <<Ack(3)>>
         /\ delivered' = [delivered EXCEPT ![r.rcs] = @ + 1]
         /\ rcv' = [r EXCEPT !.state = "END", !.timer = TRUE]
  BY DEF Deliver, SendDown
<1>7. \A r : Deliver(r) =>
         down' \in Seq(DownMessages) /\ delivered' \in [Packets -> Nat]
  BY <1>3, <1>5, <1>6, AcksAreMessages, ZenonT(60)
<1>8. \A r : ReceiverPlaced(r) /\ Deliver(r) => ReceiverPlaced(rcv')
  <2> SUFFICES ASSUME NEW r, ReceiverPlaced(r), Deliver(r)
               PROVE  ReceiverPlaced(rcv')
    OBVIOUS
  <2>1. rcv' = [r EXCEPT !.state = "END", !.timer = TRUE]
    BY <1>6
  <2>2. ReceiverPlaced([r EXCEPT !.state = "END", !.timer = TRUE])
    BY RestInPlace DEF ReceiverStates
  <2> QED
    BY <2>1, <2>2
<1>9. \A r : ReceiverPlaced(r) /\ SendCompound(r) => down' \in Seq(DownMessages)
  BY <1>3, WindowsReported DEF ReceiverPlaced, SendCompound, SendDown
<1>10. \A m \in PlacedMessages :
         m.type = "regular" => ReceiverPlaced(Stored(rcv, m))
  BY <1>1, StoredInPlace DEF ReceiverPlaced
<1>11. ReceiverPart' <=>
         /\ down' \in Seq(DownMessages) /\ ReceiverPlaced(rcv')
         /\ delivered' \in [Packets -> Nat]
  BY DEF ReceiverPart, ReceiverTypeOK, TilesInPlace, ReceiverPlaced, InPlace, ReceiverRecord
<1>12. CASE RcvFirst \/ RcvDiscard \/ RcvStranger \/ RcvCrash \/ RcvIgnores
  <2>1. /\ up # <<>> /\ up' = Tail(up) /\ UNCHANGED <<down, delivered>>
    BY <1>12 DEF RcvFirst, RcvDiscard, RcvStranger, RcvCrash, RcvIgnores,
                 AtStart, ReceiverIn, Consume, Quietly
  <2>2. ReceiverPlaced(rcv')
    <3>1. CASE RcvFirst
      BY <1>2, <1>10, <2>1, <3>1, RestInPlace, ZenonT(60) DEF RcvFirst, ReceiverStates
    <3>2. CASE RcvDiscard \/ RcvStranger \/ RcvCrash
      BY <1>1, <3>2, RestInPlace, ZenonT(60)
         DEF RcvDiscard, RcvStranger, RcvCrash, ReceiverStates
    <3>3. CASE RcvIgnores
      BY <1>1, <3>3 DEF RcvIgnores
    <3> QED
      BY <1>12, <3>1, <3>2, <3>3
  <2> QED
    BY <1>2, <1>4, <1>11, <2>1, <2>2
<1>13. CASE RcvTiles
  <2> DEFINE r == Stored(rcv, Msg)
  <2>1. /\ up # <<>> /\ up' = Tail(up) /\ delivered' = delivered
        /\ Msg.type = "regular"
        /\ \/ rcv' = [r EXCEPT !.state = "WAIT_X_ALL1"] /\ down' = down \o <<Ack(1)>>
           \/ rcv' = r /\ down' = down
    BY <1>13 DEF RcvTiles, ReceiverIn, Consume, SendDown
  <2>2. ReceiverPlaced(r)
    BY <1>2, <1>10, <2>1
  <2> HIDE DEF r
  <2>3. ReceiverPlaced(rcv')
    BY <2>1, <2>2, RestInPlace DEF ReceiverStates
  <2>4. down' \in Seq(DownMessages)
    BY <1>1, <1>3, <2>1, AcksAreMessages
  <2> QED
    BY <1>1, <1>2, <1>11, <2>1, <2>3, <2>4
<1>14. CASE RcvAll1
  <2> DEFINE r == Marked(rcv, Msg)
  <2>1. /\ up # <<>> /\ up' = Tail(up) /\ Msg.type = "all1"
        /\ \/ Deliver(r)
           \/ rcv' = r /\ Quietly
           \/ /\ rcv' = [r EXCEPT !.state = "WAIT_X_MISSING_FRAG"]
              /\ SendCompound(r) /\ UNCHANGED delivered
    BY <1>14, Zenon DEF RcvAll1, ReceiverIn, Consume
  <2>2. ReceiverPlaced(r)
    BY <1>1, <1>2, <2>1, MarkedInPlace
  <2> HIDE DEF r
  <2>3. ReceiverPlaced(rcv')
    BY <1>8, <2>1, <2>2, RestInPlace, ZenonT(60) DEF ReceiverStates
  <2>4. down' \in Seq(DownMessages) /\ delivered' \in [Packets -> Nat]
    BY <1>1, <1>4, <1>7, <1>9, <2>1, <2>2 DEF Quietly
  <2> QED
    BY <1>2, <1>11, <2>1, <2>3, <2>4
<1>15. CASE RcvMissing
  <2> DEFINE r == [Stored(rcv, Msg) EXCEPT !.last = IF Msg.w > @ THEN Msg.w ELSE @]
  <2>1. /\ up # <<>> /\ up' = Tail(up) /\ Msg.type = "regular"
        /\ \/ rcv' = r /\ Quietly
           \/ Deliver(r)
           \/ rcv' = [r EXCEPT !.state = "END", !.again = TRUE] /\ Quietly
    BY <1>15, Zenon DEF RcvMissing, ReceiverIn, Consume
  <2>2. ReceiverPlaced(r)
    <3>1. Msg.w \in Windows
      BY <1>2, <2>1 DEF PlacedMessages, UpMessages, AckReq
    <3>2. ReceiverPlaced(Stored(rcv, Msg))
      BY <1>2, <1>10, <2>1
    <3> QED
      BY <3>1, <3>2, RestInPlace
  <2> HIDE DEF r
  <2>3. ReceiverPlaced(rcv')
    BY <1>8, <2>1, <2>2, RestInPlace DEF ReceiverStates
  <2>4. down' \in Seq(DownMessages) /\ delivered' \in [Packets -> Nat]
    BY <1>1, <1>4, <1>7, <2>1, <2>2 DEF Quietly
  <2> QED
    BY <1>2, <1>11, <2>1, <2>3, <2>4
<1>16. CASE RcvAckReq
  <2>1. /\ up # <<>> /\ up' = Tail(up) /\ delivered' = delivered
        /\ \/ /\ down' = down \o <<Ack(1)>>
              /\ rcv' = [rcv EXCEPT !.state = "END", !.again = TRUE]
           \/ SendCompound(rcv) /\ rcv' = rcv
    BY <1>16 DEF RcvAckReq, ReceiverIn, Consume, SendDown
  <2>2. ReceiverPlaced(rcv')
    BY <1>1, <2>1, RestInPlace DEF ReceiverStates
  <2>3. down' \in Seq(DownMessages)
    BY <1>1, <1>3, <1>9, <2>1, AcksAreMessages
  <2> QED
    BY <1>1, <1>2, <1>11, <2>1, <2>2, <2>3
<1>17. CASE RcvLateAll1
  BY <1>1, <1>2, <1>3, <1>11, <1>17, AcksAreMessages
  DEF RcvLateAll1, ReceiverIn, Consume, SendDown
<1>18. CASE RcvAgain
  BY <1>1, <1>11, <1>18, RestInPlace DEF RcvAgain, linkVars
<1>19. CASE RcvReaped
  <2>1. PICK n \in 0 .. Len(up) : up' = SubSeq(up, n + 1, Len(up))
    BY <1>19 DEF RcvReaped
  <2>2. Len(up) \in Nat /\ \A i \in 1 .. Len(up) : up[i] \in PlacedMessages
    BY <1>1
  <2>3. up' \in Seq(PlacedMessages)
    BY <2>1, <2>2, SubSeqProperties
  <2>4. ReceiverPlaced(NoReceiver)
    <3>1. [i \in Columns |-> NoTile] \in [Columns -> Tiles \cup {NoTile}]
      OBVIOUS
    <3> QED
      BY <3>1 DEF ReceiverPlaced, ReceiverRecord, NoReceiver, InPlace,
                  ReceiverStates, Windows
  <2> QED
    BY <1>4, <1>11, <1>19, <2>3, <2>4 DEF RcvReaped
<1> QED
  BY <1>12, <1>13, <1>14, <1>15, <1>16, <1>17, <1>18, <1>19 DEF ReceiverStep

LEMMA PlacesInit == Init => PlacesInv
<1> SUFFICES ASSUME Init PROVE PlacesInv
  OBVIOUS
<1>1. /\ up = <<>> /\ down = <<>> /\ losses = 0 /\ snd = NoSender
      /\ rcv = NoReceiver /\ delivered = [p \in Packets |-> 0]
      /\ offered = {} /\ confirmed = {}
  BY DEF Init, LinkInit, SenderInit, ReceiverInit
<1>2. SenderTypeOK
  BY <1>1, Constants DEF SenderTypeOK, NoSender, SenderStates, Windows
<1>3. SenderPart
  BY <1>1, <1>2 DEF SenderPart, SenderPlaced, NoSender, Sending
<1>4. ReceiverPlaced(NoReceiver)
  <2>1. [i \in Columns |-> NoTile] \in [Columns -> Tiles \cup {NoTile}]
    OBVIOUS
  <2> QED
    BY <2>1 DEF ReceiverPlaced, ReceiverRecord, NoReceiver, InPlace,
                ReceiverStates, Windows
<1>5. ReceiverPart
  BY <1>1, <1>4, ReceiverPartIs
<1> QED
  BY <1>1, <1>3, <1>5, Constants DEF PlacesInv, HistoryPart

LEMMA PlacesStep == PlacesInv /\ [Next]_vars => PlacesInv'
<1> SUFFICES ASSUME PlacesInv, [Next]_vars PROVE PlacesInv'
  OBVIOUS
<1>1. ASSUME NEW p \in Packets, Offer(p) PROVE PlacesInv'
  <2>1. SenderPart'
    BY <1>1, SenderOpenPlaced
  <2>2. ReceiverPart'
    BY <1>1 DEF Offer, SenderOpen, PlacesInv, ReceiverPart, ReceiverTypeOK, TilesInPlace
  <2>3. HistoryPart'
    BY <1>1 DEF Offer, SenderOpen, PlacesInv, HistoryPart
  <2> QED
    BY <2>1, <2>2, <2>3 DEF PlacesInv
<1>2. CASE Sender
  <2>1. UNCHANGED <<rcv, delivered, offered, down, losses>>
    BY <1>2 DEF Sender, SenderStep, SendMore, SendLast, SendCut, SenderConfirmed,
                SenderReported, Resend, SenderIgnores, SenderEnds, linkVars
  <2>2. SenderPart'
    BY <1>2, <2>1, SendMorePlaced, SendLastPlaced, QuietSenderPlaced, ResendPlaced
    DEF Sender, SenderStep
  <2>3. ReceiverPart'
    BY <2>1 DEF PlacesInv, ReceiverPart, ReceiverTypeOK, TilesInPlace
  <2>4. confirmed' \subseteq offered
    <3>1. CASE snd.state # "END" /\ snd'.state = "END"
      <4>1. SenderConfirmed
        BY <1>2, <3>1 DEF Sender, SenderStep, SendMore, SendLast, SendCut,
             SenderReported, Resend, SenderIgnores, SenderEnds, SenderIn, Rest,
             ExecuteAgain, Reported, Advanced, PlacesInv, SenderPart, SenderTypeOK
      <4>2. snd.pkt \in offered
        BY <4>1 DEF SenderConfirmed, SenderIn, PlacesInv, SenderPart, SenderPlaced, Sending
      <4> QED
        BY <1>2, <4>2 DEF Sender, PlacesInv, HistoryPart
    <3>2. CASE ~(snd.state # "END" /\ snd'.state = "END")
      BY <1>2, <3>2 DEF Sender, PlacesInv, HistoryPart
    <3> QED
      BY <3>1, <3>2
  <2>5. HistoryPart'
    BY <2>1, <2>4 DEF PlacesInv, HistoryPart
  <2> QED
    BY <2>2, <2>3, <2>5 DEF PlacesInv
<1>3. CASE SenderTurn
  <2>1. UNCHANGED <<rcv, delivered, offered, confirmed, losses>>
    BY <1>3 DEF SenderTurn, SenderHears, SenderReaped, history, linkVars
  <2>2. SenderPart'
    BY <1>3, <2>1, QuietSenderPlaced DEF SenderTurn
  <2>3. down' \in Seq(DownMessages)
    BY <1>3 DEF SenderTurn, SenderHears, SenderReaped, linkVars, PlacesInv, ReceiverPart
  <2> QED
    BY <2>1, <2>2, <2>3
    DEF PlacesInv, ReceiverPart, ReceiverTypeOK, TilesInPlace, HistoryPart
<1>4. CASE Receiver \/ ReceiverTurn
  <2>1. UNCHANGED <<snd, offered, confirmed>>
    BY <1>4 DEF Receiver, ReceiverTurn, history
  <2>2. up' \in Seq(PlacedMessages) /\ ReceiverPart'
    BY <1>4, ReceiverStepPlaced DEF Receiver, ReceiverTurn
  <2>3. SenderPart'
    BY <2>1, <2>2 DEF PlacesInv, SenderPart, SenderTypeOK, SenderPlaced
  <2>4. losses' \in 0 .. MaxLoss
    <3>1. CASE losses' = losses
      BY <3>1 DEF PlacesInv, HistoryPart
    <3>2. CASE losses < MaxLoss /\ losses' = losses + 1
      BY <3>2, Constants DEF PlacesInv, HistoryPart
    <3> QED
      BY <1>4, <3>1, <3>2
      DEF Receiver, ReceiverTurn, ReceiverStep, RcvFirst, RcvStranger, RcvTiles,
          RcvAll1, RcvCrash, RcvMissing, RcvAckReq, RcvLateAll1, RcvIgnores,
          RcvAgain, RcvDiscard, RcvReaped, Consume, linkVars
  <2> QED
    BY <2>1, <2>2, <2>3, <2>4 DEF PlacesInv, HistoryPart
<1>5. CASE Link
  <2>1. /\ UNCHANGED <<snd, rcv, delivered, offered, confirmed>>
        /\ up' = up \/ (up # <<>> /\ up' = Tail(up))
        /\ down' = down \/ (down # <<>> /\ down' = Tail(down))
        /\ losses < MaxLoss /\ losses' = losses + 1
    <3>1. CASE LoseUp
      BY <1>5, <3>1 DEF Link, LoseUp, history
    <3>2. CASE LoseDown
      BY <1>5, <3>2 DEF Link, LoseDown, history
    <3> QED
      BY <1>5, <3>1, <3>2 DEF Link
  <2>2. up' \in Seq(PlacedMessages) /\ down' \in Seq(DownMessages)
    <3>1. up \in Seq(PlacedMessages) /\ down \in Seq(DownMessages)
      BY DEF PlacesInv, SenderPart, ReceiverPart
    <3>2. up' \in Seq(PlacedMessages)
      BY <2>1, <3>1
    <3>3. down' \in Seq(DownMessages)
      BY <2>1, <3>1
    <3> QED
      BY <3>2, <3>3
  <2>3. losses' \in 0 .. MaxLoss
    BY <2>1, Constants DEF PlacesInv, HistoryPart
  <2> QED
    BY <2>1, <2>2, <2>3
    DEF PlacesInv, SenderPart, SenderTypeOK, SenderPlaced, ReceiverPart,
        ReceiverTypeOK, TilesInPlace, HistoryPart
<1>6. CASE UNCHANGED vars
  BY <1>6
  DEF vars, linkVars, history, PlacesInv, SenderPart, SenderTypeOK, SenderPlaced,
      ReceiverPart, ReceiverTypeOK, TilesInPlace, HistoryPart
<1> QED
  BY <1>1, <1>2, <1>3, <1>4, <1>5, <1>6 DEF Next

LEMMA PlacesInvariance == Spec => []PlacesInv
<1> QED
  BY PlacesInit, PlacesStep, PTL DEF Spec

(* Every variable of both machines and of the link keeps its type.         *)
THEOREM TypeCorrect == Spec => []TypeOK
<1>1. PlacedMessages \subseteq UpMessages
  BY DEF PlacedMessages
<1>2. PlacesInv => TypeOK
  <2> SUFFICES ASSUME PlacesInv PROVE TypeOK
    OBVIOUS
  <2>1. up \in Seq(UpMessages)
    BY <1>1, SeqMonotonic DEF PlacesInv, SenderPart
  <2> QED
    BY <2>1 DEF PlacesInv, SenderPart, ReceiverPart, HistoryPart, TypeOK, LinkTypeOK
<1> QED
  BY <1>2, PlacesInvariance, PTL

(* A tile that the receiver holds is at the column it was cut from: the    *)
(* sender's counters and get_tile_ptr() agree for windows of any size.     *)
THEOREM TilesStayInPlace == Spec => []TilesInPlace
<1>1. PlacesInv => TilesInPlace
  BY DEF PlacesInv, ReceiverPart
<1> QED
  BY <1>1, PlacesInvariance, PTL

-----------------------------------------------------------------------------
(* Who may send what when.                                                 *)

(* What the All-1 is answered with: a report or the confirmation.          *)
IsAnswer(m) == m.type = "compound" \/ IsAck(m, 3)

Silent(q) == \A i \in DOMAIN q : ~IsAnswer(q[i])
Unconfirmed(q) == \A i \in DOMAIN q : ~IsAck(q[i], 3)

(* The confirmation is the last answer.                                    *)
ConfirmationLast(q) ==
    \A i, j \in DOMAIN q : IsAck(q[i], 3) /\ i < j => ~IsAnswer(q[j])

HasAgain(q) == \E i \in DOMAIN q : q[i] = Again
OneAgain(q) == \A i, j \in DOMAIN q : q[i] = Again /\ q[j] = Again => i = j

(* A request to be executed again is older than any report.                *)
AgainFirst(q) ==
    \A i, j \in DOMAIN q : q[i] = Again /\ j < i => q[j].type # "compound"

Carries(u, type) == \E i \in DOMAIN u : u[i].type = type
OneAll1(u) ==
    \A i, j \in DOMAIN u : u[i].type = "all1" /\ u[j].type = "all1" => i = j
All1sOf(u, p) == \A i \in DOMAIN u : u[i].type = "all1" => u[i].pkt = p

LEMMA SuffixOfLink ==
    ASSUME NEW S, NEW u \in Seq(S), NEW n \in 0 .. Len(u), NEW v,
           v = SubSeq(u, n + 1, Len(u))
    PROVE  /\ \A type : Carries(v, type) => Carries(u, type)
           /\ OneAll1(u) => OneAll1(v)
           /\ \A p : All1sOf(u, p) => All1sOf(v, p)
           /\ OneAll1(u) /\ n > 0 /\ u[1].type = "all1" => ~Carries(v, "all1")
<1>1. /\ Len(u) \in Nat /\ DOMAIN u = 1 .. Len(u) /\ n \in Nat
      /\ DOMAIN v = 1 .. Len(u) - n
      /\ \A i \in DOMAIN v : v[i] = u[i + n]
  <2>1. Len(u) \in Nat /\ DOMAIN u = 1 .. Len(u) /\ n \in Nat /\ n <= Len(u)
    OBVIOUS
  <2>2. \A i \in n + 1 .. Len(u) : u[i] \in S
    BY <2>1
  <2>3. /\ v \in Seq(S)
        /\ Len(v) = IF n + 1 <= Len(u) THEN Len(u) - (n + 1) + 1 ELSE 0
        /\ \A i \in 1 .. Len(u) - (n + 1) + 1 : v[i] = u[n + 1 + i - 1]
    <3> DEFINE first == n + 1
               last == Len(u)
               w == SubSeq(u, first, last)
    <3>1. first \in Int /\ last \in Int /\ \A i \in first .. last : u[i] \in S
      BY <2>1, <2>2
    <3> HIDE DEF first, last
    <3>2. /\ w \in Seq(S)
          /\ Len(w) = IF first <= last THEN last - first + 1 ELSE 0
          /\ \A i \in 1 .. last - first + 1 : w[i] = u[first + i - 1]
      BY <3>1, SubSeqProperties
    <3> QED
      BY <3>2 DEF first, last
  <2>4. Len(v) = Len(u) - n /\ DOMAIN v = 1 .. Len(v)
    <3>1. \A x \in Seq(S) : DOMAIN x = 1 .. Len(x)
      OBVIOUS
    <3>2. Len(v) = Len(u) - n
      <4>1. (IF n + 1 <= Len(u) THEN Len(u) - (n + 1) + 1 ELSE 0) = Len(u) - n
        <5>1. \A x, y \in Nat :
                y <= x => (IF y + 1 <= x THEN x - (y + 1) + 1 ELSE 0) = x - y
          OBVIOUS
        <5> QED
          BY <2>1, <5>1, Zenon
      <4> QED
        BY <2>3, <4>1, Zenon
    <3> QED
      BY <2>3, <3>1, <3>2
  <2>5. DOMAIN v = 1 .. Len(u) - n
    BY <2>4
  <2>6. \A i \in DOMAIN v : v[i] = u[i + n]
    <3> SUFFICES ASSUME NEW i \in DOMAIN v PROVE v[i] = u[i + n]
      OBVIOUS
    <3>1. i \in 1 .. Len(u) - (n + 1) + 1 /\ n + 1 + i - 1 = i + n
      BY <2>1, <2>5
    <3> QED
      BY <2>3, <3>1, Zenon
  <2> QED
    BY <2>1, <2>5, <2>6
<1>2. \A i \in DOMAIN v : i + n \in DOMAIN u /\ (n > 0 => i + n # 1)
  BY <1>1
<1>3. \A i, j \in DOMAIN v : i + n = j + n => i = j
  BY <1>1
<1>4. \A type : Carries(v, type) => Carries(u, type)
  BY <1>1, <1>2 DEF Carries
<1>5. OneAll1(u) => OneAll1(v)
  BY <1>1, <1>2, <1>3 DEF OneAll1
<1>6. \A p : All1sOf(u, p) => All1sOf(v, p)
  BY <1>1, <1>2 DEF All1sOf
<1>7. OneAll1(u) /\ n > 0 /\ u[1].type = "all1" => ~Carries(v, "all1")
  <2>1. n > 0 => 1 \in DOMAIN u
    BY <1>1
  <2> QED
    BY <1>1, <1>2, <2>1 DEF OneAll1, Carries
<1> QED
  BY <1>4, <1>5, <1>6, <1>7

LEMMA TailOfLink ==
    ASSUME NEW S, NEW u \in Seq(S), u # <<>>
    PROVE  /\ Head(u) \in S /\ Tail(u) \in Seq(S)
           /\ \A type : Carries(Tail(u), type) => Carries(u, type)
           /\ OneAll1(u) => OneAll1(Tail(u))
           /\ \A p : All1sOf(u, p) => All1sOf(Tail(u), p)
           /\ OneAll1(u) /\ Head(u).type = "all1" => ~Carries(Tail(u), "all1")
           /\ Carries(u, Head(u).type)
           /\ \A p : All1sOf(u, p) /\ Head(u).type = "all1" => Head(u).pkt = p
<1>1. /\ Len(u) \in Nat /\ Len(u) > 0 /\ Head(u) = u[1] /\ 1 \in DOMAIN u
      /\ Head(u) \in S /\ Tail(u) \in Seq(S)
  OBVIOUS
<1>2. Tail(u) = SubSeq(u, 1 + 1, Len(u)) /\ 1 \in 0 .. Len(u)
  <2>1. Tail(u) = SubSeq(u, 2, Len(u))
    BY <1>1, HeadTailProperties
  <2> QED
    BY <1>1, <2>1
<1>3. /\ \A type : Carries(Tail(u), type) => Carries(u, type)
      /\ OneAll1(u) => OneAll1(Tail(u))
      /\ \A p : All1sOf(u, p) => All1sOf(Tail(u), p)
      /\ OneAll1(u) /\ 1 > 0 /\ u[1].type = "all1" => ~Carries(Tail(u), "all1")
  BY <1>2, SuffixOfLink
<1>4. Carries(u, Head(u).type)
  BY <1>1 DEF Carries
<1>5. \A p : All1sOf(u, p) /\ Head(u).type = "all1" => Head(u).pkt = p
  BY <1>1 DEF All1sOf
<1> QED
  BY <1>1, <1>3, <1>4, <1>5

LEMMA LinkGrows ==
    ASSUME NEW A, NEW B, NEW u \in Seq(A), NEW v \in Seq(B)
    PROVE  /\ \A type : Carries(u \o v, type) <=> Carries(u, type) \/ Carries(v, type)
           /\ OneAll1(u) /\ ~Carries(v, "all1") => OneAll1(u \o v)
           /\ ~Carries(u, "all1") /\ OneAll1(v) => OneAll1(u \o v)
           /\ \A p : All1sOf(u, p) /\ All1sOf(v, p) => All1sOf(u \o v, p)
<1> DEFINE c == u \o v
<1>1. /\ Len(u) \in Nat /\ Len(v) \in Nat
      /\ DOMAIN u = 1 .. Len(u) /\ DOMAIN v = 1 .. Len(v)
      /\ DOMAIN c = 1 .. Len(u) + Len(v)
      /\ \A i \in DOMAIN u : c[i] = u[i]
      /\ \A i \in DOMAIN v : c[Len(u) + i] = v[i]
  <2>1. A \subseteq A \cup B /\ B \subseteq A \cup B
    OBVIOUS
  <2>2. u \in Seq(A \cup B) /\ v \in Seq(A \cup B)
    BY <2>1, SeqMonotonic
  <2> QED
    BY <2>2, ConcatProperties
<1>2. /\ \A i \in DOMAIN c : i \in DOMAIN u \/ i - Len(u) \in DOMAIN v
      /\ \A i \in DOMAIN c : i \in Nat /\ Len(u) + (i - Len(u)) = i
      /\ \A i \in DOMAIN u : i \in DOMAIN c
      /\ \A i \in DOMAIN v : Len(u) + i \in DOMAIN c
  BY <1>1
<1> HIDE DEF c
<1>3. \A i \in DOMAIN c :
        \/ i \in DOMAIN u /\ c[i] = u[i]
        \/ i - Len(u) \in DOMAIN v /\ c[i] = v[i - Len(u)]
  BY <1>1, <1>2
<1>4. \A i, j \in DOMAIN c : i - Len(u) = j - Len(u) => i = j
  BY <1>1, <1>2
<1>5. \A type : Carries(c, type) <=> Carries(u, type) \/ Carries(v, type)
  BY <1>1, <1>2, <1>3 DEF Carries
<1>6. OneAll1(u) /\ ~Carries(v, "all1") => OneAll1(c)
  BY <1>3 DEF OneAll1, Carries
<1>7. ~Carries(u, "all1") /\ OneAll1(v) => OneAll1(c)
  BY <1>3, <1>4 DEF OneAll1, Carries
<1>8. \A p : All1sOf(u, p) /\ All1sOf(v, p) => All1sOf(c, p)
  BY <1>3 DEF All1sOf
<1> QED
  BY <1>5, <1>6, <1>7, <1>8 DEF c

LEMMA OneMessage ==
    ASSUME NEW msg
    PROVE  /\ \A type : Carries(<<msg>>, type) <=> msg.type = type
           /\ OneAll1(<<msg>>)
           /\ \A p : All1sOf(<<msg>>, p) <=> (msg.type = "all1" => msg.pkt = p)
BY DEF Carries, OneAll1, All1sOf

LEMMA NoMessage ==
    /\ \A type : ~Carries(<<>>, type)
    /\ OneAll1(<<>>) /\ \A p : All1sOf(<<>>, p)
BY DEF Carries, OneAll1, All1sOf

LEMMA QueueShrinks ==
    ASSUME NEW S, NEW q \in Seq(S), q # <<>>
    PROVE  /\ Head(q) \in S /\ Tail(q) \in Seq(S)
           /\ Silent(q) => Silent(Tail(q)) /\ ~IsAnswer(Head(q))
           /\ Unconfirmed(q) => Unconfirmed(Tail(q)) /\ ~IsAck(Head(q), 3)
           /\ ConfirmationLast(q) => ConfirmationLast(Tail(q))
           /\ ConfirmationLast(q) /\ IsAck(Head(q), 3) => Silent(Tail(q))
           /\ OneAgain(q) => OneAgain(Tail(q))
           /\ OneAgain(q) /\ Head(q) = Again => ~HasAgain(Tail(q))
           /\ HasAgain(q) /\ Head(q) # Again => HasAgain(Tail(q))
           /\ AgainFirst(q) => AgainFirst(Tail(q))
           /\ AgainFirst(q) /\ Head(q).type = "compound" => ~HasAgain(Tail(q))
<1> DEFINE t == Tail(q)
<1>1. /\ t \in Seq(S) /\ Head(q) \in S /\ Head(q) = q[1]
      /\ 1 \in DOMAIN q /\ DOMAIN q = 1 .. Len(q) /\ Len(q) \in Nat
      /\ DOMAIN t = 1 .. Len(q) - 1
      /\ \A i \in DOMAIN t : t[i] = q[i + 1]
  BY HeadTailProperties
<1> HIDE DEF t
<1>2. \A i \in DOMAIN t : i + 1 \in DOMAIN q /\ 1 < i + 1 /\ i + 1 # 1
  BY <1>1
<1>3. \A i \in DOMAIN q : i # 1 => i - 1 \in DOMAIN t /\ t[i - 1] = q[i]
  <2> SUFFICES ASSUME NEW i \in DOMAIN q, i # 1
               PROVE  i - 1 \in DOMAIN t /\ t[i - 1] = q[i]
    OBVIOUS
  <2>1. i - 1 \in DOMAIN t /\ (i - 1) + 1 = i
    BY <1>1
  <2> QED
    BY <1>1, <2>1
<1>4. \A i, j \in DOMAIN t :
        (i + 1 = j + 1 => i = j) /\ (i < j => i + 1 < j + 1)
  BY <1>1
<1>5. Silent(q) => Silent(t) /\ ~IsAnswer(Head(q))
  BY <1>1, <1>2 DEF Silent
<1>6. Unconfirmed(q) => Unconfirmed(t) /\ ~IsAck(Head(q), 3)
  BY <1>1, <1>2 DEF Unconfirmed
<1>7. ConfirmationLast(q) => ConfirmationLast(t)
  BY <1>1, <1>2, <1>4 DEF ConfirmationLast
<1>8. ConfirmationLast(q) /\ IsAck(Head(q), 3) => Silent(t)
  BY <1>1, <1>2 DEF ConfirmationLast, Silent
<1>9. OneAgain(q) => OneAgain(t)
  BY <1>1, <1>2, <1>4 DEF OneAgain
<1>10. OneAgain(q) /\ Head(q) = Again => ~HasAgain(t)
  BY <1>1, <1>2 DEF OneAgain, HasAgain
<1>11. HasAgain(q) /\ Head(q) # Again => HasAgain(t)
  BY <1>1, <1>3 DEF HasAgain
<1>12. AgainFirst(q) => AgainFirst(t)
  BY <1>1, <1>2, <1>4 DEF AgainFirst
<1>13. AgainFirst(q) /\ Head(q).type = "compound" => ~HasAgain(t)
  BY <1>1, <1>2 DEF AgainFirst, HasAgain
<1> QED
  BY <1>1, <1>5, <1>6, <1>7, <1>8, <1>9, <1>10, <1>11, <1>12, <1>13 DEF t

LEMMA QueueGrows ==
    ASSUME NEW S, NEW q \in Seq(S), NEW msg \in S
    PROVE  LET a == Append(q, msg)
           IN  /\ Silent(q) /\ ~IsAnswer(msg) => Silent(a)
               /\ Unconfirmed(q) /\ ~IsAck(msg, 3) => Unconfirmed(a)
               /\ ConfirmationLast(q) /\ ~IsAnswer(msg) => ConfirmationLast(a)
               /\ Unconfirmed(q) => ConfirmationLast(a)
               /\ OneAgain(q) /\ msg # Again => OneAgain(a)
               /\ ~HasAgain(q) => OneAgain(a)
               /\ HasAgain(q) \/ msg = Again => HasAgain(a)
               /\ ~HasAgain(q) /\ msg # Again => ~HasAgain(a)
               /\ AgainFirst(q) /\ msg # Again => AgainFirst(a)
<1> DEFINE a == Append(q, msg)
           k == Len(q) + 1
<1>1. /\ a \in Seq(S) /\ Len(q) \in Nat /\ DOMAIN q = 1 .. Len(q)
      /\ DOMAIN a = 1 .. k /\ k \in Nat
      /\ \A i \in 1 .. Len(q) : a[i] = q[i]
      /\ a[k] = msg
  BY AppendProperties
<1>2. /\ \A i \in DOMAIN a : i \in DOMAIN q \/ i = k
      /\ \A i \in DOMAIN q : i \in DOMAIN a /\ i < k /\ ~(k < i)
      /\ k \in DOMAIN a /\ ~(k < k)
  BY <1>1
<1>3. \A i \in DOMAIN q : a[i] = q[i]
  BY <1>1
<1> HIDE DEF a, k
<1>4. Silent(q) /\ ~IsAnswer(msg) => Silent(a)
  BY <1>1, <1>2, <1>3 DEF Silent
<1>5. Unconfirmed(q) /\ ~IsAck(msg, 3) => Unconfirmed(a)
  BY <1>1, <1>2, <1>3 DEF Unconfirmed
<1>6. ConfirmationLast(q) /\ ~IsAnswer(msg) => ConfirmationLast(a)
  BY <1>1, <1>2, <1>3 DEF ConfirmationLast
<1>7. Unconfirmed(q) => ConfirmationLast(a)
  BY <1>1, <1>2, <1>3 DEF ConfirmationLast, Unconfirmed
<1>8. OneAgain(q) /\ msg # Again => OneAgain(a)
  BY <1>1, <1>2, <1>3 DEF OneAgain
<1>9. ~HasAgain(q) => OneAgain(a)
  BY <1>1, <1>2, <1>3 DEF OneAgain, HasAgain
<1>10. HasAgain(q) \/ msg = Again => HasAgain(a)
  BY <1>1, <1>2, <1>3 DEF HasAgain
<1>11. ~HasAgain(q) /\ msg # Again => ~HasAgain(a)
  BY <1>1, <1>2, <1>3 DEF HasAgain
<1>12. AgainFirst(q) /\ msg # Again => AgainFirst(a)
  BY <1>1, <1>2, <1>3 DEF AgainFirst
<1> QED
  BY <1>4, <1>5, <1>6, <1>7, <1>8, <1>9, <1>10, <1>11, <1>12 DEF a

LEMMA WithoutAgain ==
    \A q : ~HasAgain(q) => OneAgain(q) /\ AgainFirst(q)
BY DEF HasAgain, OneAgain, AgainFirst

LEMMA SilentIs ==
    \A q : Silent(q) => Unconfirmed(q) /\ ConfirmationLast(q)
BY DEF Silent, Unconfirmed, ConfirmationLast, IsAnswer

(* What a machine's fragments add to the link.                             *)
LEMMA FragmentsCarry ==
    ASSUME NEW s, NEW n
    PROVE  LET ms == LastFragments(s, n)
           IN  /\ \E S : ms \in Seq(S)
               /\ OneAll1(ms) /\ All1sOf(ms, s.pkt) /\ ~Carries(ms, "req")
<1> DEFINE f == Fragment(s, n)
           a == All1(s.pkt, s.window)
           rest == IF s.window = nWindows - 1 THEN <<a>> ELSE <<>>
<1>1. f.type = "regular" /\ a.type = "all1" /\ a.pkt = s.pkt
  BY DEF Fragment, RegularFragment, All1
<1> HIDE DEF f, a
<1>2. <<f>> \in Seq({f}) /\ rest \in Seq({a})
  <2>1. <<f>> \in Seq({f}) /\ <<a>> \in Seq({a}) /\ <<>> \in Seq({a})
    OBVIOUS
  <2> QED
    BY <2>1, Zenon
<1>3. /\ ~Carries(<<f>>, "all1") /\ ~Carries(<<f>>, "req") /\ All1sOf(<<f>>, s.pkt)
      /\ ~Carries(rest, "req") /\ OneAll1(rest) /\ All1sOf(rest, s.pkt)
  BY <1>1, OneMessage, NoMessage
<1> HIDE DEF rest
<1> DEFINE ms == <<f>> \o rest
<1>4. ms \in Seq({f, a})
  <2>1. /\ <<f>> \in Seq({f, a}) /\ {a} \subseteq {f, a}
    OBVIOUS
  <2>2. rest \in Seq({f, a})
    BY <1>2, <2>1, SeqMonotonic
  <2> QED
    BY <2>1, <2>2, ConcatProperties
<1>5. OneAll1(ms) /\ All1sOf(ms, s.pkt) /\ ~Carries(ms, "req")
  BY <1>2, <1>3, LinkGrows
<1>6. LastFragments(s, n) = ms
  BY DEF LastFragments, ms, rest, f, a
<1> HIDE DEF ms
<1> QED
  BY <1>4, <1>5, <1>6

LEMMA ResendCarries ==
    ~Carries(ResendFragment, "all1") /\ \E S : ResendFragment \in Seq(S)
<1>1. CASE Missing(snd.bitmap) = {}
  <2>1. ResendFragment = <<>>
    BY <1>1 DEF ResendFragment
  <2> QED
    BY <2>1, NoMessage
<1>2. CASE Missing(snd.bitmap) # {}
  <2> DEFINE f == RegularFragment(snd.pkt, FrontWindow,
                           windowSize - 1 - (FirstMissing % windowSize),
                           FirstMissing, Cardinality(Run))
  <2>1. ResendFragment = <<f>> /\ f.type = "regular"
    BY <1>2 DEF ResendFragment, RegularFragment
  <2> HIDE DEF f
  <2>2. <<f>> \in Seq({f})
    OBVIOUS
  <2> QED
    BY <2>1, <2>2, OneMessage
<1> QED
  BY <1>1, <1>2

(* What the sender's step may add to the link.                             *)
LEMMA SenderSends ==
    ASSUME PlacesInv, SenderStep
    PROVE  /\ Carries(up', "all1") =>
                \/ Carries(up, "all1")
                \/ snd.state = "SEND" /\ snd'.state = "WAIT_x_SESSION_ACK"
           /\ ~Carries(up, "all1") \/ (OneAll1(up) /\ snd.state # "SEND") =>
                OneAll1(up')
           /\ All1sOf(up, snd.pkt) => All1sOf(up', snd.pkt)
           /\ Carries(up', "req") =>
                Carries(up, "req") \/ snd.state = "RESEND_MISSING_TILES"
<1>1. up \in Seq(PlacedMessages)
  BY DEF PlacesInv, SenderPart
<1>2. ~Carries(up, "all1") => OneAll1(up)
  BY DEF Carries, OneAll1
<1>3. CASE SendMore
  <2> DEFINE f == Fragment(snd, payloadTiles)
  <2>1. up' = up \o <<f>> /\ f.type = "regular" /\ <<f>> \in Seq({f})
    BY <1>3 DEF SendMore, SendUp, Fragment, RegularFragment
  <2> HIDE DEF f
  <2> QED
    BY <1>1, <1>2, <2>1, LinkGrows, OneMessage
<1>4. CASE SendLast
  <2> DEFINE ms == LastFragments(snd, nFullTiles - snd.ptr)
  <2>1. /\ up' = up \o ms /\ snd.state = "SEND"
        /\ snd'.state = "WAIT_x_SESSION_ACK"
    <3>1. up' = up \o ms /\ snd.state = "SEND"
      BY <1>4 DEF SendLast, SendUp, SenderIn
    <3>2. snd'.state = "WAIT_x_SESSION_ACK"
      BY <1>4 DEF SendLast, Rest, PlacesInv, SenderPart, SenderTypeOK
    <3> QED
      BY <3>1, <3>2
  <2>2. /\ \E S : ms \in Seq(S)
        /\ OneAll1(ms) /\ All1sOf(ms, snd.pkt) /\ ~Carries(ms, "req")
    BY FragmentsCarry
  <2> HIDE DEF ms
  <2>3. PICK S : ms \in Seq(S)
    BY <2>2
  <2> QED
    BY <1>1, <2>1, <2>2, <2>3, LinkGrows
<1>5. CASE SendCut
  <2> DEFINE a == All1(snd.pkt, snd.window)
  <2>1. /\ up' = up \o <<a>> /\ a.type = "all1" /\ a.pkt = snd.pkt
        /\ <<a>> \in Seq({a}) /\ snd.state = "SEND"
    BY <1>5 DEF SendCut, SendUp, SenderIn, All1
  <2>2. snd'.state = "WAIT_x_SESSION_ACK"
    BY <1>5 DEF SendCut, Rest, PlacesInv, SenderPart, SenderTypeOK
  <2> HIDE DEF a
  <2> QED
    BY <1>1, <1>2, <2>1, <2>2, LinkGrows, OneMessage
<1>6. CASE Resend
  <2>1. PICK S : ResendFragment \in Seq(S)
    BY ResendCarries
  <2>2. <<AckReq>> \in Seq({AckReq}) /\ AckReq.type = "req"
    BY DEF AckReq
  <2>3. ~Carries(<<AckReq>>, "all1")
    BY <2>2, OneMessage
  <2> DEFINE more == up \o ResendFragment
             ms == ResendFragment \o <<AckReq>>
             last == up \o ms
  <2>4. (up' = more \/ up' = last) /\ snd.state = "RESEND_MISSING_TILES"
    BY <1>6, Zenon DEF Resend, SendUp, SenderIn
  <2>5. ~Carries(ms, "all1")
    BY <2>1, <2>2, <2>3, ResendCarries, LinkGrows
  <2>6. \E T : ms \in Seq(T)
    <3> DEFINE T == S \cup {AckReq}
    <3>1. S \subseteq T /\ {AckReq} \subseteq T
      OBVIOUS
    <3> HIDE DEF T
    <3>2. ResendFragment \in Seq(T) /\ <<AckReq>> \in Seq(T)
      BY <2>1, <2>2, <3>1, SeqMonotonic
    <3> QED
      BY <3>2, ConcatProperties
  <2> HIDE DEF ms
  <2>7. PICK T : ms \in Seq(T)
    BY <2>6
  <2>8. /\ Carries(more, "all1") => Carries(up, "all1")
        /\ Carries(last, "all1") => Carries(up, "all1")
        /\ OneAll1(up) => OneAll1(more) /\ OneAll1(last)
    BY <1>1, <2>1, <2>5, <2>7, ResendCarries, LinkGrows
  <2>9. All1sOf(up, snd.pkt) => All1sOf(more, snd.pkt) /\ All1sOf(last, snd.pkt)
    <3>1. All1sOf(ResendFragment, snd.pkt) /\ All1sOf(ms, snd.pkt)
      BY <2>5, ResendCarries DEF All1sOf, Carries
    <3> QED
      BY <1>1, <2>1, <2>7, <3>1, LinkGrows
  <2> HIDE DEF more, last
  <2> QED
    BY <1>2, <2>4, <2>8, <2>9
<1>7. CASE SenderConfirmed \/ SenderReported \/ SenderIgnores \/ SenderEnds
  <2>1. up' = up
    BY <1>7 DEF SenderConfirmed, SenderReported, SenderIgnores, SenderEnds, linkVars
  <2> QED
    BY <1>2, <2>1
<1> QED
  BY <1>3, <1>4, <1>5, <1>6, <1>7 DEF SenderStep

Busy == {"WAIT_x_SESSION_ACK", "RESEND_MISSING_TILES"}
Misses == rcv.state = "WAIT_X_MISSING_FRAG"

(* The All-1 is one question: while it is under way nothing answers it,    *)
(* and its last answer is the confirmation.                                *)
Exchange ==
    /\ snd.state \notin Busy => Silent(down) /\ Silent(snd.queue) /\ ~Misses
    /\ Carries(up, "all1") =>
         /\ snd.state = "WAIT_x_SESSION_ACK" /\ OneAll1(up)
         /\ Silent(down) /\ Silent(snd.queue) /\ ~Misses
    /\ Misses => Unconfirmed(down) /\ Unconfirmed(snd.queue)
    /\ ConfirmationLast(down) /\ ConfirmationLast(snd.queue)
    /\ Unconfirmed(snd.queue) \/ Silent(down)

(* The machine's requests to be executed again.                            *)
Again1 ==
    /\ snd.state \in {"SEND", "RESEND_MISSING_TILES"} =>
         OneAgain(snd.queue) /\ HasAgain(snd.queue)
    /\ snd.state = "WAIT_x_SESSION_ACK" =>
         OneAgain(snd.queue) /\ AgainFirst(snd.queue)

ExchangeInv == PlacesInv /\ Exchange /\ Again1

(* What the messages are.                                                  *)
LEMMA KindsOfMessages ==
    /\ ~IsAnswer(Again) /\ ~IsAck(Again, 3) /\ Again.type # "compound"
    /\ ~IsAnswer(Ack(1)) /\ ~IsAck(Ack(1), 3)
    /\ IsAck(Ack(3), 3)
    /\ \A windows, bitmap : ~IsAck(Compound(windows, bitmap), 3)
    /\ \A m \in DownMessages : m # Again
    /\ \A m : IsAck(m, 3) => IsAnswer(m)
    /\ \A m : IsAck(m, 1) => m.type # "compound" /\ m # Again
    /\ \A m : IsCompound(m) => m.type = "compound" /\ IsAnswer(m) /\ m # Again
BY DEF IsAnswer, IsAck, Again, Ack, Compound, IsCompound, DownMessages

LEMMA Shapes ==
    ASSUME PlacesInv
    PROVE  /\ up \in Seq(PlacedMessages) /\ down \in Seq(DownMessages)
           /\ snd.queue \in Seq(QueueEntries)
BY DEF PlacesInv, SenderPart, ReceiverPart, SenderTypeOK, QueueEntries

(* What a machine leaves in its queue, with or without a new request.      *)
LEMMA QueueAfter ==
    ASSUME ExchangeInv, snd.queue # <<>>
    PROVE  LET rest == Tail(snd.queue)
               more == Append(rest, Again)
           IN  /\ Silent(snd.queue) => Silent(rest) /\ Silent(more)
               /\ Unconfirmed(snd.queue) => Unconfirmed(rest) /\ Unconfirmed(more)
               /\ ConfirmationLast(rest) /\ ConfirmationLast(more)
               /\ IsAck(Event, 3) => Silent(rest) /\ Silent(more)
               /\ HasAgain(more)
               /\ ~HasAgain(rest) => OneAgain(more)
               /\ OneAgain(snd.queue) => OneAgain(rest)
               /\ OneAgain(snd.queue) /\ Event = Again =>
                    ~HasAgain(rest) /\ OneAgain(more)
               /\ HasAgain(snd.queue) /\ Event # Again => HasAgain(rest)
               /\ AgainFirst(snd.queue) => AgainFirst(rest)
               /\ AgainFirst(snd.queue) /\ Event.type = "compound" =>
                    ~HasAgain(rest) /\ OneAgain(more)
               /\ ~HasAgain(rest) => AgainFirst(rest) /\ OneAgain(rest)
               /\ Silent(snd.queue) => ~IsAnswer(Event)
               /\ Unconfirmed(snd.queue) => ~IsAck(Event, 3)
<1> DEFINE rest == Tail(snd.queue)
           more == Append(rest, Again)
<1>1. snd.queue \in Seq(QueueEntries) /\ Again \in QueueEntries
  BY Shapes DEF ExchangeInv, QueueEntries
<1>2. ConfirmationLast(snd.queue)
  BY DEF ExchangeInv, Exchange
<1>3. /\ rest \in Seq(QueueEntries)
      /\ Silent(snd.queue) => Silent(rest) /\ ~IsAnswer(Event)
      /\ Unconfirmed(snd.queue) => Unconfirmed(rest) /\ ~IsAck(Event, 3)
      /\ ConfirmationLast(rest)
      /\ IsAck(Event, 3) => Silent(rest)
      /\ OneAgain(snd.queue) => OneAgain(rest)
      /\ OneAgain(snd.queue) /\ Event = Again => ~HasAgain(rest)
      /\ HasAgain(snd.queue) /\ Event # Again => HasAgain(rest)
      /\ AgainFirst(snd.queue) => AgainFirst(rest)
      /\ AgainFirst(snd.queue) /\ Event.type = "compound" => ~HasAgain(rest)
  BY <1>1, <1>2, QueueShrinks DEF Event
<1> HIDE DEF rest
<1>4. /\ Silent(rest) => Silent(more)
      /\ Unconfirmed(rest) => Unconfirmed(more)
      /\ ConfirmationLast(more)
      /\ HasAgain(more)
      /\ ~HasAgain(rest) => OneAgain(more)
  BY <1>1, <1>3, QueueGrows, KindsOfMessages
<1>5. ~HasAgain(rest) => AgainFirst(rest) /\ OneAgain(rest)
  BY WithoutAgain
<1> HIDE DEF more
<1>6. /\ Silent(snd.queue) => Silent(rest) /\ Silent(more)
      /\ Unconfirmed(snd.queue) => Unconfirmed(rest) /\ Unconfirmed(more)
      /\ ConfirmationLast(rest) /\ ConfirmationLast(more)
      /\ IsAck(Event, 3) => Silent(rest) /\ Silent(more)
      /\ HasAgain(more)
      /\ ~HasAgain(rest) => OneAgain(more)
      /\ OneAgain(snd.queue) => OneAgain(rest)
      /\ OneAgain(snd.queue) /\ Event = Again =>
           ~HasAgain(rest) /\ OneAgain(more)
      /\ HasAgain(snd.queue) /\ Event # Again => HasAgain(rest)
      /\ AgainFirst(snd.queue) => AgainFirst(rest)
      /\ AgainFirst(snd.queue) /\ Event.type = "compound" =>
           ~HasAgain(rest) /\ OneAgain(more)
      /\ ~HasAgain(rest) => AgainFirst(rest) /\ OneAgain(rest)
      /\ Silent(snd.queue) => ~IsAnswer(Event)
      /\ Unconfirmed(snd.queue) => ~IsAck(Event, 3)
  BY <1>3, <1>4, <1>5
<1> QED
  BY <1>6 DEF rest, more

(* The sender's steps, as far as the exchange goes.                        *)
LEMMA SenderStepShape ==
    ASSUME PlacesInv, SenderStep
    PROVE  /\ snd.queue # <<>> /\ down' = down
           /\ snd'.pkt = snd.pkt
           /\ LET rest == Tail(snd.queue)
                  more == Append(rest, Again)
              IN  \/ /\ snd.state = "SEND" /\ snd'.state = "SEND"
                     /\ Event = Again /\ snd'.queue = more
                  \/ /\ snd.state = "SEND" /\ snd'.state = "WAIT_x_SESSION_ACK"
                     /\ Event = Again /\ snd'.queue = rest
                  \/ /\ snd.state = "SEND" /\ snd'.state = "WAIT_x_SESSION_ACK"
                     /\ IsAck(Event, 1) /\ snd'.queue = rest
                  \/ /\ snd.state \in Busy /\ snd'.state = "END"
                     /\ IsAck(Event, 3) /\ snd'.queue = more /\ up' = up
                  \/ /\ snd.state = "WAIT_x_SESSION_ACK"
                     /\ snd'.state = "RESEND_MISSING_TILES"
                     /\ IsCompound(Event) /\ snd'.queue = more /\ up' = up
                  \/ /\ snd.state = "RESEND_MISSING_TILES"
                     /\ snd'.state = "RESEND_MISSING_TILES"
                     /\ Event = Again /\ snd'.queue = more
                  \/ /\ snd.state = "RESEND_MISSING_TILES"
                     /\ snd'.state = "WAIT_x_SESSION_ACK"
                     /\ Event = Again /\ snd'.queue = rest
                  \/ /\ snd'.state = snd.state /\ snd'.queue = rest /\ up' = up
                     /\ snd.state \in {"SEND", "RESEND_MISSING_TILES"} =>
                          Event # Again
                  \/ /\ snd.state = "END" /\ snd'.state = "dead"
                     /\ snd'.queue = rest /\ up' = up
<1>1. snd \in [state : SenderStates, pkt : Packets \cup {NoPacket},
             ptr : 0 .. nFullTiles, window : Windows,
             fcn : 0 .. windowSize - 1, bitmap : SUBSET Positions,
             errors : SUBSET Windows, queue : Seq(DownMessages \cup {Again})]
  BY DEF PlacesInv, SenderPart, SenderTypeOK
<1> DEFINE rest == Tail(snd.queue)
           more == Append(rest, Again)
<1>2. CASE SendMore
  <2>1. /\ snd.queue # <<>> /\ down' = down /\ snd.state = "SEND" /\ Event = Again
        /\ snd' = ExecuteAgain(Advanced(Rest, payloadTiles))
    BY <1>2 DEF SendMore, SenderIn
  <2>2. /\ Advanced(Rest, payloadTiles).state = "SEND"
        /\ Advanced(Rest, payloadTiles).pkt = snd.pkt
        /\ Advanced(Rest, payloadTiles).queue = rest
        /\ snd'.queue = more /\ snd'.state = "SEND" /\ snd'.pkt = snd.pkt
    BY <1>1, <2>1 DEF Advanced, Rest, ExecuteAgain
  <2> QED
    BY <2>1, <2>2
<1>3. CASE SendLast
  BY <1>1, <1>3 DEF SendLast, SenderIn, Rest
<1>4. CASE SendCut
  BY <1>1, <1>4 DEF SendCut, SenderIn, Rest
<1>5. CASE SenderConfirmed
  BY <1>1, <1>5 DEF SenderConfirmed, SenderIn, Rest, ExecuteAgain, Confirms, linkVars, Busy
<1>6. CASE SenderReported
  BY <1>1, <1>6 DEF SenderReported, SenderIn, Rest, ExecuteAgain, Reported, linkVars
<1>7. CASE Resend
  <2>1. snd.queue # <<>> /\ down' = down /\ snd.state = "RESEND_MISSING_TILES"
        /\ Event = Again
    BY <1>7 DEF Resend, SenderIn
  <2> DEFINE marked == snd.bitmap \cup
                         (IF Missing(snd.bitmap) = {} THEN {} ELSE Run)
             s == [Rest EXCEPT !.bitmap = marked]
             left == WindowsLeft(snd)
  <2>2. \/ snd' = ExecuteAgain(s)
        \/ snd' = ExecuteAgain([s EXCEPT !.errors = left])
        \/ snd' = [s EXCEPT !.errors = {}, !.state = "WAIT_x_SESSION_ACK"]
    BY <1>7, Zenon DEF Resend
  <2> HIDE DEF marked, left
  <2>3. \/ /\ snd'.queue = more /\ snd'.state = snd.state /\ snd'.pkt = snd.pkt
        \/ /\ snd'.queue = rest /\ snd'.state = "WAIT_x_SESSION_ACK"
           /\ snd'.pkt = snd.pkt
    BY <1>1, <2>2 DEF Rest, ExecuteAgain
  <2> QED
    BY <2>1, <2>3
<1>8. CASE SenderIgnores
  <2>1. snd.state \in {"SEND", "RESEND_MISSING_TILES"} => Event # Again
    BY <1>8 DEF SenderIgnores, Ignored
  <2> QED
    BY <1>1, <1>8, <2>1 DEF SenderIgnores, Rest, linkVars
<1>9. CASE SenderEnds
  BY <1>1, <1>9 DEF SenderEnds, SenderIn, Rest, linkVars
<1> QED
  BY <1>2, <1>3, <1>4, <1>5, <1>6, <1>7, <1>8, <1>9 DEF SenderStep

LEMMA SenderExchanges ==
    ASSUME ExchangeInv, Sender
    PROVE  Exchange' /\ Again1'
<1> DEFINE rest == Tail(snd.queue)
           more == Append(rest, Again)
<1>1. PlacesInv /\ SenderStep /\ Exchange /\ Again1 /\ rcv' = rcv
  BY DEF ExchangeInv, Sender
<1>2. snd.queue # <<>> /\ down' = down
  BY <1>1, SenderStepShape
<1>3. Misses' <=> Misses
  BY <1>1 DEF Misses
<1>4. /\ Silent(snd.queue) => Silent(rest) /\ Silent(more)
      /\ Unconfirmed(snd.queue) => Unconfirmed(rest) /\ Unconfirmed(more)
      /\ ConfirmationLast(rest) /\ ConfirmationLast(more)
      /\ IsAck(Event, 3) => Silent(rest) /\ Silent(more)
      /\ HasAgain(more)
      /\ ~HasAgain(rest) => OneAgain(more)
      /\ OneAgain(snd.queue) => OneAgain(rest)
      /\ OneAgain(snd.queue) /\ Event = Again =>
           ~HasAgain(rest) /\ OneAgain(more)
      /\ HasAgain(snd.queue) /\ Event # Again => HasAgain(rest)
      /\ AgainFirst(snd.queue) => AgainFirst(rest)
      /\ AgainFirst(snd.queue) /\ Event.type = "compound" =>
           ~HasAgain(rest) /\ OneAgain(more)
      /\ ~HasAgain(rest) => AgainFirst(rest) /\ OneAgain(rest)
      /\ Silent(snd.queue) => ~IsAnswer(Event)
      /\ Unconfirmed(snd.queue) => ~IsAck(Event, 3)
  BY <1>2, QueueAfter
<1>5. /\ Carries(up', "all1") =>
           \/ Carries(up, "all1")
           \/ snd.state = "SEND" /\ snd'.state = "WAIT_x_SESSION_ACK"
      /\ ~Carries(up, "all1") \/ (OneAll1(up) /\ snd.state # "SEND") =>
           OneAll1(up')
  BY <1>1, SenderSends
<1>6. /\ IsCompound(Event) => IsAnswer(Event) /\ Event.type = "compound"
      /\ IsAck(Event, 3) => IsAnswer(Event)
      /\ IsAck(Event, 1) => Event # Again
  BY KindsOfMessages
<1>7. \/ /\ snd.state = "SEND" /\ snd'.state = "SEND"
         /\ Event = Again /\ snd'.queue = more
      \/ /\ snd.state = "SEND" /\ snd'.state = "WAIT_x_SESSION_ACK"
         /\ Event = Again /\ snd'.queue = rest
      \/ /\ snd.state = "SEND" /\ snd'.state = "WAIT_x_SESSION_ACK"
         /\ IsAck(Event, 1) /\ snd'.queue = rest
      \/ /\ snd.state \in Busy /\ snd'.state = "END"
         /\ IsAck(Event, 3) /\ snd'.queue = more /\ up' = up
      \/ /\ snd.state = "WAIT_x_SESSION_ACK"
         /\ snd'.state = "RESEND_MISSING_TILES"
         /\ IsCompound(Event) /\ snd'.queue = more /\ up' = up
      \/ /\ snd.state = "RESEND_MISSING_TILES"
         /\ snd'.state = "RESEND_MISSING_TILES"
         /\ Event = Again /\ snd'.queue = more
      \/ /\ snd.state = "RESEND_MISSING_TILES"
         /\ snd'.state = "WAIT_x_SESSION_ACK"
         /\ Event = Again /\ snd'.queue = rest
      \/ /\ snd'.state = snd.state /\ snd'.queue = rest /\ up' = up
         /\ snd.state \in {"SEND", "RESEND_MISSING_TILES"} => Event # Again
      \/ /\ snd.state = "END" /\ snd'.state = "dead"
         /\ snd'.queue = rest /\ up' = up
  BY <1>1, SenderStepShape
<1> HIDE DEF rest, more
<1>8. snd.state = "SEND" => Silent(snd.queue) /\ Silent(down) /\ ~Misses
                              /\ ~Carries(up, "all1")
  BY <1>1 DEF Exchange, Busy
<1>9. CASE snd.state = "SEND" /\ snd'.state = "SEND" /\ Event = Again
           /\ snd'.queue = more
  BY <1>1, <1>2, <1>3, <1>4, <1>5, <1>8, <1>9 DEF Exchange, Again1, Busy
<1>10. CASE /\ snd.state = "SEND" /\ snd'.state = "WAIT_x_SESSION_ACK"
            /\ Event = Again \/ IsAck(Event, 1)
            /\ snd'.queue = rest
  <2>1. OneAgain(rest) /\ AgainFirst(rest)
    <3>1. Silent(snd.queue) => AgainFirst(snd.queue)
      BY DEF Silent, AgainFirst, IsAnswer
    <3> QED
      BY <1>1, <1>4, <1>8, <3>1, <1>10 DEF Again1
  <2> QED
    BY <1>1, <1>2, <1>3, <1>4, <1>5, <1>8, <1>10, <2>1 DEF Exchange, Again1, Busy
<1>11. CASE snd.state \in Busy /\ snd'.state = "END" /\ IsAck(Event, 3)
            /\ snd'.queue = more /\ up' = up
  BY <1>1, <1>2, <1>3, <1>4, <1>6, <1>11 DEF Exchange, Again1, Busy
<1>12. CASE /\ snd.state = "WAIT_x_SESSION_ACK"
            /\ snd'.state = "RESEND_MISSING_TILES"
            /\ IsCompound(Event) /\ snd'.queue = more /\ up' = up
  BY <1>1, <1>2, <1>3, <1>4, <1>6, <1>12 DEF Exchange, Again1, Busy
<1>13. CASE /\ snd.state = "RESEND_MISSING_TILES" /\ Event = Again
            /\ \/ snd'.state = "RESEND_MISSING_TILES" /\ snd'.queue = more
               \/ snd'.state = "WAIT_x_SESSION_ACK" /\ snd'.queue = rest
  BY <1>1, <1>2, <1>3, <1>4, <1>5, <1>13 DEF Exchange, Again1, Busy
<1>14. CASE /\ snd'.state = snd.state /\ snd'.queue = rest /\ up' = up
            /\ snd.state \in {"SEND", "RESEND_MISSING_TILES"} => Event # Again
  BY <1>1, <1>2, <1>3, <1>4, <1>14 DEF Exchange, Again1, Busy
<1>15. CASE /\ snd.state = "END" /\ snd'.state = "dead"
            /\ snd'.queue = rest /\ up' = up
  BY <1>1, <1>2, <1>3, <1>4, <1>15 DEF Exchange, Again1, Busy
<1> QED
  BY <1>7, <1>9, <1>10, <1>11, <1>12, <1>13, <1>14, <1>15

(* A session opens where the last one left nothing unanswered.             *)
LEMMA OfferSends ==
    ASSUME PlacesInv, NEW p \in Packets, Offer(p)
    PROVE  /\ snd.state = "none" /\ snd'.pkt = p /\ down' = down
           /\ \/ snd'.state = "SEND" /\ snd'.queue = <<Again>>
                 /\ (Carries(up', "all1") => Carries(up, "all1"))
              \/ snd'.state = "WAIT_x_SESSION_ACK" /\ snd'.queue = <<>>
           /\ Carries(up', "req") => Carries(up, "req")
           /\ ~Carries(up, "all1") => OneAll1(up') /\ All1sOf(up', p)
<1> DEFINE s == [NoSender EXCEPT !.pkt = p]
           remaining == IF nWindows = 1 THEN nFullTiles ELSE windowSize
<1>1. snd.state = "none" /\ down' = down /\ up \in Seq(PlacedMessages) /\ s.pkt = p
  BY DEF Offer, SenderOpen, PlacesInv, SenderPart, NoSender
<1>2. ~Carries(up, "all1") => OneAll1(up) /\ All1sOf(up, p)
  BY DEF Carries, OneAll1, All1sOf
<1>3. CASE remaining > payloadTiles
  <2> DEFINE f == Fragment(s, payloadTiles)
  <2>1. up' = up \o <<f>> /\ f.type = "regular" /\ <<f>> \in Seq({f})
    BY <1>3 DEF Offer, SenderOpen, SendUp, Fragment, RegularFragment
  <2>2. snd' = [s EXCEPT !.state = "SEND", !.ptr = payloadTiles,
                         !.fcn = @ - payloadTiles, !.queue = <<Again>>]
    BY <1>3 DEF Offer, SenderOpen
  <2>3. snd'.state = "SEND" /\ snd'.queue = <<Again>> /\ snd'.pkt = p
    BY <2>2 DEF NoSender
  <2> HIDE DEF f
  <2> QED
    BY <1>1, <1>2, <2>1, <2>3, LinkGrows, OneMessage
<1>4. CASE ~(remaining > payloadTiles)
  <2> DEFINE ms == LastFragments(s, remaining)
  <2>1. /\ \E S : ms \in Seq(S)
        /\ OneAll1(ms) /\ All1sOf(ms, p) /\ ~Carries(ms, "req")
    BY <1>1, FragmentsCarry
  <2>2. up' = up \o ms
    BY <1>4 DEF Offer, SenderOpen, SendUp
  <2>3. snd' = [s EXCEPT !.state = "WAIT_x_SESSION_ACK", !.ptr = remaining]
    BY <1>4 DEF Offer, SenderOpen
  <2>4. snd'.state = "WAIT_x_SESSION_ACK" /\ snd'.queue = <<>> /\ snd'.pkt = p
    BY <2>3 DEF NoSender
  <2> HIDE DEF ms
  <2>5. PICK S : ms \in Seq(S)
    BY <2>1
  <2> QED
    BY <1>1, <1>2, <2>1, <2>2, <2>4, <2>5, LinkGrows
<1> QED
  BY <1>3, <1>4

LEMMA OfferExchanges ==
    ASSUME ExchangeInv, NEW p \in Packets, Offer(p)
    PROVE  Exchange' /\ Again1'
<1>1. /\ snd.state = "none" /\ down' = down /\ rcv' = rcv
      /\ \/ snd'.state = "SEND" /\ snd'.queue = <<Again>>
            /\ (Carries(up', "all1") => Carries(up, "all1"))
         \/ snd'.state = "WAIT_x_SESSION_ACK" /\ snd'.queue = <<>>
      /\ ~Carries(up, "all1") => OneAll1(up') /\ All1sOf(up', p)
  BY OfferSends DEF ExchangeInv, Offer
<1>2. Exchange /\ Silent(down) /\ ~Misses /\ ~Carries(up, "all1")
  BY <1>1 DEF ExchangeInv, Exchange, Busy
<1>3. /\ \A q \in {<<>>, <<Again>>} : Silent(q) /\ OneAgain(q) /\ AgainFirst(q)
      /\ HasAgain(<<Again>>)
  BY KindsOfMessages DEF Silent, OneAgain, AgainFirst, HasAgain
<1>4. /\ Silent(snd'.queue) /\ OneAgain(snd'.queue) /\ AgainFirst(snd'.queue)
      /\ snd'.state = "SEND" => HasAgain(snd'.queue)
  BY <1>1, <1>3
<1>5. /\ Unconfirmed(snd'.queue) /\ ConfirmationLast(snd'.queue)
      /\ Unconfirmed(down) /\ ConfirmationLast(down)
  BY <1>2, <1>4, SilentIs
<1>6. ~Misses'
  BY <1>1, <1>2 DEF Misses
<1> QED
  BY <1>1, <1>2, <1>4, <1>5, <1>6 DEF Exchange, Again1, Busy

LEMMA SenderTurnExchanges ==
    ASSUME ExchangeInv, SenderTurn
    PROVE  Exchange' /\ Again1'
<1>1. rcv' = rcv /\ up' = up /\ (Misses' <=> Misses)
  BY DEF SenderTurn, SenderHears, SenderReaped, linkVars, Misses
<1>2. Exchange /\ Again1 /\ PlacesInv
  BY DEF ExchangeInv
<1>3. /\ down \in Seq(DownMessages) /\ snd.queue \in Seq(QueueEntries)
  BY <1>2, Shapes
<1>4. CASE SenderHears
  <2> DEFINE m == Head(down)
             q == Append(snd.queue, m)
  <2>1. /\ down # <<>> /\ down' = Tail(down)
        /\ snd' = IF snd.state = "none" THEN snd ELSE [snd EXCEPT !.queue = q]
    BY <1>4 DEF SenderHears
  <2>2. /\ m \in DownMessages
        /\ Silent(down) => Silent(down') /\ ~IsAnswer(m)
        /\ Unconfirmed(down) => Unconfirmed(down') /\ ~IsAck(m, 3)
        /\ ConfirmationLast(down')
        /\ IsAck(m, 3) => Silent(down')
    BY <1>2, <1>3, <2>1, QueueShrinks DEF Exchange
  <2>3. m \in QueueEntries /\ m # Again /\ (IsAck(m, 3) => IsAnswer(m))
    BY <2>2, KindsOfMessages DEF QueueEntries
  <2> HIDE DEF m
  <2>4. /\ Silent(snd.queue) /\ ~IsAnswer(m) => Silent(q)
        /\ Unconfirmed(snd.queue) /\ ~IsAck(m, 3) => Unconfirmed(q)
        /\ ConfirmationLast(snd.queue) /\ ~IsAnswer(m) => ConfirmationLast(q)
        /\ Unconfirmed(snd.queue) => ConfirmationLast(q)
        /\ OneAgain(snd.queue) => OneAgain(q)
        /\ HasAgain(snd.queue) => HasAgain(q)
        /\ AgainFirst(snd.queue) => AgainFirst(q)
    BY <1>3, <2>3, QueueGrows
  <2> HIDE DEF q
  <2>5. CASE snd.state = "none"
    BY <1>1, <1>2, <2>1, <2>2, <2>5 DEF Exchange, Again1, Busy
  <2>6. CASE snd.state # "none"
    <3>1. snd'.state = snd.state /\ snd'.queue = q
      BY <1>2, <2>1, <2>6 DEF PlacesInv, SenderPart, SenderTypeOK
    <3>2. ConfirmationLast(q)
      BY <1>2, <2>2, <2>4 DEF Exchange
    <3>3. Unconfirmed(q) \/ Silent(down')
      BY <1>2, <2>2, <2>4 DEF Exchange
    <3>4. snd.state \notin Busy => Silent(down') /\ Silent(q)
      BY <1>2, <2>2, <2>4 DEF Exchange
    <3>5. Carries(up, "all1") => Silent(down') /\ Silent(q)
      BY <1>2, <2>2, <2>4 DEF Exchange
    <3>6. Misses => Unconfirmed(down') /\ Unconfirmed(q)
      BY <1>2, <2>2, <2>4 DEF Exchange
    <3>7. Exchange'
      BY <1>1, <1>2, <2>2, <3>1, <3>2, <3>3, <3>4, <3>5, <3>6 DEF Exchange
    <3>8. Again1'
      BY <1>2, <2>4, <3>1 DEF Again1
    <3> QED
      BY <3>7, <3>8
  <2> QED
    BY <2>5, <2>6
<1>5. CASE SenderReaped
  <2>1. snd.state = "dead" /\ snd'.state = "none" /\ snd'.queue = <<>> /\ down' = down
    BY <1>5 DEF SenderReaped, NoSender, linkVars
  <2>2. Silent(<<>>) /\ Unconfirmed(<<>>) /\ ConfirmationLast(<<>>)
    BY DEF Silent, Unconfirmed, ConfirmationLast
  <2> QED
    BY <1>1, <1>2, <2>1, <2>2 DEF Exchange, Again1, Busy
<1> QED
  BY <1>4, <1>5 DEF SenderTurn

LEMMA LinkExchanges ==
    ASSUME ExchangeInv, Link
    PROVE  Exchange' /\ Again1'
<1>1. /\ Exchange /\ Again1 /\ up \in Seq(PlacedMessages)
      /\ down \in Seq(DownMessages)
  BY Shapes DEF ExchangeInv
<1>2. snd' = snd /\ rcv' = rcv /\ (Misses' <=> Misses)
  BY DEF Link, history, Misses
<1>3. CASE LoseUp
  <2>1. up # <<>> /\ up' = Tail(up) /\ down' = down
    BY <1>3 DEF LoseUp
  <2>2. /\ Carries(up', "all1") => Carries(up, "all1")
        /\ OneAll1(up) => OneAll1(up')
    BY <1>1, <2>1, TailOfLink
  <2> QED
    BY <1>1, <1>2, <2>1, <2>2 DEF Exchange, Again1
<1>4. CASE LoseDown
  <2>1. down # <<>> /\ down' = Tail(down) /\ up' = up
    BY <1>4 DEF LoseDown
  <2>2. /\ Silent(down) => Silent(down')
        /\ Unconfirmed(down) => Unconfirmed(down')
        /\ ConfirmationLast(down) => ConfirmationLast(down')
    BY <1>1, <2>1, QueueShrinks
  <2> QED
    BY <1>1, <1>2, <2>1, <2>2 DEF Exchange, Again1
<1> QED
  BY <1>3, <1>4 DEF Link

(* The receiver's steps, as far as the exchange goes: it drops a message,  *)
(* drops one while it misses tiles, has enough tiles, delivers, confirms   *)
(* once more, reports, gives up, waits for its end or is gone.             *)
LEMMA ReceiverStepShape ==
    ASSUME PlacesInv, ReceiverStep \/ RcvDiscard \/ RcvReaped
    PROVE  \/ /\ up # <<>> /\ up' = Tail(up) /\ down' = down /\ ~Misses'
              /\ delivered' = delivered
              /\ rcv'.state = "END" =>
                   rcv.state = "END" \/ Misses \/ Head(up).type \in {"all1", "req"}
           \/ /\ up # <<>> /\ up' = Tail(up) /\ down' = down /\ Misses /\ Misses'
              /\ rcv'.rcs = rcv.rcs /\ delivered' = delivered
           \/ /\ up # <<>> /\ up' = Tail(up) /\ ~Misses' /\ rcv'.state # "END"
              /\ down' = Append(down, Ack(1)) /\ delivered' = delivered
           \/ /\ up # <<>> /\ up' = Tail(up) /\ rcv'.state = "END"
              /\ down' = Append(down, Ack(3))
              /\ \/ /\ Head(up).type = "all1"
                    /\ delivered' = [delivered EXCEPT ![Head(up).pkt] = @ + 1]
                 \/ /\ Misses
                    /\ delivered' = [delivered EXCEPT ![rcv.rcs] = @ + 1]
           \/ /\ up # <<>> /\ up' = Tail(up) /\ rcv.state = "END"
              /\ rcv'.state = "END"
              /\ Head(up).type = "all1" /\ down' = Append(down, Ack(3))
              /\ delivered' = delivered
           \/ /\ up # <<>> /\ up' = Tail(up) /\ Misses' /\ delivered' = delivered
              /\ \E windows, bitmap : 
                   /\ Compound(windows, bitmap) \in DownMessages
                   /\ down' = Append(down, Compound(windows, bitmap))
              /\ \/ Head(up).type = "all1" /\ rcv'.rcs = Head(up).pkt
                 \/ Misses /\ rcv'.rcs = rcv.rcs
           \/ /\ up # <<>> /\ up' = Tail(up) /\ Misses /\ rcv'.state = "END"
              /\ down' = Append(down, Ack(1)) /\ delivered' = delivered
           \/ /\ rcv.state = "END" /\ rcv'.state = "END" /\ up' = up
              /\ down' = down /\ delivered' = delivered
           \/ /\ rcv.state = "END" /\ rcv' = NoReceiver
              /\ \E n \in 0 .. Len(up) : up' = SubSeq(up, n + 1, Len(up))
              /\ down' = down /\ delivered' = delivered
<1>1. rcv \in ReceiverRecord /\ down \in Seq(DownMessages) /\ up \in Seq(PlacedMessages)
  BY ReceiverPartIs DEF PlacesInv, SenderPart, ReceiverPlaced
<1>2. \A m : down \o <<m>> = Append(down, m)
  <2> SUFFICES ASSUME NEW m PROVE down \o <<m>> = Append(down, m)
    OBVIOUS
  <2>1. DownMessages \subseteq DownMessages \cup {m}
    OBVIOUS
  <2>2. down \in Seq(DownMessages \cup {m}) /\ m \in DownMessages \cup {m}
    BY <1>1, <2>1, SeqMonotonic
  <2> QED
    BY <2>2, AppendIsConcat
<1>3. up # <<>> => Msg \in PlacedMessages /\ Msg = Head(up)
  BY <1>1 DEF Msg
<1>4. up # <<>> => Msg.type \in {"regular", "all1", "req"}
  BY <1>3 DEF PlacedMessages, UpMessages, AckReq
<1>5. \A m : /\ Stored(rcv, m).state = rcv.state /\ Stored(rcv, m).rcs = rcv.rcs
             /\ Marked(rcv, m).state = rcv.state /\ Marked(rcv, m).rcs = m.pkt
  BY <1>1 DEF Stored, Marked, ReceiverRecord
<1>6. CASE RcvFirst \/ RcvDiscard \/ RcvStranger \/ RcvCrash
  <2>1. /\ up # <<>> /\ up' = Tail(up) /\ UNCHANGED <<down, delivered>>
    BY <1>6 DEF RcvFirst, RcvDiscard, RcvStranger, RcvCrash, AtStart, ReceiverIn,
                Consume, Quietly
  <2>2. \/ rcv'.state \in {"RCV_WINDOW", "INIT", "crashed"}
        \/ rcv'.state = "END" /\ Msg.type # "regular"
    BY <1>1, <1>6 DEF RcvFirst, RcvDiscard, RcvStranger, RcvCrash, Stored, ReceiverRecord
  <2> QED
    BY <1>3, <1>4, <2>1, <2>2 DEF Misses
<1>7. CASE RcvIgnores
  BY <1>7 DEF RcvIgnores, ReceiverIn, Consume, Quietly, Misses
<1>8. CASE RcvTiles
  <2>1. /\ up # <<>> /\ up' = Tail(up) /\ delivered' = delivered
        /\ rcv.state = "RCV_WINDOW"
        /\ \/ /\ rcv' = [Stored(rcv, Msg) EXCEPT !.state = "WAIT_X_ALL1"]
              /\ down' = down \o <<Ack(1)>>
           \/ rcv' = Stored(rcv, Msg) /\ down' = down
    BY <1>8 DEF RcvTiles, ReceiverIn, Consume, SendDown
  <2>2. rcv'.state \in {"WAIT_X_ALL1", "RCV_WINDOW"}
    BY <1>1, <2>1 DEF Stored, ReceiverRecord
  <2> QED
    BY <1>2, <2>1, <2>2 DEF Misses
<1>9. \A r : Deliver(r) =>
        /\ down' = Append(down, Ack(3))
        /\ delivered' = [delivered EXCEPT ![r.rcs] = @ + 1]
        /\ rcv' = [r EXCEPT !.state = "END", !.timer = TRUE]
  BY <1>2 DEF Deliver, SendDown
<1>10. \A r \in ReceiverRecord : SendCompound(r) =>
         \E windows, bitmap :
           /\ Compound(windows, bitmap) \in DownMessages
           /\ down' = Append(down, Compound(windows, bitmap))
  BY <1>2, WindowsReported DEF SendCompound, SendDown
<1>11. CASE RcvAll1
  <2> DEFINE r == Marked(rcv, Msg)
  <2>1. /\ up # <<>> /\ up' = Tail(up) /\ Msg.type = "all1"
        /\ rcv.state \in {"RCV_WINDOW", "WAIT_X_ALL1"}
        /\ \/ Deliver(r)
           \/ rcv' = r /\ Quietly
           \/ /\ rcv' = [r EXCEPT !.state = "WAIT_X_MISSING_FRAG"]
              /\ SendCompound(r) /\ UNCHANGED delivered
    BY <1>11, Zenon DEF RcvAll1, ReceiverIn, Consume
  <2>2. r \in ReceiverRecord /\ r.rcs = Msg.pkt /\ r.state = rcv.state
    BY <1>1, <1>3, <1>5, <2>1, MarkedInPlace, ReceiverPartIs
    DEF ReceiverPlaced, PlacesInv
  <2> HIDE DEF r
  <2>3. CASE Deliver(r)
    <3>1. rcv'.state = "END"
      BY <1>9, <2>2, <2>3 DEF ReceiverRecord
    <3>2. r.rcs = Head(up).pkt
      BY <1>3, <2>1, <2>2
    <3>3. /\ down' = Append(down, Ack(3))
          /\ delivered' = [delivered EXCEPT ![Head(up).pkt] = @ + 1]
      BY <1>9, <2>3, <3>2, Zenon
    <3> QED
      BY <1>3, <2>1, <3>1, <3>3
  <2>4. CASE rcv' = r /\ Quietly
    BY <2>1, <2>2, <2>4 DEF Quietly, Misses
  <2>5. CASE /\ rcv' = [r EXCEPT !.state = "WAIT_X_MISSING_FRAG"]
             /\ SendCompound(r) /\ UNCHANGED delivered
    <3>1. Misses' /\ rcv'.rcs = Msg.pkt
      BY <2>2, <2>5 DEF ReceiverRecord, Misses
    <3> QED
      BY <1>3, <1>10, <2>1, <2>2, <2>5, <3>1
  <2> QED
    BY <2>1, <2>3, <2>4, <2>5
<1>12. CASE RcvMissing
  <2> DEFINE r == [Stored(rcv, Msg) EXCEPT !.last = IF Msg.w > @ THEN Msg.w ELSE @]
  <2>1. /\ up # <<>> /\ up' = Tail(up) /\ Misses
        /\ \/ rcv' = r /\ Quietly
           \/ Deliver(r)
           \/ rcv' = [r EXCEPT !.state = "END", !.again = TRUE] /\ Quietly
    BY <1>12, Zenon DEF RcvMissing, ReceiverIn, Consume, Misses
  <2>2. r.rcs = rcv.rcs /\ r.state = rcv.state
        /\ [r EXCEPT !.state = "END", !.again = TRUE].state = "END"
        /\ [r EXCEPT !.state = "END", !.timer = TRUE].state = "END"
    BY <1>1 DEF Stored, ReceiverRecord
  <2> HIDE DEF r
  <2>3. CASE rcv' = r /\ Quietly
    BY <2>1, <2>2, <2>3 DEF Quietly, Misses
  <2>4. CASE Deliver(r)
    BY <1>9, <2>1, <2>2, <2>4
  <2>5. CASE rcv' = [r EXCEPT !.state = "END", !.again = TRUE] /\ Quietly
    BY <2>1, <2>2, <2>5 DEF Quietly, Misses
  <2> QED
    BY <2>1, <2>3, <2>4, <2>5
<1>13. CASE RcvAckReq
  <2>1. /\ up # <<>> /\ up' = Tail(up) /\ delivered' = delivered /\ Misses
        /\ \/ /\ down' = down \o <<Ack(1)>>
              /\ rcv' = [rcv EXCEPT !.state = "END", !.again = TRUE]
           \/ SendCompound(rcv) /\ rcv' = rcv
    BY <1>13 DEF RcvAckReq, ReceiverIn, Consume, SendDown, Misses
  <2>2. [rcv EXCEPT !.state = "END", !.again = TRUE].state = "END"
    BY <1>1 DEF ReceiverRecord
  <2> QED
    BY <1>1, <1>2, <1>10, <2>1, <2>2 DEF Misses
<1>14. CASE RcvLateAll1
  BY <1>2, <1>3, <1>14 DEF RcvLateAll1, ReceiverIn, Consume, SendDown
<1>15. CASE RcvAgain
  BY <1>1, <1>15 DEF RcvAgain, linkVars, ReceiverRecord
<1>16. CASE RcvReaped
  BY <1>16 DEF RcvReaped
<1> QED
  BY <1>6, <1>7, <1>8, <1>11, <1>12, <1>13, <1>14, <1>15, <1>16 DEF ReceiverStep

LEMMA ReceiverExchanges ==
    ASSUME ExchangeInv, Receiver \/ ReceiverTurn
    PROVE  Exchange' /\ Again1'
<1>1. /\ PlacesInv /\ Exchange /\ Again1 /\ snd' = snd
      /\ ReceiverStep \/ RcvDiscard \/ RcvReaped
  BY DEF ExchangeInv, Receiver, ReceiverTurn
<1>2. Again1'
  BY <1>1 DEF Again1
<1>3. up \in Seq(PlacedMessages) /\ down \in Seq(DownMessages)
  BY <1>1, Shapes
<1>4. up # <<>> /\ up' = Tail(up) =>
        /\ Carries(up', "all1") => Carries(up, "all1") /\ Head(up).type # "all1"
        /\ OneAll1(up) => OneAll1(up')
        /\ Head(up).type = "all1" => Carries(up, "all1")
  <2> SUFFICES ASSUME up # <<>>, up' = Tail(up)
               PROVE  /\ Carries(up', "all1") =>
                           Carries(up, "all1") /\ Head(up).type # "all1"
                      /\ OneAll1(up) => OneAll1(up')
                      /\ Head(up).type = "all1" => Carries(up, "all1")
    OBVIOUS
  <2>1. /\ Carries(up', "all1") => Carries(up, "all1")
        /\ OneAll1(up) => OneAll1(up')
        /\ OneAll1(up) /\ Head(up).type = "all1" => ~Carries(up', "all1")
        /\ Carries(up, Head(up).type)
    BY <1>3, TailOfLink
  <2>2. Carries(up, "all1") => OneAll1(up)
    BY <1>1 DEF Exchange
  <2> QED
    BY <2>1, <2>2
<1>5. \A m \in DownMessages :
        /\ Silent(down) /\ ~IsAnswer(m) => Silent(Append(down, m))
        /\ Unconfirmed(down) /\ ~IsAck(m, 3) => Unconfirmed(Append(down, m))
        /\ ConfirmationLast(down) /\ ~IsAnswer(m) =>
             ConfirmationLast(Append(down, m))
        /\ Unconfirmed(down) => ConfirmationLast(Append(down, m))
  BY <1>3, QueueGrows
<1>6. /\ \A q : Silent(q) => Unconfirmed(q) /\ ConfirmationLast(q)
      /\ Ack(1) \in DownMessages /\ ~IsAnswer(Ack(1)) /\ ~IsAck(Ack(1), 3)
      /\ Ack(3) \in DownMessages
      /\ \A windows, bitmap : ~IsAck(Compound(windows, bitmap), 3)
  BY SilentIs, KindsOfMessages, AcksAreMessages
<1>7. /\ Carries(up, "all1") => snd.state \in Busy
      /\ Misses => snd.state \in Busy /\ ~Carries(up, "all1")
  BY <1>1 DEF Exchange, Busy
<1>8. CASE up # <<>> /\ up' = Tail(up) /\ down' = down /\ (Misses' => Misses)
  BY <1>1, <1>2, <1>4, <1>8 DEF Exchange
<1>9. CASE /\ up # <<>> /\ up' = Tail(up) /\ ~Misses'
           /\ down' = Append(down, Ack(1))
  <2>1. /\ Silent(down) => Silent(down')
        /\ ConfirmationLast(down')
    BY <1>1, <1>5, <1>6, <1>9 DEF Exchange
  <2> QED
    BY <1>1, <1>2, <1>4, <1>9, <2>1 DEF Exchange
<1>10. CASE /\ up # <<>> /\ up' = Tail(up) /\ ~Misses'
            /\ Head(up).type = "all1" \/ Misses
            /\ down' = Append(down, Ack(3))
  <2>1. Unconfirmed(down) /\ Unconfirmed(snd.queue) /\ snd.state \in Busy
    BY <1>1, <1>4, <1>6, <1>7, <1>10 DEF Exchange
  <2>2. ConfirmationLast(down') /\ ~Carries(up', "all1")
    BY <1>4, <1>5, <1>6, <1>7, <1>10, <2>1
  <2> QED
    BY <1>1, <1>2, <1>10, <2>1, <2>2 DEF Exchange
<1>11. CASE /\ up # <<>> /\ up' = Tail(up) /\ Misses'
            /\ Head(up).type = "all1" \/ Misses
            /\ \E windows, bitmap :
                 /\ Compound(windows, bitmap) \in DownMessages
                 /\ down' = Append(down, Compound(windows, bitmap))
  <2>1. Unconfirmed(down) /\ Unconfirmed(snd.queue) /\ snd.state \in Busy
    BY <1>1, <1>4, <1>6, <1>7, <1>11 DEF Exchange
  <2>2. ConfirmationLast(down') /\ Unconfirmed(down') /\ ~Carries(up', "all1")
    BY <1>4, <1>5, <1>6, <1>7, <1>11, <2>1
  <2> QED
    BY <1>1, <1>2, <2>1, <2>2 DEF Exchange
<1>12. CASE /\ ~Misses' /\ down' = down
            /\ \E n \in 0 .. Len(up) : up' = SubSeq(up, n + 1, Len(up))
  <2>1. /\ Carries(up', "all1") => Carries(up, "all1")
        /\ OneAll1(up) => OneAll1(up')
    BY <1>3, <1>12, SuffixOfLink
  <2> QED
    BY <1>1, <1>2, <1>12, <2>1 DEF Exchange
<1>13. CASE ~Misses' /\ down' = down /\ up' = up
  BY <1>1, <1>2, <1>13 DEF Exchange
<1>14. rcv'.state \in {"END", "none"} => ~Misses'
  BY DEF Misses
<1> QED
  BY <1>1, <1>2, <1>8, <1>9, <1>10, <1>11, <1>12, <1>13, <1>14, ReceiverStepShape
  DEF NoReceiver

LEMMA ExchangeInit == Init => Exchange /\ Again1
<1> SUFFICES ASSUME Init PROVE Exchange /\ Again1
  OBVIOUS
<1>1. /\ up = <<>> /\ down = <<>> /\ snd.state = "none" /\ snd.queue = <<>>
      /\ ~Misses
  BY DEF Init, LinkInit, SenderInit, ReceiverInit, NoSender, NoReceiver, Misses
<1>2. Silent(<<>>) /\ Unconfirmed(<<>>) /\ ConfirmationLast(<<>>)
  BY DEF Silent, Unconfirmed, ConfirmationLast
<1> QED
  BY <1>1, <1>2, NoMessage DEF Exchange, Again1, Busy

LEMMA ExchangeStep == ExchangeInv /\ [Next]_vars => ExchangeInv'
<1> SUFFICES ASSUME ExchangeInv, [Next]_vars PROVE ExchangeInv'
  OBVIOUS
<1>1. PlacesInv'
  BY PlacesStep DEF ExchangeInv
<1>2. CASE UNCHANGED vars
  BY <1>1, <1>2 DEF vars, linkVars, ExchangeInv, Exchange, Again1, Misses
<1>3. CASE Next
  <2>1. Exchange' /\ Again1'
    BY <1>3, OfferExchanges, SenderExchanges, SenderTurnExchanges,
       ReceiverExchanges, LinkExchanges DEF Next
  <2> QED
    BY <1>1, <2>1 DEF ExchangeInv
<1>4. QED
  BY <1>1, <1>2, <1>3 DEF ExchangeInv

LEMMA ExchangeInvariance == Spec => []ExchangeInv
<1>1. Init => ExchangeInv
  BY PlacesInit, ExchangeInit DEF ExchangeInv
<1> QED
  BY <1>1, ExchangeStep, PTL DEF Spec

(* A machine that sends has asked to be executed exactly once more, and    *)
(* one that waits at most once: executeAgain() and the events of the stack *)
(* that share the queue never leave it standing still or running twice.    *)
THEOREM ExecutedAgainOnce == Spec => []AgainPending
<1>1. ExchangeInv => AgainPending
  <2> SUFFICES ASSUME ExchangeInv PROVE AgainPending
    OBVIOUS
  <2> DEFINE agains == {i \in DOMAIN snd.queue : snd.queue[i] = Again}
  <2>1. HasAgain(snd.queue) /\ OneAgain(snd.queue) => Cardinality(agains) = 1
    <3> SUFFICES ASSUME HasAgain(snd.queue), OneAgain(snd.queue)
                 PROVE  Cardinality(agains) = 1
      OBVIOUS
    <3>1. PICK k \in DOMAIN snd.queue : snd.queue[k] = Again
      BY DEF HasAgain
    <3>2. agains = {k}
      BY <3>1 DEF OneAgain
    <3> QED
      BY <3>2, FS_Singleton
  <2>2. ~HasAgain(snd.queue) => Cardinality(agains) = 0
    <3>1. ~HasAgain(snd.queue) => agains = {}
      BY DEF HasAgain
    <3> QED
      BY <3>1, FS_EmptySet
  <2> HIDE DEF agains
  <2>3. /\ snd.state \in {"SEND", "RESEND_MISSING_TILES"} => Cardinality(agains) = 1
        /\ snd.state = "WAIT_x_SESSION_ACK" => Cardinality(agains) <= 1
    BY <2>1, <2>2 DEF ExchangeInv, Again1
  <2> QED
    BY <2>3 DEF AgainPending, agains
<1> QED
  BY <1>1, ExchangeInvariance, PTL

-----------------------------------------------------------------------------
(* Deliveries.                                                             *)

(* A packet is delivered for the All-1 of its own session, which is sent   *)
(* once, or for the report that answered it.                               *)
Deliveries ==
    /\ \A p \in Packets :
         delivered[p] \in {0, 1} /\ (delivered[p] = 1 => p \in offered)
    /\ snd.state # "none" => snd.pkt \in offered
    /\ snd.state = "SEND" => delivered[snd.pkt] = 0
    /\ Carries(up, "all1") => All1sOf(up, snd.pkt) /\ delivered[snd.pkt] = 0
    /\ Misses => rcv.rcs = snd.pkt /\ delivered[snd.pkt] = 0
    /\ snd.state \in Sending => snd.pkt \notin confirmed

DeliveryInv == ExchangeInv /\ Deliveries

LateAll1 == rcv.state = "END" /\ Carries(up, "all1")

(* What a receiver's step may deliver, and what it confirms.               *)
LEMMA DeliverySteps ==
    ASSUME DeliveryInv, ReceiverStep \/ RcvDiscard \/ RcvReaped
    PROVE  \/ /\ delivered' = delivered
              /\ Unconfirmed(down) /\ ~LateAll1 => Unconfirmed(down')
           \/ /\ snd.pkt \in offered /\ snd.state # "none"
              /\ delivered[snd.pkt] = 0
              /\ delivered' = [delivered EXCEPT ![snd.pkt] = 1]
              /\ snd.state \in Busy /\ ~Carries(up', "all1") /\ ~Misses'
<1>1. PlacesInv /\ Exchange /\ Deliveries /\ up \in Seq(PlacedMessages)
  BY Shapes DEF DeliveryInv, ExchangeInv
<1>2. down \in Seq(DownMessages)
  BY <1>1, Shapes
<1>3. /\ Ack(1) \in DownMessages /\ ~IsAck(Ack(1), 3)
      /\ \A windows, bitmap : ~IsAck(Compound(windows, bitmap), 3)
      /\ \A m \in DownMessages :
           Unconfirmed(down) /\ ~IsAck(m, 3) => Unconfirmed(Append(down, m))
  BY <1>2, KindsOfMessages, AcksAreMessages, QueueGrows
<1>4. \/ /\ delivered' = delivered
         /\ \/ down' = down \/ down' = Append(down, Ack(1))
            \/ \E windows, bitmap :
                 /\ Compound(windows, bitmap) \in DownMessages
                 /\ down' = Append(down, Compound(windows, bitmap))
            \/ rcv.state = "END" /\ up # <<>> /\ Head(up).type = "all1"
      \/ /\ up # <<>> /\ up' = Tail(up) /\ rcv'.state = "END"
         /\ \/ /\ Head(up).type = "all1"
               /\ delivered' = [delivered EXCEPT ![Head(up).pkt] = @ + 1]
            \/ /\ Misses
               /\ delivered' = [delivered EXCEPT ![rcv.rcs] = @ + 1]
  BY <1>1, ReceiverStepShape
<1>5. CASE /\ delivered' = delivered
           /\ \/ down' = down \/ down' = Append(down, Ack(1))
              \/ \E windows, bitmap :
                   /\ Compound(windows, bitmap) \in DownMessages
                   /\ down' = Append(down, Compound(windows, bitmap))
              \/ rcv.state = "END" /\ up # <<>> /\ Head(up).type = "all1"
  <2>1. up # <<>> => Carries(up, Head(up).type)
    BY <1>1, TailOfLink
  <2>2. Unconfirmed(down) /\ ~LateAll1 => Unconfirmed(down')
    BY <1>3, <1>5, <2>1 DEF LateAll1
  <2> QED
    BY <1>5, <2>2
<1>6. CASE /\ up # <<>> /\ up' = Tail(up) /\ rcv'.state = "END"
           /\ \/ /\ Head(up).type = "all1"
                 /\ delivered' = [delivered EXCEPT ![Head(up).pkt] = @ + 1]
              \/ /\ Misses
                 /\ delivered' = [delivered EXCEPT ![rcv.rcs] = @ + 1]
  <2>1. /\ Carries(up', "all1") => Carries(up, "all1")
        /\ OneAll1(up) /\ Head(up).type = "all1" => ~Carries(up', "all1")
        /\ Carries(up, Head(up).type)
        /\ \A p : All1sOf(up, p) /\ Head(up).type = "all1" => Head(up).pkt = p
    BY <1>1, <1>6, TailOfLink
  <2>2. /\ delivered[snd.pkt] = 0 /\ snd.state \in Busy
        /\ ~Carries(up', "all1")
    BY <1>1, <1>6, <2>1 DEF Exchange, Deliveries, Busy
  <2>3. delivered' = [delivered EXCEPT ![snd.pkt] = @ + 1]
    BY <1>1, <1>6, <2>1 DEF Deliveries
  <2>4. delivered' = [delivered EXCEPT ![snd.pkt] = 1]
    BY <2>2, <2>3
  <2> QED
    BY <1>1, <1>6, <2>2, <2>4 DEF Deliveries, Busy, Misses
<1> QED
  BY <1>4, <1>5, <1>6

LEMMA ReceiverDelivers ==
    ASSUME DeliveryInv, Receiver \/ ReceiverTurn
    PROVE  Deliveries'
<1>1. /\ PlacesInv /\ Exchange /\ Deliveries /\ up \in Seq(PlacedMessages)
      /\ ReceiverStep \/ RcvDiscard \/ RcvReaped
      /\ snd' = snd /\ offered' = offered /\ confirmed' = confirmed
  BY Shapes DEF DeliveryInv, ExchangeInv, Receiver, ReceiverTurn, history
<1>2. delivered \in [Packets -> Nat] /\ offered \subseteq Packets
  BY <1>1 DEF PlacesInv, ReceiverPart, ReceiverTypeOK, HistoryPart
<1>3. /\ Carries(up', "all1") => Carries(up, "all1")
      /\ \A p : All1sOf(up, p) => All1sOf(up', p)
  <2>1. up # <<>> /\ up' = Tail(up) =>
          /\ Carries(up', "all1") => Carries(up, "all1")
          /\ \A p : All1sOf(up, p) => All1sOf(up', p)
    BY <1>1, TailOfLink
  <2>2. (\E n \in 0 .. Len(up) : up' = SubSeq(up, n + 1, Len(up))) =>
          /\ Carries(up', "all1") => Carries(up, "all1")
          /\ \A p : All1sOf(up, p) => All1sOf(up', p)
    BY <1>1, SuffixOfLink
  <2>3. \/ up # <<>> /\ up' = Tail(up)
        \/ \E n \in 0 .. Len(up) : up' = SubSeq(up, n + 1, Len(up))
        \/ up' = up
    BY <1>1, ReceiverStepShape
  <2> QED
    BY <2>1, <2>2, <2>3
<1>4. CASE delivered' = delivered
  <2>1. Misses' => rcv'.rcs = snd.pkt /\ delivered[snd.pkt] = 0
    <3> SUFFICES ASSUME Misses' PROVE rcv'.rcs = snd.pkt /\ delivered[snd.pkt] = 0
      OBVIOUS
    <3>1. rcv'.state # "END" /\ rcv' # NoReceiver
      BY DEF Misses, NoReceiver
    <3>2. up # <<>> /\ \/ Head(up).type = "all1" /\ rcv'.rcs = Head(up).pkt
                       \/ Misses /\ rcv'.rcs = rcv.rcs
      BY <1>1, <3>1, ReceiverStepShape
    <3>3. /\ Carries(up, Head(up).type)
          /\ \A p : All1sOf(up, p) /\ Head(up).type = "all1" => Head(up).pkt = p
      BY <1>1, <3>2, TailOfLink
    <3> QED
      BY <1>1, <3>2, <3>3 DEF Deliveries
  <2> QED
    BY <1>1, <1>3, <1>4, <2>1 DEF Deliveries
<1>5. CASE /\ snd.pkt \in offered /\ snd.state # "none"
           /\ delivered[snd.pkt] = 0
           /\ delivered' = [delivered EXCEPT ![snd.pkt] = 1]
           /\ snd.state \in Busy /\ ~Carries(up', "all1") /\ ~Misses'
  <2>1. \A p \in Packets :
          delivered'[p] = IF p = snd.pkt THEN 1 ELSE delivered[p]
    BY <1>2, <1>5
  <2> QED
    BY <1>1, <1>2, <1>5, <2>1 DEF Deliveries, Busy
<1> QED
  BY <1>1, <1>4, <1>5, DeliverySteps

LEMMA SenderDelivers ==
    ASSUME DeliveryInv, Sender
    PROVE  Deliveries'
<1>1. /\ PlacesInv /\ Exchange /\ Deliveries /\ SenderStep
      /\ rcv' = rcv /\ delivered' = delivered /\ offered' = offered
      /\ confirmed' = IF snd.state # "END" /\ snd'.state = "END"
                        THEN confirmed \cup {snd.pkt} ELSE confirmed
      /\ (Misses' <=> Misses)
  BY DEF DeliveryInv, ExchangeInv, Sender, Misses
<1>2. /\ Carries(up', "all1") => Carries(up, "all1") \/ snd.state = "SEND"
      /\ All1sOf(up, snd.pkt) => All1sOf(up', snd.pkt)
  BY <1>1, SenderSends
<1>3. ~Carries(up, "all1") => All1sOf(up, snd.pkt)
  BY DEF Carries, All1sOf
<1>4. /\ snd'.pkt = snd.pkt
      /\ snd'.state \in Sending => snd.state \in Sending
      /\ snd'.state = "SEND" => snd.state = "SEND"
      /\ snd'.state # "none" => snd.state # "none"
  BY <1>1, SenderStepShape DEF Sending, Busy
<1>5. snd'.state \in Sending => snd'.state # "END"
  BY DEF Sending
<1> QED
  BY <1>1, <1>2, <1>3, <1>4, <1>5 DEF Deliveries

LEMMA DeliveriesStep == DeliveryInv /\ [Next]_vars => DeliveryInv'
<1> SUFFICES ASSUME DeliveryInv, [Next]_vars PROVE DeliveryInv'
  OBVIOUS
<1>1. ExchangeInv' /\ ExchangeInv /\ PlacesInv /\ Exchange /\ Deliveries
  BY ExchangeStep DEF DeliveryInv, ExchangeInv
<1>2. /\ up \in Seq(PlacedMessages) /\ delivered \in [Packets -> Nat]
      /\ offered \subseteq Packets /\ confirmed \subseteq offered
  BY <1>1, Shapes DEF PlacesInv, ReceiverPart, ReceiverTypeOK, HistoryPart
<1>3. ASSUME NEW p \in Packets, Offer(p) PROVE Deliveries'
  <2>1. /\ snd.state = "none" /\ snd'.pkt = p
        /\ ~Carries(up, "all1") => OneAll1(up') /\ All1sOf(up', p)
    BY <1>1, <1>3, OfferSends
  <2>2. ~Carries(up, "all1") /\ ~Misses
    BY <1>1, <2>1 DEF Exchange, Busy
  <2>3. /\ p \notin offered /\ offered' = offered \cup {p}
        /\ rcv' = rcv /\ delivered' = delivered /\ confirmed' = confirmed
    BY <1>3 DEF Offer
  <2>4. delivered[p] = 0 /\ p \notin confirmed
    BY <1>1, <1>2, <2>3 DEF Deliveries
  <2>5. ~Misses'
    BY <2>2, <2>3 DEF Misses
  <2> QED
    BY <1>1, <2>1, <2>2, <2>3, <2>4, <2>5 DEF Deliveries
<1>4. CASE SenderTurn
  <2>1. /\ rcv' = rcv /\ delivered' = delivered /\ offered' = offered
        /\ confirmed' = confirmed /\ up' = up /\ (Misses' <=> Misses)
    BY <1>4 DEF SenderTurn, SenderHears, SenderReaped, linkVars, history, Misses
  <2>2. \/ snd'.state = snd.state /\ snd'.pkt = snd.pkt
        \/ snd.state = "dead" /\ snd'.state = "none"
    BY <1>1, <1>4 DEF SenderTurn, SenderHears, SenderReaped, NoSender, PlacesInv,
                      SenderPart, SenderTypeOK
  <2> QED
    BY <1>1, <2>1, <2>2 DEF DeliveryInv, Deliveries, Exchange, Sending, Busy
<1>5. CASE Link
  <2>1. /\ snd' = snd /\ rcv' = rcv /\ delivered' = delivered
        /\ offered' = offered /\ confirmed' = confirmed /\ (Misses' <=> Misses)
    BY <1>5 DEF Link, history, Misses
  <2>2. \/ up' = up
        \/ up # <<>> /\ up' = Tail(up)
    BY <1>5 DEF Link, LoseUp, LoseDown
  <2>3. /\ Carries(up', "all1") => Carries(up, "all1")
        /\ \A p : All1sOf(up, p) => All1sOf(up', p)
    BY <1>2, <2>2, TailOfLink
  <2> QED
    BY <1>1, <2>1, <2>3 DEF DeliveryInv, Deliveries
<1>6. CASE UNCHANGED vars
  BY <1>1, <1>6 DEF vars, linkVars, history, DeliveryInv, Deliveries, Misses
<1> QED
  BY <1>1, <1>3, <1>4, <1>5, <1>6, SenderDelivers, ReceiverDelivers
  DEF Next, DeliveryInv

LEMMA DeliveriesInit == Init => DeliveryInv
<1> SUFFICES ASSUME Init PROVE DeliveryInv
  OBVIOUS
<1>1. ExchangeInv
  BY PlacesInit, ExchangeInit DEF ExchangeInv
<1>2. /\ up = <<>> /\ snd.state = "none" /\ ~Misses
      /\ delivered = [p \in Packets |-> 0] /\ ~Carries(up, "all1")
  BY NoMessage DEF Init, LinkInit, SenderInit, ReceiverInit, NoSender,
                   NoReceiver, Misses
<1> QED
  BY <1>1, <1>2 DEF DeliveryInv, Deliveries, Sending

LEMMA DeliveriesInvariance == Spec => []DeliveryInv
<1> QED
  BY DeliveriesInit, DeliveriesStep, PTL DEF Spec

(* Every packet was delivered once or never, and only after its offer.     *)
DeliveredOnce ==
    \A p \in Packets :
      delivered[p] \in {0, 1} /\ (delivered[p] = 1 => p \in offered)

(* However many packets there are, and whatever is lost, repeated or heard *)
(* late, no packet is delivered twice or without having been offered.      *)
THEOREM PacketsDeliveredOnce == Spec => []DeliveredOnce
<1>1. DeliveryInv => DeliveredOnce
  BY DEF DeliveryInv, Deliveries, DeliveredOnce
<1> QED
  BY <1>1, DeliveriesInvariance, PTL

-----------------------------------------------------------------------------
(* A packet is offered when nothing is left of the earlier sessions that   *)
(* would answer its All-1: no receiver at its end, and no ACK request that *)
(* takes one there.                                                        *)

EarlierSessionOver == rcv.state # "END" /\ ~Carries(up, "req")

SessionsApart == \A p \in Packets : Offer(p) => EarlierSessionOver

OnePacket == \A p, q \in Packets : p = q

(* Before any packet is offered nothing is under way, and until the All-1  *)
(* of a packet is heard no receiver is at its end: the confirmation comes  *)
(* after the delivery.                                                     *)
Confirmations ==
    /\ offered = {} =>
         /\ up = <<>> /\ down = <<>> /\ rcv = NoReceiver /\ snd.state = "none"
    /\ snd.state = "SEND" \/ Carries(up, "all1") =>
         rcv.state # "END" /\ ~Carries(up, "req")
    /\ snd.state # "none" /\ ~(Unconfirmed(down) /\ Unconfirmed(snd.queue)) =>
         delivered[snd.pkt] = 1
    /\ \A p \in confirmed : delivered[p] = 1

ConfirmationInv == DeliveryInv /\ Confirmations

LEMMA OfferConfirms ==
    ASSUME ConfirmationInv, NEW p \in Packets, Offer(p), EarlierSessionOver
    PROVE  Confirmations'
<1>1. PlacesInv /\ Exchange /\ Confirmations
  BY DEF ConfirmationInv, DeliveryInv, ExchangeInv
<1>2. /\ offered' = offered \cup {p} /\ snd.state = "none"
      /\ rcv' = rcv /\ delivered' = delivered /\ confirmed' = confirmed
  BY DEF Offer, SenderOpen
<1>3. Unconfirmed(down)
  BY <1>1, <1>2, SilentIs DEF Exchange, Busy
<1>4. /\ down' = down
      /\ snd'.queue = <<Again>> \/ snd'.queue = <<>>
      /\ Carries(up', "req") => Carries(up, "req")
  BY <1>1, OfferSends
<1>5. Unconfirmed(down') /\ Unconfirmed(snd'.queue)
  <2>1. Unconfirmed(<<>>) /\ Unconfirmed(<<Again>>)
    BY KindsOfMessages DEF Unconfirmed
  <2> QED
    BY <1>3, <1>4, <2>1
<1> QED
  BY <1>1, <1>2, <1>4, <1>5 DEF Confirmations, EarlierSessionOver

(* The only packet has no earlier session.                                 *)
LEMMA OnePacketApart ==
    ASSUME OnePacket, ConfirmationInv
    PROVE  SessionsApart
<1> SUFFICES ASSUME NEW p \in Packets, Offer(p) PROVE EarlierSessionOver
  BY DEF SessionsApart
<1>1. PlacesInv /\ Confirmations
  BY DEF ConfirmationInv, DeliveryInv, ExchangeInv
<1>2. offered = {}
  BY <1>1 DEF Offer, OnePacket, PlacesInv, HistoryPart
<1> QED
  BY <1>1, <1>2, NoMessage DEF Confirmations, NoReceiver, EarlierSessionOver

LEMMA SenderConfirms ==
    ASSUME ConfirmationInv, Sender
    PROVE  /\ Confirmations'
           /\ confirmed' # confirmed =>
                /\ snd.pkt \in offered /\ delivered[snd.pkt] = 1
                /\ snd.pkt \notin confirmed
                /\ confirmed' = confirmed \cup {snd.pkt}
<1>1. /\ PlacesInv /\ Exchange /\ Deliveries /\ Confirmations /\ SenderStep
      /\ ExchangeInv
      /\ rcv' = rcv /\ delivered' = delivered /\ offered' = offered
      /\ confirmed' = IF snd.state # "END" /\ snd'.state = "END"
                        THEN confirmed \cup {snd.pkt} ELSE confirmed
  BY DEF ConfirmationInv, DeliveryInv, ExchangeInv, Sender
<1> DEFINE rest == Tail(snd.queue)
           more == Append(rest, Again)
<1>2. /\ snd.queue # <<>> /\ down' = down /\ snd'.pkt = snd.pkt
      /\ snd'.queue = rest \/ snd'.queue = more
      /\ snd'.state = "SEND" => snd.state = "SEND"
      /\ snd'.state # "none" => snd.state # "none"
      /\ snd.state = "none" => up' = up /\ snd'.state = "none"
      /\ snd.state # "END" /\ snd'.state = "END" =>
           snd.state \in Busy /\ IsAck(Event, 3)
      /\ snd.state = "RESEND_MISSING_TILES" =>
           snd'.state # "SEND"
  BY <1>1, SenderStepShape DEF Busy
<1>3. /\ Unconfirmed(snd.queue) => Unconfirmed(rest) /\ Unconfirmed(more)
      /\ Unconfirmed(snd.queue) => ~IsAck(Event, 3)
  BY <1>1, <1>2, QueueAfter
<1>4. /\ Carries(up', "all1") =>
           \/ Carries(up, "all1")
           \/ snd.state = "SEND" /\ snd'.state = "WAIT_x_SESSION_ACK"
      /\ Carries(up', "req") =>
           Carries(up, "req") \/ snd.state = "RESEND_MISSING_TILES"
  BY <1>1, SenderSends
<1> HIDE DEF rest, more
<1>5. Unconfirmed(snd.queue) => Unconfirmed(snd'.queue)
  BY <1>2, <1>3
<1>6. confirmed' # confirmed =>
        /\ snd.pkt \in offered /\ delivered[snd.pkt] = 1
        /\ snd.pkt \notin confirmed
        /\ confirmed' = confirmed \cup {snd.pkt}
  <2> SUFFICES ASSUME confirmed' # confirmed
               PROVE  /\ snd.pkt \in offered /\ delivered[snd.pkt] = 1
                      /\ snd.pkt \notin confirmed
                      /\ confirmed' = confirmed \cup {snd.pkt}
    OBVIOUS
  <2>1. /\ snd.state # "END" /\ snd'.state = "END"
        /\ confirmed' = confirmed \cup {snd.pkt}
    BY <1>1
  <2>2. snd.state \in Busy /\ IsAck(Event, 3)
    BY <1>2, <2>1
  <2>3. ~Unconfirmed(snd.queue) /\ snd.state # "none" /\ snd.state \in Sending
    BY <1>3, <2>2 DEF Busy, Sending
  <2> QED
    BY <1>1, <2>1, <2>3 DEF Confirmations, Deliveries
<1>7. snd'.state = "SEND" \/ Carries(up', "all1") =>
        rcv.state # "END" /\ ~Carries(up', "req")
  BY <1>1, <1>2, <1>4 DEF Confirmations, Exchange
<1>8. snd'.state # "none" /\ ~(Unconfirmed(down') /\ Unconfirmed(snd'.queue)) =>
        delivered[snd.pkt] = 1
  BY <1>1, <1>2, <1>5 DEF Confirmations
<1>9. \A p \in confirmed' : delivered[p] = 1
  BY <1>1, <1>6 DEF Confirmations
<1>10. offered = {} =>
         up' = <<>> /\ down' = <<>> /\ rcv = NoReceiver /\ snd'.state = "none"
  BY <1>1, <1>2 DEF Confirmations
<1>11. Confirmations'
  BY <1>1, <1>2, <1>7, <1>8, <1>9, <1>10 DEF Confirmations
<1> QED
  BY <1>6, <1>11

LEMMA SenderTurnConfirms ==
    ASSUME ConfirmationInv, SenderTurn
    PROVE  Confirmations'
<1>1. PlacesInv /\ Confirmations
  BY DEF ConfirmationInv, DeliveryInv, ExchangeInv
<1>2. /\ up' = up /\ rcv' = rcv /\ delivered' = delivered /\ offered' = offered
      /\ confirmed' = confirmed
  BY DEF SenderTurn, SenderHears, SenderReaped, linkVars, history
<1>3. CASE SenderHears
  <2> DEFINE m == Head(down)
             q == Append(snd.queue, m)
  <2>1. /\ down # <<>> /\ down' = Tail(down)
        /\ snd' = IF snd.state = "none" THEN snd ELSE [snd EXCEPT !.queue = q]
    BY <1>3 DEF SenderHears
  <2>2. snd.queue \in Seq(QueueEntries) /\ down \in Seq(DownMessages)
    BY <1>1, Shapes
  <2>3. m \in DownMessages
        /\ (Unconfirmed(down) => Unconfirmed(down') /\ ~IsAck(m, 3))
    BY <2>1, <2>2, QueueShrinks
  <2>4. m \in QueueEntries
    BY <2>3 DEF QueueEntries
  <2> HIDE DEF m
  <2>5. Unconfirmed(snd.queue) /\ ~IsAck(m, 3) => Unconfirmed(q)
    BY <2>2, <2>4, QueueGrows
  <2> HIDE DEF q
  <2>6. CASE snd.state = "none"
    BY <1>1, <1>2, <2>1, <2>6 DEF Confirmations
  <2>7. CASE snd.state # "none"
    <3>1. snd'.state = snd.state /\ snd'.queue = q /\ snd'.pkt = snd.pkt
      BY <1>1, <2>1, <2>7 DEF PlacesInv, SenderPart, SenderTypeOK
    <3>2. ~(Unconfirmed(down') /\ Unconfirmed(snd'.queue)) =>
            delivered[snd.pkt] = 1
      BY <1>1, <2>3, <2>5, <2>7, <3>1 DEF Confirmations
    <3> QED
      BY <1>1, <1>2, <2>7, <3>1, <3>2 DEF Confirmations
  <2> QED
    BY <2>6, <2>7
<1>4. CASE SenderReaped
  <2>1. snd.state = "dead" /\ snd'.state = "none" /\ down' = down
    BY <1>4 DEF SenderReaped, NoSender, linkVars
  <2> QED
    BY <1>1, <1>2, <2>1 DEF Confirmations
<1> QED
  BY <1>3, <1>4 DEF SenderTurn

LEMMA ReceiverConfirms ==
    ASSUME ConfirmationInv, Receiver \/ ReceiverTurn
    PROVE  Confirmations'
<1>1. /\ PlacesInv /\ Exchange /\ Deliveries /\ Confirmations /\ DeliveryInv
      /\ ReceiverStep \/ RcvDiscard \/ RcvReaped
      /\ snd' = snd /\ offered' = offered /\ confirmed' = confirmed
      /\ up \in Seq(PlacedMessages) /\ down \in Seq(DownMessages)
  BY Shapes DEF ConfirmationInv, DeliveryInv, ExchangeInv, Receiver,
                ReceiverTurn, history
<1>2. /\ delivered \in [Packets -> Nat] /\ offered \subseteq Packets
      /\ confirmed \subseteq offered
  BY <1>1 DEF PlacesInv, ReceiverPart, ReceiverTypeOK, HistoryPart
<1>3. up # <<>> /\ up' = Tail(up) =>
        /\ \A type : Carries(up', type) => Carries(up, type)
        /\ OneAll1(up) /\ Head(up).type = "all1" => ~Carries(up', "all1")
        /\ Carries(up, Head(up).type)
  BY <1>1, TailOfLink
<1>4. (\E n \in 0 .. Len(up) : up' = SubSeq(up, n + 1, Len(up))) =>
        \A type : Carries(up', type) => Carries(up, type)
  BY <1>1, SuffixOfLink
<1>5. offered # {}
  <2> SUFFICES ASSUME offered = {} PROVE FALSE
    OBVIOUS
  <2>1. up = <<>> /\ rcv.state = "none"
    BY <1>1 DEF Confirmations, NoReceiver
  <2> QED
    BY <1>1, <2>1, ReceiverStepShape
<1>6. snd.state = "SEND" \/ Carries(up', "all1") =>
        rcv'.state # "END" /\ ~Carries(up', "req")
  <2> SUFFICES ASSUME snd.state = "SEND" \/ Carries(up', "all1")
               PROVE  rcv'.state # "END" /\ ~Carries(up', "req")
    OBVIOUS
  <2>1. \A type : Carries(up', type) => Carries(up, type)
    BY <1>1, <1>3, <1>4, ReceiverStepShape
  <2>2. /\ rcv.state # "END" /\ ~Carries(up, "req") /\ ~Misses
        /\ Carries(up, "all1") => OneAll1(up) /\ snd.state # "SEND"
    BY <1>1, <2>1 DEF Confirmations, Exchange, Busy
  <2>3. up # <<>> /\ up' = Tail(up) => Head(up).type \notin {"all1", "req"}
    BY <1>3, <2>2
  <2>4. rcv'.state # "END"
    <3>1. rcv' = NoReceiver => rcv'.state # "END"
      BY DEF NoReceiver
    <3>2. Misses' => rcv'.state # "END"
      BY DEF Misses
    <3> QED
      BY <1>1, <2>2, <2>3, <3>1, <3>2, ReceiverStepShape
  <2> QED
    BY <2>1, <2>2, <2>4
<1>7. ~LateAll1
  BY <1>1 DEF Confirmations, LateAll1
<1>8. \/ /\ delivered' = delivered
         /\ Unconfirmed(down) => Unconfirmed(down')
      \/ /\ snd.pkt \in Packets
         /\ delivered' = [delivered EXCEPT ![snd.pkt] = 1]
  BY <1>1, <1>2, <1>7, DeliverySteps
<1>9. CASE delivered' = delivered /\ (Unconfirmed(down) => Unconfirmed(down'))
  BY <1>1, <1>5, <1>6, <1>9 DEF Confirmations
<1>10. CASE /\ snd.pkt \in Packets
            /\ delivered' = [delivered EXCEPT ![snd.pkt] = 1]
  <2>1. \A p \in Packets :
          delivered'[p] = IF p = snd.pkt THEN 1 ELSE delivered[p]
    BY <1>2, <1>10
  <2>2. delivered'[snd.pkt] = 1 /\ \A p \in confirmed : delivered'[p] = 1
    BY <1>1, <1>2, <1>10, <2>1 DEF Confirmations
  <2> QED
    BY <1>1, <1>5, <1>6, <2>2 DEF Confirmations
<1> QED
  BY <1>8, <1>9, <1>10

LEMMA LinkConfirms ==
    ASSUME ConfirmationInv, Link
    PROVE  Confirmations'
<1>1. /\ Confirmations /\ up \in Seq(PlacedMessages) /\ down \in Seq(DownMessages)
  BY Shapes DEF ConfirmationInv, DeliveryInv, ExchangeInv
<1>2. /\ snd' = snd /\ rcv' = rcv /\ delivered' = delivered
      /\ offered' = offered /\ confirmed' = confirmed
  BY DEF Link, history
<1>3. CASE LoseUp
  <2>1. up # <<>> /\ up' = Tail(up) /\ down' = down
    BY <1>3 DEF LoseUp
  <2>2. \A type : Carries(up', type) => Carries(up, type)
    BY <1>1, <2>1, TailOfLink
  <2> QED
    BY <1>1, <1>2, <2>1, <2>2 DEF Confirmations
<1>4. CASE LoseDown
  <2>1. down # <<>> /\ down' = Tail(down) /\ up' = up
    BY <1>4 DEF LoseDown
  <2>2. Unconfirmed(down) => Unconfirmed(down')
    BY <1>1, <2>1, QueueShrinks
  <2> QED
    BY <1>1, <1>2, <2>1, <2>2 DEF Confirmations
<1> QED
  BY <1>3, <1>4 DEF Link

LEMMA ConfirmationsInit == Init => ConfirmationInv
<1> SUFFICES ASSUME Init PROVE ConfirmationInv
  OBVIOUS
<1>1. DeliveryInv
  BY DeliveriesInit
<1>2. /\ up = <<>> /\ down = <<>> /\ snd.state = "none" /\ rcv = NoReceiver
      /\ confirmed = {} /\ ~Carries(up, "all1")
  BY NoMessage DEF Init, LinkInit, SenderInit, ReceiverInit, NoSender
<1> QED
  BY <1>1, <1>2 DEF ConfirmationInv, Confirmations

LEMMA ConfirmationsStep ==
    ConfirmationInv /\ [Next]_vars /\ [SessionsApart]_vars => ConfirmationInv'
<1> SUFFICES ASSUME ConfirmationInv, [Next]_vars, [SessionsApart]_vars
             PROVE  ConfirmationInv'
  OBVIOUS
<1>1. DeliveryInv'
  BY DeliveriesStep DEF ConfirmationInv
<1>2. CASE UNCHANGED vars
  BY <1>1, <1>2 DEF vars, linkVars, history, ConfirmationInv, Confirmations
<1>3. CASE Next /\ SessionsApart
  BY <1>1, <1>3, OfferConfirms, SenderConfirms, SenderTurnConfirms,
     ReceiverConfirms, LinkConfirms DEF Next, SessionsApart, ConfirmationInv
<1> QED
  BY <1>2, <1>3

LEMMA DeliveryInitially == Init => Delivery!Init
BY DEF Init, ReceiverInit, Delivery!Init

LEMMA DeliveryImplemented ==
    ConfirmationInv /\ [Next]_vars => [Delivery!Next]_(Delivery!vars)
<1> SUFFICES ASSUME ConfirmationInv, [Next]_vars
             PROVE  [Delivery!Next]_(Delivery!vars)
  OBVIOUS
<1>1. /\ DeliveryInv /\ Deliveries /\ offered \subseteq Packets
  BY DEF ConfirmationInv, DeliveryInv, ExchangeInv, PlacesInv, HistoryPart
<1>2. ASSUME NEW p \in Packets, Offer(p) PROVE Delivery!Next
  BY <1>2 DEF Offer, Delivery!Next, Delivery!Offer
<1>3. CASE Sender
  <2>1. delivered' = delivered /\ offered' = offered
    BY <1>3 DEF Sender
  <2>2. CASE confirmed' = confirmed
    BY <2>1, <2>2 DEF Delivery!vars
  <2>3. CASE confirmed' # confirmed
    <3>1. /\ snd.pkt \in offered /\ delivered[snd.pkt] = 1
          /\ snd.pkt \notin confirmed
          /\ confirmed' = confirmed \cup {snd.pkt}
      BY <1>3, <2>3, SenderConfirms
    <3>2. snd.pkt \in Packets /\ Delivery!Confirm(snd.pkt)
      BY <1>1, <2>1, <3>1 DEF Delivery!Confirm
    <3> QED
      BY <3>2 DEF Delivery!Next
  <2> QED
    BY <2>2, <2>3
<1>4. CASE Receiver \/ ReceiverTurn
  <2>1. offered' = offered /\ confirmed' = confirmed
    BY <1>4 DEF Receiver, ReceiverTurn, history
  <2>2. \/ delivered' = delivered
        \/ /\ snd.pkt \in offered /\ delivered[snd.pkt] = 0
           /\ delivered' = [delivered EXCEPT ![snd.pkt] = 1]
    BY <1>1, <1>4, DeliverySteps DEF Receiver, ReceiverTurn
  <2>3. CASE delivered' = delivered
    BY <2>1, <2>3 DEF Delivery!vars
  <2>4. CASE /\ snd.pkt \in offered /\ delivered[snd.pkt] = 0
             /\ delivered' = [delivered EXCEPT ![snd.pkt] = 1]
    BY <1>1, <2>1, <2>4 DEF Delivery!Next, Delivery!Deliver
  <2> QED
    BY <2>2, <2>3, <2>4
<1>5. CASE SenderTurn \/ Link \/ UNCHANGED vars
  BY <1>5 DEF SenderTurn, Link, vars, history, Delivery!vars
<1> QED
  BY <1>2, <1>3, <1>4, <1>5 DEF Next

(* However many packets there are, and whatever the link loses: if each is *)
(* offered when nothing of the earlier sessions is left that would answer  *)
(* its All-1, the machines keep what PacketDelivery promises.  A packet is *)
(* delivered at most once, and its sender is told the end only after that. *)
THEOREM SessionsApartDeliver ==
    Spec /\ [][SessionsApart]_vars => DeliverySpec
BY ConfirmationsInit, ConfirmationsStep, DeliveryInitially,
   DeliveryImplemented, PTL
   DEF Spec, DeliverySpec, Delivery!Spec

(* A session for one packet keeps the promise without that condition.      *)
THEOREM OneSessionDelivers == ASSUME OnePacket PROVE Spec => DeliverySpec
<1>1. ConfirmationInv => SessionsApart
  BY OnePacketApart
<1>2. ConfirmationInv /\ [Next]_vars => ConfirmationInv'
  BY <1>1, ConfirmationsStep
<1> QED
  BY <1>2, ConfirmationsInit, DeliveryInitially, DeliveryImplemented, PTL
     DEF Spec, DeliverySpec, Delivery!Spec

(* A receiver that waits for missing tiles does not hold enough of them.   *)
NotEnough == Misses => ~Enough(rcv)

(* STATE_WAIT_X_MISSING_FRAG never holds enough tiles: the fragment that   *)
(* brings them ends the state, so that the branch of the ACK request for   *)
(* that case is dead code.                                                 *)
THEOREM NeverEnoughWhileMissing == Spec => []NotEnough
<1> DEFINE Inv == PlacesInv /\ NotEnough
<1>1. Init => Inv
  BY PlacesInit DEF Init, ReceiverInit, NoReceiver, NotEnough, Misses
<1>2. Inv /\ [Next]_vars => Inv'
  <2> SUFFICES ASSUME Inv, [Next]_vars PROVE Inv'
    OBVIOUS
  <2>1. PlacesInv'
    BY PlacesStep
  <2>2. CASE rcv' = rcv
    BY <2>1, <2>2 DEF NotEnough, Misses, Enough, Filled
  <2>3. CASE Receiver \/ ReceiverTurn
    <3>1. rcv \in ReceiverRecord /\ up \in Seq(PlacedMessages)
      BY ReceiverPartIs DEF PlacesInv, SenderPart, ReceiverPlaced
    <3>2. \A r \in ReceiverRecord, state \in ReceiverStates :
            Enough([r EXCEPT !.state = state]) <=> Enough(r)
      BY DEF Enough, Filled, ReceiverRecord
    <3>3. \/ rcv'.state # "WAIT_X_MISSING_FRAG"
          \/ rcv' = rcv
          \/ ~Enough(rcv')
      <4>1. CASE RcvFirst \/ RcvDiscard \/ RcvStranger \/ RcvTiles \/ RcvCrash
                   \/ RcvLateAll1 \/ RcvIgnores \/ RcvAgain \/ RcvReaped \/ RcvAckReq
        <5>1. CASE RcvFirst \/ RcvTiles
          BY <3>1, <5>1 DEF RcvFirst, RcvTiles, ReceiverIn, Stored, ReceiverRecord
        <5>2. CASE RcvDiscard \/ RcvStranger \/ RcvCrash
          BY <3>1, <5>2 DEF RcvDiscard, RcvStranger, RcvCrash, ReceiverRecord
        <5>3. CASE RcvLateAll1 \/ RcvIgnores \/ RcvReaped
          BY <5>3 DEF RcvLateAll1, RcvIgnores, RcvReaped, NoReceiver
        <5>4. CASE RcvAgain
          BY <3>1, <5>4 DEF RcvAgain, ReceiverRecord
        <5>5. CASE RcvAckReq
          BY <3>1, <5>5 DEF RcvAckReq, ReceiverRecord
        <5> QED
          BY <4>1, <5>1, <5>2, <5>3, <5>4, <5>5
      <4>2. CASE RcvAll1
        <5> DEFINE r == Marked(rcv, Msg)
        <5>1. /\ up # <<>> /\ Msg.type = "all1"
              /\ rcv.state \in {"RCV_WINDOW", "WAIT_X_ALL1"}
              /\ \/ Deliver(r)
                 \/ rcv' = r
                 \/ rcv' = [r EXCEPT !.state = "WAIT_X_MISSING_FRAG"] /\ ~Enough(r)
          BY <4>2, Zenon DEF RcvAll1, ReceiverIn
        <5>2. r \in ReceiverRecord /\ r.state = rcv.state
          <6>1. Msg \in PlacedMessages /\ ReceiverPlaced(rcv)
            BY <3>1, <5>1, ReceiverPartIs DEF PlacesInv, Msg
          <6>2. \A m : Marked(rcv, m).state = rcv.state
            BY <3>1 DEF Marked, ReceiverRecord
          <6> QED
            BY <5>1, <6>1, <6>2, MarkedInPlace DEF ReceiverPlaced
        <5> HIDE DEF r
        <5> QED
          BY <3>2, <5>1, <5>2, ZenonT(60)
          DEF Deliver, ReceiverStates, ReceiverRecord
      <4>3. CASE RcvMissing
        <5> DEFINE r == [Stored(rcv, Msg) EXCEPT
                           !.last = IF Msg.w > @ THEN Msg.w ELSE @]
        <5>1. \/ rcv' = r /\ ~Enough(r)
              \/ Deliver(r)
              \/ rcv' = [r EXCEPT !.state = "END", !.again = TRUE]
          BY <4>3, Zenon DEF RcvMissing
        <5>2. /\ [r EXCEPT !.state = "END", !.timer = TRUE].state = "END"
              /\ [r EXCEPT !.state = "END", !.again = TRUE].state = "END"
          BY <3>1 DEF Stored, ReceiverRecord
        <5> HIDE DEF r
        <5> QED
          BY <5>1, <5>2 DEF Deliver
      <4> QED
        BY <2>3, <4>1, <4>2, <4>3 DEF Receiver, ReceiverTurn, ReceiverStep
    <3> QED
      BY <2>1, <3>3 DEF NotEnough, Misses, Enough, Filled
  <2> QED
    BY <2>2, <2>3
    DEF Next, Offer, Sender, SenderTurn, Link, vars
<1> QED
  BY <1>1, <1>2, PTL DEF Spec

=============================================================================
