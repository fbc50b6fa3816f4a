-------------------------- MODULE ArqFecReceiver --------------------------
(***************************************************************************)
(* The ARQ-FEC receiver (SCHCArqFecReceiver*.cpp), with the session that   *)
(* runs it: runRx() opens one for any fragment that finds none.  The       *)
(* channel to the receiver stands for its event queue too.                 *)
(***************************************************************************)
EXTENDS ArqFecLink

VARIABLES
    rcv,
    delivered   \* how often each packet went to the backhaul core

(* got: the columns of _encodedMatrix that _encodedMatrixMap marks.        *)
(* bitmap: the bits set in _bitmapArray.  last, rcs: _last_window and _rcs,*)
(* which nothing initialises and nothing reads before the All-1 sets them. *)
(* again: an ExecuteAgain event is in the queue.  timer: the inactivity    *)
(* timer runs.                                                             *)
ReceiverStates == {"none", "INIT", "RCV_WINDOW", "WAIT_X_ALL1",
                   "WAIT_X_MISSING_FRAG", "END", "crashed"}

Columns == 0 .. nFullTiles - 1

ReceiverTypeOK ==
    /\ rcv \in [state : ReceiverStates, got : [Columns -> Tiles \cup {NoTile}],
                bitmap : SUBSET Positions, last : Windows,
                rcs : Packets \cup {NoPacket}, again : BOOLEAN,
                timer : BOOLEAN]
    /\ delivered \in [Packets -> Nat]

NoReceiver ==
    [state |-> "none", got |-> [i \in Columns |-> NoTile], bitmap |-> {},
     last |-> 0, rcs |-> NoPacket, again |-> FALSE, timer |-> FALSE]

ReceiverInit ==
    /\ rcv = NoReceiver
    /\ delivered = [p \in Packets |-> 0]

-----------------------------------------------------------------------------
Msg == Head(up)

ReceiverIn(state) == rcv.state = state /\ up # <<>>

(* The message opens a session, or is the first that STATE_INIT lets in.   *)
AtStart == rcv.state \in {"none", "INIT"} /\ up # <<>>

Consume == up' = Tail(up) /\ UNCHANGED losses
Quietly == UNCHANGED <<down, delivered>>

(* get_tile_ptr() and the loop that stores the tiles of a fragment.        *)
PlaceOf(m) == (m.w + 1) * windowSize - 1 - m.fcn
PlacesOf(m) == PlaceOf(m) .. PlaceOf(m) + m.n - 1

Stored(r, m) ==
    [r EXCEPT
        !.got = [i \in Columns |->
                    IF i \in PlacesOf(m)
                      THEN [pkt |-> m.pkt, idx |-> m.first + i - PlaceOf(m)]
                      ELSE r.got[i]],
        !.bitmap = @ \cup PlacesOf(m)]

(* checkEnoughSymbols().                                                   *)
Filled(r) == {i \in Columns : r.got[i] # NoTile}
Enough(r) == Cardinality(Filled(r)) >= ksymbols

(* The decoder makes up for erasures and, as far as its symbols go, for    *)
(* columns that are wrong; the RCS tells whether this gave the packet the  *)
(* All-1 is of.                                                            *)
Wrong(r) == {i \in Filled(r) : r.got[i] # [pkt |-> r.rcs, idx |-> i]}
Decodes(r) == 2 * Cardinality(Wrong(r)) + ksymbols <= Cardinality(Filled(r))

(* The windows before the last that miss a tile, and always the last.      *)
WindowsWithError(r) ==
    {w \in Windows : w < r.last /\ ~(PositionsOf(w) \subseteq r.bitmap)}
    \cup {r.last}

SendCompound(r) ==
    SendDown(<<Compound(WindowsWithError(r),
                        r.bitmap \cap UNION {PositionsOf(w) :
                                             w \in WindowsWithError(r)})>>)

(* The session is confirmed and the packet goes to the backhaul core.      *)
Deliver(r) ==
    /\ SendDown(<<Ack(3)>>)
    /\ delivered' = [delivered EXCEPT ![r.rcs] = @ + 1]
    /\ rcv' = [r EXCEPT !.state = "END", !.timer = TRUE]

-----------------------------------------------------------------------------
(* STATE_INIT.                                                             *)

RcvFirst ==
    /\ AtStart
    /\ Msg.type = "regular"
    /\ rcv' = [Stored(rcv, Msg) EXCEPT !.state = "RCV_WINDOW"]
    /\ Consume
    /\ Quietly

(* The receiver itself throws fragments away (error_prob); the first still *)
(* opens a session.                                                        *)
RcvDiscard ==
    /\ ReceiverIn("none")
    /\ Msg.type = "regular"
    /\ losses < MaxLoss
    /\ rcv' = [rcv EXCEPT !.state = "INIT"]
    /\ up' = Tail(up)
    /\ losses' = losses + 1
    /\ Quietly

RcvStranger ==
    /\ AtStart
    /\ Msg.type # "regular"
    /\ rcv' = [rcv EXCEPT !.state = "END", !.again = TRUE]
    /\ Consume
    /\ Quietly

-----------------------------------------------------------------------------
(* STATE_RCV_WINDOW and STATE_WAIT_X_ALL1.                                 *)

RcvTiles ==
    /\ ReceiverIn("RCV_WINDOW")
    /\ Msg.type = "regular"
    /\ LET r == Stored(rcv, Msg)
       IN  IF Enough(r)
             THEN /\ rcv' = [r EXCEPT !.state = "WAIT_X_ALL1"]
                  /\ SendDown(<<Ack(1)>>)
             ELSE /\ rcv' = r
                  /\ UNCHANGED down
    /\ Consume
    /\ UNCHANGED delivered

(* Mutant: the last window is taken from the fragments, not the All-1.     *)
MarkedWithoutLast(r, m) == [r EXCEPT !.rcs = m.pkt]

(* What an All-1 leaves behind; the bit of the last place of its window is *)
(* set whatever tile belongs there.                                        *)
Marked(r, m) ==
    [r EXCEPT !.last = m.w, !.rcs = m.pkt,
              !.bitmap = @ \cup {(m.w + 1) * windowSize - 1}]

RcvAll1 ==
    /\ ReceiverIn("RCV_WINDOW") \/ ReceiverIn("WAIT_X_ALL1")
    /\ Msg.type = "all1"
    /\ LET r == Marked(rcv, Msg)
       IN  \/ /\ Enough(r)
              /\ Decodes(r)
              /\ Deliver(r)
           \/ /\ Enough(r)
              /\ ~Decodes(r)
              /\ rcv' = r
              /\ Quietly
           \/ /\ ~Enough(r)
              /\ rcv' = [r EXCEPT !.state = "WAIT_X_MISSING_FRAG"]
              /\ SendCompound(r)
              /\ UNCHANGED delivered
    /\ Consume

(* The constructor of STATE_WAIT_X_ALL1 resizes _bitmapArray to _nWindows, *)
(* which nothing has set: the bit of the All-1 may be written past it.     *)
RcvCrash ==
    /\ ReceiverIn("WAIT_X_ALL1")
    /\ Msg.type = "all1"
    /\ rcv' = [rcv EXCEPT !.state = "crashed"]
    /\ Consume
    /\ Quietly

-----------------------------------------------------------------------------
(* STATE_WAIT_X_MISSING_FRAG.                                              *)

RcvMissing ==
    /\ ReceiverIn("WAIT_X_MISSING_FRAG")
    /\ Msg.type = "regular"
    /\ LET r == [Stored(rcv, Msg) EXCEPT
                    !.last = IF Msg.w > @ THEN Msg.w ELSE @]
       IN  \/ /\ ~Enough(r)
              /\ rcv' = r
              /\ Quietly
           \/ /\ Enough(r)
              /\ Decodes(r)
              /\ Deliver(r)
           \/ /\ Enough(r)
              /\ ~Decodes(r)
              /\ rcv' = [r EXCEPT !.state = "END", !.again = TRUE]
              /\ Quietly
    /\ Consume

(* The case of enough symbols does not arise: RcvMissing leaves the state  *)
(* with the fragment that brings them.                                     *)
RcvAckReq ==
    /\ ReceiverIn("WAIT_X_MISSING_FRAG")
    /\ Msg.type = "req"
    /\ IF Enough(rcv)
         THEN /\ SendDown(<<Ack(1)>>)
              /\ rcv' = [rcv EXCEPT !.state = "END", !.again = TRUE]
         ELSE SendCompound(rcv) /\ UNCHANGED rcv
    /\ Consume
    /\ UNCHANGED delivered

-----------------------------------------------------------------------------
(* STATE_END.                                                              *)

(* An All-1 is confirmed, whatever it is of.                               *)
RcvLateAll1 ==
    /\ ReceiverIn("END")
    /\ Msg.type = "all1"
    /\ SendDown(<<Ack(3)>>)
    /\ Consume
    /\ UNCHANGED <<rcv, delivered>>

RcvIgnores ==
    /\ \/ ReceiverIn("RCV_WINDOW") /\ Msg.type = "req"
       \/ ReceiverIn("WAIT_X_ALL1") /\ Msg.type # "all1"
       \/ ReceiverIn("WAIT_X_MISSING_FRAG") /\ Msg.type = "all1"
       \/ ReceiverIn("END") /\ Msg.type # "all1"
    /\ Consume
    /\ Quietly
    /\ UNCHANGED rcv

(* Executed again, the machine starts the inactivity timer.                *)
RcvAgain ==
    /\ rcv.state = "END"
    /\ rcv.again
    /\ rcv' = [rcv EXCEPT !.again = FALSE, !.timer = TRUE]
    /\ UNCHANGED <<linkVars, delivered>>

(* The timer expires, the session is dead and the core reaps it, with the  *)
(* messages that its queue holds.                                          *)
RcvReaped ==
    /\ rcv.state = "END"
    /\ rcv.timer
    /\ rcv' = NoReceiver
    /\ \E n \in 0 .. Len(up) : up' = SubSeq(up, n + 1, Len(up))
    /\ UNCHANGED <<down, losses, delivered>>

ReceiverStep ==
    \/ RcvFirst \/ RcvStranger \/ RcvTiles \/ RcvAll1 \/ RcvCrash
    \/ RcvMissing \/ RcvAckReq \/ RcvLateAll1 \/ RcvIgnores \/ RcvAgain

=============================================================================
