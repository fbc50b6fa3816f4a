--------------------------- MODULE ArqFecSender ---------------------------
(***************************************************************************)
(* The ARQ-FEC sender (SCHCArqFecSender*.cpp), with the session that runs  *)
(* it: one packet at a time, its events in one FIFO where the messages of  *)
(* the stack mix with the machine's own requests to be executed again.     *)
(***************************************************************************)
EXTENDS ArqFecLink

VARIABLE snd

(* state: _currentState ("none": no session; "dead": told to be reaped).   *)
(* ptr, window, fcn: _currentTile_ptr, _currentWindow and _currentFcn.     *)
(* bitmap: the bits set in _bitmapArray.  errors: _win_with_errors.        *)
(* queue: the eventQueue of the session.                                   *)
SenderStates == {"none", "SEND", "WAIT_x_SESSION_ACK", "RESEND_MISSING_TILES",
                 "END", "dead"}
Again == [type |-> "again"]

SenderTypeOK ==
    snd \in [state : SenderStates, pkt : Packets \cup {NoPacket},
             ptr : 0 .. nFullTiles, window : Windows,
             fcn : 0 .. windowSize - 1, bitmap : SUBSET Positions,
             errors : SUBSET Windows, queue : Seq(DownMessages \cup {Again})]

NoSender ==
    [state |-> "none", pkt |-> NoPacket, ptr |-> 0, window |-> 0,
     fcn |-> windowSize - 1, bitmap |-> {}, errors |-> {}, queue |-> <<>>]

SenderInit == snd = NoSender

-----------------------------------------------------------------------------
(* The next n tiles of the packet, labelled with the sender's counters.    *)
Fragment(s, n) == RegularFragment(s.pkt, s.window, s.fcn, s.ptr, n)

(* Mutant: the tiles of the next window are not told from this one's.      *)
AdvancedInWindow(s, n) ==
    [s EXCEPT !.ptr = @ + n,
              !.fcn = IF n > @ THEN @ + windowSize - n ELSE @ - n]

(* Mutant: the FCN does not start over in the next window.                 *)
AdvancedUnwrapped(s, n) ==
    [s EXCEPT !.ptr = @ + n, !.fcn = @ - n,
              !.window = IF n > s.fcn THEN @ + 1 ELSE @]

(* The counters after n more tiles: when they run into the next window the *)
(* FCN starts over.                                                        *)
Advanced(s, n) ==
    IF n > s.fcn
      THEN [s EXCEPT !.ptr = @ + n, !.fcn = @ + windowSize - n,
                     !.window = @ + 1]
      ELSE [s EXCEPT !.ptr = @ + n, !.fcn = @ - n]

(* Mutant: the last window is taken for one more.                          *)
LastFragmentsOneOff(s, n) ==
    <<Fragment(s, n)>>
    \o (IF s.window = nWindows THEN <<All1(s.pkt, s.window)>> ELSE <<>>)

(* The last tiles, and the All-1 if the sender is in the last window.      *)
LastFragments(s, n) ==
    <<Fragment(s, n)>>
    \o (IF s.window = nWindows - 1 THEN <<All1(s.pkt, s.window)>> ELSE <<>>)

(* A new session and its first event: STATE_INIT sends the first tiles,    *)
(* all of them if they fit.                                                *)
SenderOpen(p) ==
    /\ snd.state = "none"
    /\ LET s == [NoSender EXCEPT !.pkt = p]
           remaining == IF nWindows = 1 THEN nFullTiles ELSE windowSize
       IN  IF remaining > payloadTiles
             THEN /\ SendUp(<<Fragment(s, payloadTiles)>>)
                  /\ snd' = [s EXCEPT !.state = "SEND",
                                      !.ptr = payloadTiles,
                                      !.fcn = @ - payloadTiles,
                                      !.queue = <<Again>>]
             ELSE /\ SendUp(LastFragments(s, remaining))
                  /\ snd' = [s EXCEPT !.state = "WAIT_x_SESSION_ACK",
                                      !.ptr = remaining]
    /\ UNCHANGED <<down, losses>>

(* runRx() puts a message in the session's queue; without a session it is  *)
(* a delayed one and is dropped.                                           *)
SenderHears ==
    /\ down # <<>>
    /\ down' = Tail(down)
    /\ snd' = IF snd.state = "none" THEN snd
              ELSE [snd EXCEPT !.queue = Append(@, Head(down))]
    /\ UNCHANGED <<up, losses>>

-----------------------------------------------------------------------------
(* The event at the head of the queue, and the machine without it.         *)
Event == Head(snd.queue)
Rest == [snd EXCEPT !.queue = Tail(@)]
ExecuteAgain(s) == [s EXCEPT !.queue = Append(@, Again)]

SenderIn(state) == snd.state = state /\ snd.queue # <<>>

(* STATE_SEND, executed again: more tiles, then the last ones.  The window *)
(* is not brought up to date after those.                                  *)
SendMore ==
    /\ SenderIn("SEND")
    /\ Event = Again
    /\ nFullTiles - snd.ptr > payloadTiles
    /\ SendUp(<<Fragment(snd, payloadTiles)>>)
    /\ snd' = ExecuteAgain(Advanced(Rest, payloadTiles))
    /\ UNCHANGED <<down, losses>>

SendLast ==
    /\ SenderIn("SEND")
    /\ Event = Again
    /\ nFullTiles - snd.ptr <= payloadTiles
    /\ SendUp(LastFragments(snd, nFullTiles - snd.ptr))
    /\ snd' = [Rest EXCEPT !.state = "WAIT_x_SESSION_ACK",
                           !.ptr = nFullTiles]
    /\ UNCHANGED <<down, losses>>

(* The receiver has enough symbols: the rest is not sent.  The request to  *)
(* be executed again stays in the queue.                                   *)
SendCut ==
    /\ SenderIn("SEND")
    /\ IsAck(Event, 1)
    /\ SendUp(<<All1(snd.pkt, snd.window)>>)
    /\ snd' = [Rest EXCEPT !.state = "WAIT_x_SESSION_ACK"]
    /\ UNCHANGED <<down, losses>>

(* Mutant: any ACK with C = 1 ends the session.                            *)
ConfirmsIfPositive(m) == m.type = "ack"

Confirms(m) == IsAck(m, 3)

SenderConfirmed ==
    /\ SenderIn("WAIT_x_SESSION_ACK") \/ SenderIn("RESEND_MISSING_TILES")
    /\ Confirms(Event)
    /\ snd' = ExecuteAgain([Rest EXCEPT !.state = "END"])
    /\ UNCHANGED linkVars

(* Mutant: the state changes without executeAgain().                       *)
ReportedOnly(s) == s

Reported(s) == ExecuteAgain(s)

(* A compound ACK: the bitmaps it lists replace the sender's.              *)
SenderReported ==
    /\ SenderIn("WAIT_x_SESSION_ACK")
    /\ IsCompound(Event)
    /\ LET listed == UNION {PositionsOf(w) : w \in Event.windows}
       IN  snd' = Reported([Rest EXCEPT
                    !.state = "RESEND_MISSING_TILES",
                    !.errors = Event.windows,
                    !.bitmap = (@ \ listed) \cup (Event.bitmap \cap listed)])
    /\ UNCHANGED linkVars

(* The missing tiles of the first window in error, and the first run of    *)
(* them that fits in a fragment.                                           *)
FrontWindow == CHOOSE w \in snd.errors : \A v \in snd.errors : w <= v
Missing(bitmap) ==
    {i \in PositionsOf(FrontWindow) : i < nFullTiles} \ bitmap
FirstMissing == CHOOSE i \in Missing(snd.bitmap) :
                    \A j \in Missing(snd.bitmap) : i <= j
Run == {i \in FirstMissing .. FirstMissing + payloadTiles - 1 :
            FirstMissing .. i \subseteq Missing(snd.bitmap)}

ResendFragment ==
    IF Missing(snd.bitmap) = {} THEN <<>>
    ELSE <<RegularFragment(snd.pkt, FrontWindow,
                           windowSize - 1 - (FirstMissing % windowSize),
                           FirstMissing, Cardinality(Run))>>

(* Mutant: the last window in error is forgotten.                          *)
DropsLastWindow(s) == {w \in s.errors : w # FrontWindow /\ w # nWindows - 1}

(* The windows still to do once FrontWindow is done.                       *)
WindowsLeft(s) == s.errors \ {FrontWindow}

Resend ==
    /\ SenderIn("RESEND_MISSING_TILES")
    /\ Event = Again
    /\ LET marked == snd.bitmap \cup
                       (IF Missing(snd.bitmap) = {} THEN {} ELSE Run)
           s == [Rest EXCEPT !.bitmap = marked]
       IN  IF Missing(marked) # {}
             THEN /\ SendUp(ResendFragment)
                  /\ snd' = ExecuteAgain(s)
             ELSE LET left == WindowsLeft(snd)
                  IN  IF left # {}
                        THEN /\ SendUp(ResendFragment)
                             /\ snd' = ExecuteAgain([s EXCEPT !.errors = left])
                        ELSE /\ SendUp(ResendFragment \o <<AckReq>>)
                             /\ snd' = [s EXCEPT
                                          !.errors = {},
                                          !.state = "WAIT_x_SESSION_ACK"]
    /\ UNCHANGED <<down, losses>>

(* Everything else is ignored: a stale request to be executed again in     *)
(* WAIT, any other message.                                                *)
Ignored(m) ==
    CASE snd.state = "SEND" -> m # Again /\ ~IsAck(m, 1)
      [] snd.state = "WAIT_x_SESSION_ACK" -> ~Confirms(m) /\ ~IsCompound(m)
      [] snd.state = "RESEND_MISSING_TILES" -> m # Again /\ ~Confirms(m)
      [] OTHER -> snd.state = "dead"

SenderIgnores ==
    /\ snd.queue # <<>>
    /\ Ignored(Event)
    /\ snd' = Rest
    /\ UNCHANGED linkVars

(* STATE_END: any event declares the session dead; the core reaps it with  *)
(* what its queue holds.                                                   *)
SenderEnds ==
    /\ SenderIn("END")
    /\ snd' = [Rest EXCEPT !.state = "dead"]
    /\ UNCHANGED linkVars

SenderReaped ==
    /\ snd.state = "dead"
    /\ snd' = NoSender
    /\ UNCHANGED linkVars

SenderStep ==
    \/ SendMore \/ SendLast \/ SendCut \/ SenderConfirmed \/ SenderReported
    \/ Resend \/ SenderIgnores \/ SenderEnds

=============================================================================
