------------------------- MODULE AckOnErrorSender -------------------------
(***************************************************************************)
(* The ACK-on-Error sender (SCHCAckOnErrorSender*.cpp), with the session   *)
(* that runs it: one packet, whose events come in one FIFO where the ACKs  *)
(* of the gateway mix with the expiries of the retransmission timer and    *)
(* the machine's own requests to be executed again.                        *)
(***************************************************************************)
EXTENDS Integers, Sequences, FiniteSets, FiniteSetsExt, SequencesExt

CONSTANTS
    windowSize,     \* tiles in a window: 63
    payloadTiles,   \* tiles that fit in a fragment, by the MTU
    maxAckReq,      \* _maxAckReq: 8
    Sizes,          \* the packets there may be, by their full tiles
    Mechanisms      \* the schc_ack_mechanism settings there may be

(* At the data rates where no tile fits the sender makes no progress       *)
(* whatever it is answered, and no property of these modules is about it.  *)
ASSUME AckOnErrorAssumption ==
    /\ windowSize \in Nat \ {0, 1}
    /\ payloadTiles \in 1 .. windowSize - 1
    /\ maxAckReq \in Nat
    /\ Sizes \subseteq Nat
    /\ Mechanisms \subseteq {"ack_end_win", "ack_end_session", "compound_ack"}

Windows == 0 .. 3
PositionsOf(w) == w * windowSize .. (w + 1) * windowSize - 1

-----------------------------------------------------------------------------
(* The messages.  A fragment carries n full tiles, from the first on, and  *)
(* says where they go by its W and FCN fields only.  An All-1 carries the  *)
(* last tile, an ACK with C = 0 the tiles missing from the windows listed. *)
RegularFragment(w, fcn, first, n) ==
    [type |-> "regular", w |-> w, fcn |-> fcn, first |-> first, n |-> n]
All1(w) == [type |-> "all1", w |-> w]
AckReq(w) == [type |-> "req", w |-> w]
Ack(w) == [type |-> "ack", w |-> w]
Nack(windows, missing) ==
    [type |-> "nack", windows |-> windows, missing |-> missing]
ReceiverAbort == [type |-> "abort"]
Again == [type |-> "again"]
TimerExpired == [type |-> "timer"]

Messages == {"ack", "nack", "abort"}

-----------------------------------------------------------------------------
VARIABLES
    snd,        \* the session and its machine
    air         \* the frames of the last transmission, not answered yet

(* state: _currentState; "dead": told to be reaped; "undefined": past an   *)
(* access outside an array, after which the program may do anything.       *)
(* ptr, window, fcn: _currentTile_ptr, _currentWindow and _currentFcn.     *)
(* bitmap: the bits set in _bitmapArray.  errors: _win_with_errors.        *)
(* confirmed: _last_confirmed_window.  attempts: _rtxAttemptsCounter.      *)
(* lacking: not in the code, what was never sent, or not since an ACK the  *)
(* machine decoded said that it was missing; unheeded: those of them whose *)
(* bit was set.  stray: whether an ACK came while the machine was sending, *)
(* or, in ACK_END_WIN, was of another window.                              *)
nWindows == snd.nFullTiles \div windowSize + 1

FullTiles == 0 .. snd.nFullTiles - 1

(* The place of the last tile, the one of the All-1.                       *)
LastTile == nWindows * windowSize - 1

SenderInit ==
    /\ \E mechanism \in Mechanisms, size \in Sizes :
         snd = [state |-> "INIT", mechanism |-> mechanism, nFullTiles |-> size,
                ptr |-> 0, window |-> 0, fcn |-> windowSize - 1,
                bitmap |-> {}, errors |-> <<>>, confirmed |-> 0,
                attempts |-> 0, timer |-> FALSE, queue |-> <<Again>>,
                lacking |-> {}, unheeded |-> {}, stray |-> FALSE]
    /\ air = <<>>

Handles(state, types) ==
    /\ snd.state = state
    /\ snd.queue # <<>>
    /\ Head(snd.queue).type \in types

Taken == [snd EXCEPT !.queue = Tail(@)]

ThenAgain(s, state) ==
    [s EXCEPT !.state = state, !.queue = Append(@, Again)]

(* Mutant: the timer is not started.                                       *)
ThenWaitUntimed(s) == [s EXCEPT !.state = "WAIT_x_ACK"]

(* executeTimer() on the way to STATE_WAIT_x_ACK.                          *)
ThenWait(s) == [s EXCEPT !.state = "WAIT_x_ACK", !.timer = TRUE]

Sent(s, frames) ==
    [s EXCEPT !.lacking =
        @ \ UNION {IF f.type = "regular" THEN f.first .. f.first + f.n - 1
                   ELSE IF f.type = "all1" THEN {LastTile} ELSE {} :
                   f \in {frames[i] : i \in DOMAIN frames}}]

-----------------------------------------------------------------------------
(* STATE_INIT: the packet is cut in tiles; one larger than the tiles of    *)
(* four windows is dropped and the session stays as it is.                 *)
Start ==
    /\ Handles("INIT", {"again"})
    /\ snd' = IF snd.nFullTiles < 4 * windowSize
                THEN ThenAgain([Taken EXCEPT
                                  !.lacking = FullTiles \cup {LastTile}],
                               "SEND")
                ELSE Taken
    /\ UNCHANGED air

(* STATE_SEND runs on any event but an expiry, and reads none of them.     *)
Sending == Handles("SEND", {"again"} \cup Messages)

Resumed ==
    [Taken EXCEPT !.stray = @ \/ Head(snd.queue).type \in Messages]

Remaining ==
    IF snd.mechanism = "ack_end_win" /\ snd.window # nWindows - 1
      THEN snd.fcn + 1
      ELSE snd.nFullTiles - snd.ptr

(* Mutant: the tiles that open the next window are not told from this's.   *)
AdvancedInWindow(s, n) ==
    [s EXCEPT !.ptr = @ + n,
              !.fcn = IF n > @ THEN @ + windowSize - n ELSE @ - n]

(* The counters after n more tiles that do not end the window or session.  *)
Advanced(s, n) ==
    IF n > s.fcn /\ s.mechanism # "ack_end_win"
      THEN [s EXCEPT !.ptr = @ + n, !.fcn = @ + windowSize - n,
                     !.window = @ + 1]
      ELSE [s EXCEPT !.ptr = @ + n, !.fcn = @ - n]

SendFragment ==
    /\ Sending
    /\ Remaining > payloadTiles
    /\ snd.ptr + payloadTiles <= snd.nFullTiles
    /\ LET frames == <<RegularFragment(snd.window, snd.fcn, snd.ptr,
                                       payloadTiles)>>
       IN  /\ air' = frames
           /\ snd' = ThenAgain(Advanced(Sent(Resumed, frames), payloadTiles),
                               "SEND")

(* Mutant: the FCN of the next window goes on from this one's.             *)
CompletedUnwrapped(s, n) ==
    ThenWait([s EXCEPT !.ptr = @ + n, !.fcn = @ - n])

(* Mutant: the machine asks to be executed again after its last fragment.  *)
CompletedAgain(s, n) ==
    ThenAgain(ThenWait([s EXCEPT !.ptr = @ + n, !.fcn = windowSize - 1]),
              "WAIT_x_ACK")

(* Only ACK_END_WIN goes on with another window from here.                 *)
Completed(s, n) ==
    ThenWait([s EXCEPT !.ptr = @ + n,
                       !.fcn = IF s.mechanism = "ack_end_win"
                                 THEN windowSize - 1 ELSE @])

(* The fragment that ends a window, or the session, perhaps without a full *)
(* tile in it; and the All-1 if the sender is in the last window.          *)
SendLast ==
    /\ Sending
    /\ Remaining <= payloadTiles
    /\ snd.ptr + Remaining <= snd.nFullTiles
    /\ LET frames ==
             <<RegularFragment(snd.window, snd.fcn, snd.ptr, Remaining)>>
             \o (IF snd.window = nWindows - 1
                   THEN <<All1(snd.window)>> ELSE <<>>)
       IN  /\ air' = frames
           /\ snd' = Completed(Sent(Resumed, frames), Remaining)

(* extractTiles() past the end of _tilesArray.                             *)
SendBeyond ==
    /\ Sending
    /\ snd.ptr + (IF Remaining > payloadTiles THEN payloadTiles ELSE Remaining)
         > snd.nFullTiles
    /\ snd' = [Resumed EXCEPT !.state = "undefined"]
    /\ UNCHANGED air

-----------------------------------------------------------------------------
(* STATE_WAIT_x_ACK: execute() without a message reads its first byte.     *)
WaitWithoutMessage ==
    /\ Handles("WAIT_x_ACK", {"again"})
    /\ snd' = [Taken EXCEPT !.state = "undefined"]
    /\ UNCHANGED air

(* The window of an ACK, the first of those of a compound ACK.             *)
WindowOf(m) == IF m.type = "ack" THEN m.w ELSE Head(m.windows)

(* timer.stop(): an expiry that is in the queue already stays there.       *)
AckTaken(m) ==
    [Taken EXCEPT !.timer = FALSE, !.attempts = 0,
                  !.stray = @ \/ /\ snd.mechanism = "ack_end_win"
                                 /\ snd.window # WindowOf(m)]

(* decodeMsg() of C = 1, and what each mechanism makes of it.              *)
WaitAck ==
    /\ Handles("WAIT_x_ACK", {"ack"})
    /\ LET m == Head(snd.queue)
           s == [AckTaken(m) EXCEPT !.bitmap = @ \cup PositionsOf(m.w)]
       IN  snd' = CASE snd.mechanism = "ack_end_win" ->
                         ThenAgain([s EXCEPT !.window = @ + 1],
                                   IF m.w = nWindows - 1
                                     THEN "END" ELSE "SEND")
                    [] snd.mechanism = "ack_end_session" ->
                         ThenAgain([s EXCEPT !.confirmed = m.w], "END")
                    [] snd.mechanism = "compound_ack" ->
                         ThenAgain([s EXCEPT !.errors = Append(@, m.w)], "END")
    /\ UNCHANGED air

(* decodeMsg() of C = 0.  A compound ACK replaces the bitmaps it has, and  *)
(* its windows the ones to repair; the bits of the other ACKs are put      *)
(* behind those of the window, where no one looks.                         *)
NackDecoded(s, m) ==
    LET listed == UNION {PositionsOf(w) : w \in {m.windows[i] :
                                                 i \in DOMAIN m.windows}}
        t == [s EXCEPT !.lacking = @ \cup m.missing]
        u == [t EXCEPT !.unheeded = @ \cup (m.missing \cap s.bitmap)]
    IN  CASE s.mechanism = "ack_end_win" -> u
          [] s.mechanism = "ack_end_session" ->
               [u EXCEPT !.confirmed = WindowOf(m)]
          [] s.mechanism = "compound_ack" ->
               [t EXCEPT !.bitmap = (@ \cup listed) \ m.missing,
                         !.errors = IF Len(m.windows) > 1
                                      THEN m.windows
                                      ELSE @ \o m.windows]

WaitNack ==
    /\ Handles("WAIT_x_ACK", {"nack"})
    /\ LET m == Head(snd.queue)
       IN  snd' = ThenAgain(NackDecoded(AckTaken(m), m), "RESEND")
    /\ UNCHANGED air

(* Mutant: the attempts are not counted.                                   *)
WaitTimerUncounted ==
    /\ Handles("WAIT_x_ACK", {"timer"})
    /\ air' = <<AckReq(snd.window)>>
    /\ snd' = ThenWait(Taken)

(* An ACK request, or no more of them.                                     *)
WaitTimer ==
    /\ Handles("WAIT_x_ACK", {"timer"})
    /\ IF snd.attempts <= maxAckReq
         THEN /\ air' = <<AckReq(snd.window)>>
              /\ snd' = ThenWait([Taken EXCEPT !.attempts = @ + 1])
         ELSE /\ snd' = ThenAgain(Taken, "ERROR")
              /\ UNCHANGED air

-----------------------------------------------------------------------------
(* STATE_RESEND_MISSING_FRAG: the window to repair, the full tiles of it,  *)
(* those that are missing, and the first of these that fit in a fragment.  *)
Repaired ==
    CASE snd.mechanism = "ack_end_win" -> snd.window
      [] snd.mechanism = "ack_end_session" -> snd.confirmed
      [] snd.mechanism = "compound_ack" -> Head(snd.errors)

last_ptr ==
    IF Repaired = nWindows - 1
      THEN snd.nFullTiles - (nWindows - 1) * windowSize
      ELSE windowSize

Missing == {i \in 0 .. last_ptr - 1 :
              Repaired * windowSize + i \notin snd.bitmap}

bitmap_ptr == Min(Missing)

(* Mutant: the tiles after a gap are taken for adjacent.                   *)
NTilesAcrossGaps == Min({Cardinality(Missing), payloadTiles})

n_tiles_to_send ==
    Max({n \in 1 .. payloadTiles :
           bitmap_ptr .. bitmap_ptr + n - 1 \subseteq Missing})

Resend ==
    /\ Handles("RESEND", {"again"})
    /\ Missing # {}
    /\ LET first == Repaired * windowSize + bitmap_ptr
           n == n_tiles_to_send
           frames == <<RegularFragment(Repaired, windowSize - 1 - bitmap_ptr,
                                       first, n)>>
           s == [Sent(Taken, frames) EXCEPT
                   !.bitmap = @ \cup first .. first + n - 1,
                   !.confirmed = IF snd.mechanism = "compound_ack"
                                   THEN Repaired ELSE @]
       IN  /\ air' = frames
           /\ snd' = CASE Cardinality(Missing) > n -> ThenAgain(s, "RESEND")
                       [] Cardinality(Missing) = n
                            /\ snd.mechanism # "compound_ack" -> ThenWait(s)
                       [] Cardinality(Missing) = n
                            /\ snd.mechanism = "compound_ack"
                            /\ Len(snd.errors) = 1 ->
                              ThenWait([s EXCEPT !.errors = <<>>])
                       [] OTHER ->
                              ThenAgain([s EXCEPT !.errors = Tail(@)],
                                        "RESEND")

(* Nothing is missing from the window.  ACK_END_WIN looks for the last     *)
(* tile, and does nothing at all when the window has no full tile.         *)
ResendNothing ==
    /\ Handles("RESEND", {"again"})
    /\ Missing = {}
    /\ snd' = CASE snd.mechanism = "ack_end_win" ->
                     IF last_ptr > 0 THEN ThenWait(Taken) ELSE Taken
                [] snd.mechanism = "ack_end_session" -> ThenWait(Taken)
                [] snd.mechanism = "compound_ack" ->
                     LET s == [Taken EXCEPT !.confirmed = Repaired,
                                            !.errors = Tail(@)]
                     IN  IF s.errors = <<>>
                           THEN ThenWait(s) ELSE ThenAgain(s, "RESEND")
    /\ UNCHANGED air

-----------------------------------------------------------------------------
(* STATE_END and STATE_ERROR tell the session that it can be reaped.       *)
Finish ==
    /\ \/ Handles("END", {"again", "timer"} \cup Messages)
       \/ Handles("ERROR", {"again"} \cup Messages)
    /\ snd' = [Taken EXCEPT !.state = "dead"]
    /\ UNCHANGED air

(* The events that a state takes and does nothing about: a message while   *)
(* it resends, an expiry where none is expected, a Receiver-Abort.         *)
Ignore ==
    /\ \/ Handles("RESEND", {"timer"} \cup Messages)
       \/ Handles("SEND", {"timer"})
       \/ Handles("ERROR", {"timer"})
       \/ Handles("WAIT_x_ACK", {"abort"})
    /\ snd' = Taken
    /\ UNCHANGED air

SenderNext ==
    \/ Start \/ SendFragment \/ SendLast \/ SendBeyond
    \/ WaitWithoutMessage \/ WaitAck \/ WaitNack \/ WaitTimer
    \/ Resend \/ ResendNothing
    \/ Finish \/ Ignore

=============================================================================
