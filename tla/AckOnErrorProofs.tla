--------------------------- MODULE AckOnErrorProofs ---------------------------
(***************************************************************************)
(* Theorems about AckOnError for windows and packets of any size, and any  *)
(* number of attempts and answers, with proofs that TLAPS checks.          *)
(***************************************************************************)
EXTENDS AckOnError, FiniteSetTheorems, SequenceTheorems, WellFoundedInduction,
        TLAPS

-----------------------------------------------------------------------------
(* Places of tiles.                                                        *)

(* The place of the first tile of a window.                                *)
Place(w) == w * windowSize

LEMMA NextPlace == \A w \in Int : Place(w + 1) = Place(w) + windowSize
BY AckOnErrorAssumption DEF Place

LEMMA PlacesAscend == \A a, b \in Int : a <= b => Place(a) <= Place(b)
<1> SUFFICES ASSUME NEW a \in Int, NEW b \in Int, a <= b
             PROVE  Place(a) <= Place(b)
  OBVIOUS
<1>1. (b - a) * windowSize >= 0
  BY AckOnErrorAssumption
<1>2. b * windowSize = a * windowSize + (b - a) * windowSize
  BY AckOnErrorAssumption
<1> QED
  BY <1>1, <1>2, AckOnErrorAssumption DEF Place

(* The last window begins in the packet or where it ends.                  *)
LEMMA LastWindow ==
    ASSUME NEW n \in Nat
    PROVE  /\ n \div windowSize \in Nat
           /\ Place(n \div windowSize) <= n
           /\ n < Place(n \div windowSize + 1)
<1>1. windowSize \in Nat \ {0}
  BY AckOnErrorAssumption
<1>2. n \div windowSize \in Nat
  BY <1>1
<1>3. /\ (n \div windowSize) * windowSize <= n
      /\ n < (n \div windowSize) * windowSize + windowSize
  BY <1>1
<1> QED
  BY <1>2, <1>3, NextPlace DEF Place

LEMMA LeastIs ==
    ASSUME NEW S \in SUBSET Nat, S # {}
    PROVE  \E k \in S : \A j \in S : k <= j
<1>1. \E k \in S : \A j \in S : ~(<<j, k>> \in OpToRel(<, Nat))
  BY NatLessThanWellFounded, WFMin
<1>2. OpToRel(<, Nat) = {p \in Nat \X Nat : p[1] < p[2]}
  BY Zenon DEF OpToRel
<1>3. \A j, k \in Nat : <<j, k>> \in {p \in Nat \X Nat : p[1] < p[2]} <=> j < k
  BY SMT
<1>4. \E k \in S : \A j \in S : ~(j < k)
  BY <1>1, <1>2, <1>3
<1> QED
  BY <1>4

-----------------------------------------------------------------------------
(* The invariant.                                                          *)

SndFields ==
    {"state", "mechanism", "nFullTiles", "ptr", "window", "fcn", "bitmap",
     "errors", "confirmed", "attempts", "timer", "queue", "lacking",
     "unheeded", "stray"}

SentWindows == 0 .. nWindows - 1

ListedTiles(windows) ==
    UNION {PositionsOf(w) : w \in {windows[i] : i \in DOMAIN windows}}

(* Only compound ACKs list more than one window.                           *)
Listings ==
    {windows \in Seq(SentWindows) :
       /\ windows # <<>>
       /\ snd.mechanism = "compound_ack" \/ Len(windows) = 1}

Events ==
    {Again, TimerExpired, ReceiverAbort}
    \cup {Ack(w) : w \in SentWindows}
    \cup UNION {{Nack(windows, missing) : missing \in SUBSET ListedTiles(windows)} :
                windows \in Listings}

AirIsSequence == \E S : air \in Seq(S)

Settings ==
    /\ DOMAIN snd = SndFields
    /\ snd.mechanism \in {"ack_end_win", "ack_end_session", "compound_ack"}
    /\ snd.nFullTiles \in Nat
    /\ snd.queue \in Seq(Events)
    /\ AirIsSequence

(* Where the sender is in the packet.  Only an ACK of another window than  *)
(* the last moves ACK_END_WIN past the last.                               *)
Positions ==
    /\ snd.window \in Nat /\ snd.fcn \in 0 .. windowSize - 1 /\ snd.ptr \in Nat
    /\ snd.state \in {"INIT", "SEND"} =>
         \/ /\ snd.window \in SentWindows
            /\ snd.ptr = Place(snd.window) + (windowSize - 1 - snd.fcn)
            /\ snd.ptr <= snd.nFullTiles
         \/ /\ snd.window = nWindows /\ snd.mechanism = "ack_end_win"
            /\ snd.fcn = windowSize - 1 /\ snd.ptr = snd.nFullTiles
            /\ snd.stray
    /\ snd.state \in {"WAIT_x_ACK", "RESEND"} /\ snd.mechanism = "ack_end_win" =>
         /\ snd.window \in SentWindows
         /\ snd.fcn = windowSize - 1
         /\ snd.ptr = IF snd.window = nWindows - 1
                        THEN snd.nFullTiles ELSE Place(snd.window + 1)

(* What there is to repair.                                                *)
Repairs ==
    /\ snd.confirmed \in SentWindows
    /\ snd.errors \in Seq(SentWindows)
    /\ snd.state = "RESEND" /\ snd.mechanism = "compound_ack" =>
         snd.errors # <<>>

(* One request to be executed goes round at most, and none in the wait.    *)
NoAgain(queue) == \A i \in DOMAIN queue : queue[i].type # "again"

OneAgainAtMost(queue) ==
    \A i, j \in DOMAIN queue :
      queue[i].type = "again" /\ queue[j].type = "again" => i = j

OneAgain ==
    ~snd.stray =>
      /\ OneAgainAtMost(snd.queue)
      /\ snd.state = "WAIT_x_ACK" => NoAgain(snd.queue)

(* The tiles before where the sender is that it ought to send again, and   *)
(* the windows it will look for them in.                                   *)
Owed == (snd.lacking \cap 0 .. snd.ptr - 1) \ snd.unheeded

ToRepair ==
    IF snd.mechanism = "compound_ack" THEN ListedTiles(snd.errors)
                                      ELSE PositionsOf(Repaired)

(* A sender owes nothing but what it is about to repair.                   *)
Covered ==
    /\ snd.ptr <= snd.nFullTiles
    /\ snd.state = "INIT" => snd.ptr = 0
    /\ ~snd.stray =>
         /\ snd.state \in {"SEND", "WAIT_x_ACK"} => Owed = {}
         /\ snd.state = "RESEND" => Owed \subseteq ToRepair \ snd.bitmap

SenderInv ==
    /\ Settings /\ Positions /\ Repairs /\ OneAgain /\ Covered
    /\ WaitGuarded /\ FragmentsInPlace /\ InTurnAcksSafe

-----------------------------------------------------------------------------
(* What becomes of a queue and of the fields of the machine.               *)

HasTimer(queue) == \E i \in DOMAIN queue : queue[i].type = "timer"

LEMMA TailOfQueue ==
    ASSUME NEW S, NEW queue \in Seq(S), queue # <<>>
    PROVE  /\ Tail(queue) \in Seq(S) /\ Head(queue) \in S
           /\ NoAgain(queue) => NoAgain(Tail(queue)) /\ Head(queue).type # "again"
           /\ OneAgainAtMost(queue) => OneAgainAtMost(Tail(queue))
           /\ OneAgainAtMost(queue) /\ Head(queue).type = "again" =>
                NoAgain(Tail(queue))
           /\ HasTimer(queue) /\ Head(queue).type # "timer" =>
                HasTimer(Tail(queue))
<1>1. /\ Tail(queue) \in Seq(S) /\ Head(queue) = queue[1] /\ 1 \in DOMAIN queue
      /\ DOMAIN queue = 1 .. Len(queue) /\ Len(queue) \in Nat
      /\ DOMAIN Tail(queue) = 1 .. Len(queue) - 1
      /\ \A i \in DOMAIN Tail(queue) : Tail(queue)[i] = queue[i + 1]
  BY HeadTailProperties
<1>2. \A i \in DOMAIN Tail(queue) : i + 1 \in DOMAIN queue /\ i + 1 # 1
  BY <1>1
<1>3. \A i \in DOMAIN queue : i # 1 => i - 1 \in DOMAIN Tail(queue) /\ i - 1 + 1 = i
  BY <1>1
<1>4. Head(queue) \in S
  BY <1>1
<1>5. NoAgain(queue) => NoAgain(Tail(queue)) /\ Head(queue).type # "again"
  BY <1>1, <1>2 DEF NoAgain
<1>6. OneAgainAtMost(queue) => OneAgainAtMost(Tail(queue))
  <2> SUFFICES ASSUME OneAgainAtMost(queue), NEW i \in DOMAIN Tail(queue),
                      NEW j \in DOMAIN Tail(queue),
                      Tail(queue)[i].type = "again", Tail(queue)[j].type = "again"
               PROVE  i = j
    BY DEF OneAgainAtMost
  <2>1. queue[i + 1].type = "again" /\ queue[j + 1].type = "again"
    BY <1>1
  <2>2. i + 1 = j + 1
    BY <1>2, <2>1 DEF OneAgainAtMost
  <2> QED
    BY <1>1, <2>2
<1>7. OneAgainAtMost(queue) /\ Head(queue).type = "again" => NoAgain(Tail(queue))
  BY <1>1, <1>2 DEF OneAgainAtMost, NoAgain
<1>8. HasTimer(queue) /\ Head(queue).type # "timer" => HasTimer(Tail(queue))
  BY <1>1, <1>3 DEF HasTimer
<1> QED
  BY <1>1, <1>4, <1>5, <1>6, <1>7, <1>8

LEMMA AppendToQueue ==
    ASSUME NEW S, NEW queue \in Seq(S), NEW m \in S
    PROVE  /\ Append(queue, m) \in Seq(S)
           /\ NoAgain(queue) => OneAgainAtMost(Append(queue, m))
           /\ m.type # "again" =>
                /\ NoAgain(queue) => NoAgain(Append(queue, m))
                /\ OneAgainAtMost(queue) => OneAgainAtMost(Append(queue, m))
           /\ HasTimer(queue) \/ m.type = "timer" => HasTimer(Append(queue, m))
<1>1. /\ Append(queue, m) \in Seq(S) /\ Len(queue) \in Nat
      /\ DOMAIN queue = 1 .. Len(queue)
      /\ DOMAIN Append(queue, m) = 1 .. Len(queue) + 1
      /\ \A i \in 1 .. Len(queue) : Append(queue, m)[i] = queue[i]
      /\ Append(queue, m)[Len(queue) + 1] = m
  BY AppendProperties
<1>2. \A i \in DOMAIN Append(queue, m) :
        i \in DOMAIN queue \/ i = Len(queue) + 1
  BY <1>1
<1>3. DOMAIN queue \subseteq DOMAIN Append(queue, m)
      /\ Len(queue) + 1 \in DOMAIN Append(queue, m)
  BY <1>1
<1>4. NoAgain(queue) => OneAgainAtMost(Append(queue, m))
  BY <1>1, <1>2 DEF NoAgain, OneAgainAtMost
<1>5. m.type # "again" /\ NoAgain(queue) => NoAgain(Append(queue, m))
  BY <1>1, <1>2 DEF NoAgain
<1>6. m.type # "again" /\ OneAgainAtMost(queue) => OneAgainAtMost(Append(queue, m))
  BY <1>1, <1>2 DEF OneAgainAtMost
<1>7. HasTimer(queue) \/ m.type = "timer" => HasTimer(Append(queue, m))
  BY <1>1, <1>3 DEF HasTimer
<1> QED
  BY <1>1, <1>4, <1>5, <1>6, <1>7

(* s and t differ in the fields given at most.                             *)
Differ(s, t, fields) ==
    /\ DOMAIN s = SndFields /\ DOMAIN t = SndFields
    /\ \A f \in SndFields \ fields : t[f] = s[f]

LEMMA TakenIs ==
    ASSUME DOMAIN snd = SndFields
    PROVE  Differ(snd, Taken, {"queue"}) /\ Taken.queue = Tail(snd.queue)
BY DEF Taken, Differ, SndFields

LEMMA ThenAgainIs ==
    ASSUME NEW s, DOMAIN s = SndFields, NEW state
    PROVE  /\ Differ(s, ThenAgain(s, state), {"state", "queue"})
           /\ ThenAgain(s, state).state = state
           /\ ThenAgain(s, state).queue = Append(s.queue, Again)
BY DEF ThenAgain, Differ, SndFields

LEMMA ThenWaitIs ==
    ASSUME NEW s, DOMAIN s = SndFields
    PROVE  /\ Differ(s, ThenWait(s), {"state", "timer"})
           /\ ThenWait(s).state = "WAIT_x_ACK" /\ ThenWait(s).timer
BY DEF ThenWait, Differ, SndFields

LEMMA SentIs ==
    ASSUME NEW s, DOMAIN s = SndFields, NEW frames
    PROVE  /\ Differ(s, Sent(s, frames), {"lacking"})
           /\ \A i \in DOMAIN frames :
                frames[i].type = "regular" =>
                  Sent(s, frames).lacking \subseteq
                    s.lacking \ (frames[i].first
                                   .. frames[i].first + frames[i].n - 1)
<1> DEFINE tiles(f) == IF f.type = "regular" THEN f.first .. f.first + f.n - 1
                       ELSE IF f.type = "all1" THEN {LastTile} ELSE {}
           all == UNION {tiles(f) : f \in {frames[i] : i \in DOMAIN frames}}
           t == [s EXCEPT !.lacking = @ \ all]
<1>1. Sent(s, frames) = t
  BY DEF Sent
<1>2. \A i \in DOMAIN frames : tiles(frames[i]) \subseteq all
  OBVIOUS
<1>3. \A i \in DOMAIN frames :
        frames[i].type = "regular" =>
          tiles(frames[i]) = frames[i].first .. frames[i].first + frames[i].n - 1
  OBVIOUS
<1> HIDE DEF tiles, all
<1>4. Differ(s, t, {"lacking"}) /\ t.lacking = s.lacking \ all
  BY DEF Differ, SndFields
<1> HIDE DEF t
<1> QED
  BY <1>1, <1>2, <1>3, <1>4

LEMMA LackingIs ==
    ASSUME NEW s, DOMAIN s = SndFields, NEW tiles
    PROVE  Differ(s, [s EXCEPT !.lacking = tiles], {"lacking"})
BY DEF Differ, SndFields

(* Steps that leave what is owed as it is.                                 *)
LEMMA OwedCarried ==
    ASSUME Covered, snd'.ptr = snd.ptr, snd'.nFullTiles = snd.nFullTiles,
           snd'.lacking = snd.lacking, snd'.unheeded = snd.unheeded,
           snd.stray => snd'.stray,
           \/ snd'.state \notin {"INIT", "SEND", "WAIT_x_ACK", "RESEND"}
           \/ /\ snd'.state \in {"SEND", "WAIT_x_ACK"}
              /\ snd.state \in {"SEND", "WAIT_x_ACK"}
           \/ /\ snd'.state = snd.state /\ snd'.mechanism = snd.mechanism
              /\ snd'.bitmap = snd.bitmap /\ snd'.errors = snd.errors
              /\ snd'.confirmed = snd.confirmed /\ snd'.window = snd.window
    PROVE  Covered'
<1>1. Owed' = Owed
  BY DEF Owed
<1>2. CASE snd'.state \notin {"INIT", "SEND", "WAIT_x_ACK", "RESEND"}
  BY <1>2 DEF Covered
<1>3. CASE /\ snd'.state \in {"SEND", "WAIT_x_ACK"}
           /\ snd.state \in {"SEND", "WAIT_x_ACK"}
  BY <1>1, <1>3 DEF Covered
<1>4. CASE /\ snd'.state = snd.state /\ snd'.mechanism = snd.mechanism
           /\ snd'.bitmap = snd.bitmap /\ snd'.errors = snd.errors
           /\ snd'.confirmed = snd.confirmed /\ snd'.window = snd.window
  <2>1. Repaired' = Repaired
    BY <1>4 DEF Repaired
  <2>2. ToRepair' = ToRepair
    BY <1>4, <2>1 DEF ToRepair
  <2> QED
    BY <1>1, <1>4, <2>2 DEF Covered
<1> QED
  BY <1>2, <1>3, <1>4

(* A fragment of n more tiles.                                             *)
LEMMA OwedAdvanced ==
    ASSUME Covered, snd.state = "SEND", NEW n \in Nat, snd.ptr \in Nat,
           snd'.ptr = snd.ptr + n, snd'.ptr <= snd'.nFullTiles,
           snd'.lacking \subseteq snd.lacking \ (snd.ptr .. snd.ptr + n - 1),
           snd'.unheeded = snd.unheeded, snd.stray => snd'.stray,
           snd'.state \in {"SEND", "WAIT_x_ACK"}
    PROVE  Covered'
<1>1. Owed' \subseteq Owed
  BY DEF Owed
<1> QED
  BY <1>1 DEF Covered

LEMMA ResumedIs ==
    ASSUME DOMAIN snd = SndFields
    PROVE  /\ Differ(snd, Resumed, {"queue", "stray"})
           /\ Resumed.queue = Tail(snd.queue)
           /\ Resumed.stray = (snd.stray \/ Head(snd.queue).type \in Messages)
BY DEF Resumed, Taken, Differ, SndFields

LEMMA AckTakenIs ==
    ASSUME DOMAIN snd = SndFields, NEW m
    PROVE  /\ Differ(snd, AckTaken(m), {"queue", "stray", "timer", "attempts"})
           /\ AckTaken(m).queue = Tail(snd.queue)
           /\ AckTaken(m).stray =
                (snd.stray \/ /\ snd.mechanism = "ack_end_win"
                              /\ snd.window # WindowOf(m))
BY DEF AckTaken, Taken, Differ, SndFields

-----------------------------------------------------------------------------
(* Steps in general.                                                       *)

LEMMA WindowFacts ==
    ASSUME Settings
    PROVE  /\ nWindows \in Nat \ {0} /\ snd.nFullTiles \in Nat
           /\ Place(nWindows - 1) <= snd.nFullTiles
           /\ snd.nFullTiles < Place(nWindows)
           /\ Place(nWindows) = Place(nWindows - 1) + windowSize
           /\ windowSize \in Nat \ {0, 1} /\ payloadTiles \in 1 .. windowSize - 1
           /\ \A w \in Int : Place(w) \in Int
<1>1. snd.nFullTiles \in Nat
  BY DEF Settings
<1>2. windowSize \in Nat \ {0, 1} /\ payloadTiles \in 1 .. windowSize - 1
  BY AckOnErrorAssumption
<1>3. /\ snd.nFullTiles \div windowSize \in Nat
      /\ Place(snd.nFullTiles \div windowSize) <= snd.nFullTiles
      /\ snd.nFullTiles < Place(snd.nFullTiles \div windowSize + 1)
  BY <1>1, LastWindow
<1>4. nWindows \in Nat \ {0} /\ nWindows - 1 = snd.nFullTiles \div windowSize
  BY <1>3 DEF nWindows
<1>5. nWindows = snd.nFullTiles \div windowSize + 1
  BY DEF nWindows
<1>6. Place(nWindows) = Place(nWindows - 1) + windowSize
  BY <1>4, NextPlace
<1>7. \A w \in Int : Place(w) \in Int
  BY <1>2 DEF Place
<1>8. Place(nWindows - 1) <= snd.nFullTiles /\ snd.nFullTiles < Place(nWindows)
  BY <1>3, <1>4, <1>5, Zenon
<1> QED
  BY <1>1, <1>2, <1>4, <1>6, <1>7, <1>8

LEMMA Settled ==
    ASSUME Settings, Differ(snd, snd', SndFields \ {"mechanism", "nFullTiles"}),
           snd'.queue \in Seq(Events), AirIsSequence'
    PROVE  /\ Settings'
           /\ nWindows' = nWindows /\ SentWindows' = SentWindows
           /\ snd'.mechanism = snd.mechanism /\ snd'.nFullTiles = snd.nFullTiles
<1>1. snd'.mechanism = snd.mechanism /\ snd'.nFullTiles = snd.nFullTiles
  BY DEF Differ, SndFields
<1>2. nWindows' = nWindows
  BY <1>1 DEF nWindows
<1>3. SentWindows' = SentWindows
  BY <1>2 DEF SentWindows
<1>4. Events' = Events
  BY <1>1, <1>3 DEF Events, Listings
<1> QED
  BY <1>1, <1>2, <1>3, <1>4 DEF Settings, Differ

(* The event that is handled, and what is left in the queue.               *)
LEMMA Handled ==
    ASSUME Settings, OneAgain, NEW state, NEW types, Handles(state, types)
    PROVE  /\ snd.state = state /\ snd.queue \in Seq(Events) /\ snd.queue # <<>>
           /\ Head(snd.queue) \in Events /\ Head(snd.queue).type \in types
           /\ Tail(snd.queue) \in Seq(Events)
           /\ ~snd.stray => OneAgainAtMost(Tail(snd.queue))
           /\ ~snd.stray /\ (state = "WAIT_x_ACK" \/ Head(snd.queue).type = "again") =>
                NoAgain(Tail(snd.queue))
           /\ ~snd.stray /\ state = "WAIT_x_ACK" => Head(snd.queue).type # "again"
           /\ HasTimer(snd.queue) /\ Head(snd.queue).type # "timer" =>
                HasTimer(Tail(snd.queue))
<1>1. /\ snd.state = state /\ snd.queue # <<>> /\ Head(snd.queue).type \in types
      /\ snd.queue \in Seq(Events)
  BY DEF Handles, Settings
<1> QED
  BY <1>1, TailOfQueue DEF OneAgain

(* The machine asks to be executed again.                                  *)
LEMMA AgainSettles ==
    ASSUME snd'.queue = Append(Tail(snd.queue), Again),
           Tail(snd.queue) \in Seq(Events),
           snd'.state # "WAIT_x_ACK",
           ~snd'.stray => NoAgain(Tail(snd.queue))
    PROVE  snd'.queue \in Seq(Events) /\ OneAgain' /\ WaitGuarded'
<1>1. Again \in Events
  BY DEF Events
<1>2. /\ snd'.queue \in Seq(Events)
      /\ NoAgain(Tail(snd.queue)) => OneAgainAtMost(snd'.queue)
  BY <1>1, AppendToQueue
<1> QED
  BY <1>2 DEF OneAgain, WaitGuarded

(* It waits, or for nothing any more.                                      *)
LEMMA WaitSettles ==
    ASSUME snd'.queue = Tail(snd.queue),
           Tail(snd.queue) \in Seq(Events),
           snd'.timer \/ snd'.state # "WAIT_x_ACK",
           ~snd'.stray => NoAgain(Tail(snd.queue))
    PROVE  snd'.queue \in Seq(Events) /\ OneAgain' /\ WaitGuarded'
<1>1. NoAgain(Tail(snd.queue)) => OneAgainAtMost(Tail(snd.queue))
  BY DEF NoAgain, OneAgainAtMost
<1> QED
  BY <1>1 DEF OneAgain, WaitGuarded

LEMMA Pairs == \A a, b : <<a>> \o <<b>> = <<a, b>>
<1> SUFFICES ASSUME NEW a, NEW b PROVE <<a>> \o <<b>> = <<a, b>>
  OBVIOUS
<1> DEFINE s == <<a>>
           t == <<b>>
           p == <<a, b>>
<1>1. /\ s \in Seq({a, b}) /\ t \in Seq({a, b}) /\ p \in Seq({a, b})
      /\ Len(s) = 1 /\ Len(t) = 1 /\ Len(p) = 2
      /\ s[1] = a /\ t[1] = b /\ p[1] = a /\ p[2] = b
  OBVIOUS
<1>2. s \o t = p
  <2> HIDE DEF s, t, p
  <2>1. /\ s \o t \in Seq({a, b}) /\ Len(s \o t) = 2
        /\ \A i \in 1 .. 2 : (s \o t)[i] = IF i <= 1 THEN s[i] ELSE t[i - 1]
    BY <1>1, ConcatProperties
  <2>2. \A i \in 1 .. 2 : (s \o t)[i] = p[i]
    BY <1>1, <2>1
  <2> QED
    BY <1>1, <2>1, <2>2, SeqEqual
<1> QED
  BY <1>2

LEMMA FragmentSent ==
    ASSUME NEW f, f.first = f.w * windowSize + (windowSize - 1 - f.fcn),
           f.first + f.n <= snd'.nFullTiles,
           \/ air' = <<f>>
           \/ \E g : g.type # "regular" /\ air' = <<f, g>>
    PROVE  FragmentsInPlace' /\ AirIsSequence'
<1>1. CASE air' = <<f>>
  <2>1. air' \in Seq({f}) /\ \A i \in DOMAIN air' : air'[i] = f
    BY <1>1
  <2>2. FragmentsInPlace'
    BY <2>1 DEF FragmentsInPlace
  <2>3. AirIsSequence'
    BY <2>1 DEF AirIsSequence
  <2> QED
    BY <2>2, <2>3
<1>2. ASSUME NEW g, g.type # "regular", air' = <<f, g>>
      PROVE  FragmentsInPlace' /\ AirIsSequence'
  <2>1. air' \in Seq({f, g}) /\ \A i \in DOMAIN air' : air'[i] = f \/ air'[i] = g
    BY <1>2
  <2>2. FragmentsInPlace'
    BY <1>2, <2>1 DEF FragmentsInPlace
  <2>3. AirIsSequence'
    BY <2>1 DEF AirIsSequence
  <2> QED
    BY <2>2, <2>3
<1> QED
  BY <1>1, <1>2

-----------------------------------------------------------------------------
(* The steps of the sender.                                                *)

LEMMA StartKeeps ==
    ASSUME SenderInv, Start PROVE SenderInv'
<1>1. /\ Settings /\ OneAgain /\ Handles("INIT", {"again"}) /\ air' = air
      /\ DOMAIN snd = SndFields
  BY DEF SenderInv, Settings, Start
<1>2. /\ snd.state = "INIT" /\ Tail(snd.queue) \in Seq(Events)
      /\ ~snd.stray => NoAgain(Tail(snd.queue))
  BY <1>1, Handled
<1>3. /\ Differ(snd, snd', {"queue", "lacking", "state"})
      /\ \/ snd'.queue = Append(Tail(snd.queue), Again) /\ snd'.state = "SEND"
         \/ snd'.queue = Tail(snd.queue) /\ snd'.state = "INIT"
  <2>1. CASE snd.nFullTiles < 4 * windowSize
    <3> DEFINE s == [Taken EXCEPT !.lacking = FullTiles \cup {LastTile}]
    <3>1. Differ(snd, s, {"queue", "lacking"}) /\ s.queue = Tail(snd.queue)
      <4>1. DOMAIN Taken = SndFields
        BY <1>1, TakenIs DEF Differ
      <4>2. Differ(Taken, s, {"lacking"})
        BY <4>1, LackingIs
      <4> HIDE DEF s
      <4> QED
        BY <1>1, <4>2, TakenIs DEF Differ, SndFields
    <3>2. snd' = ThenAgain(s, "SEND")
      BY <2>1 DEF Start
    <3> HIDE DEF s
    <3>3. DOMAIN s = SndFields
      BY <3>1 DEF Differ
    <3>4. /\ Differ(s, snd', {"state", "queue"})
          /\ snd'.queue = Append(s.queue, Again) /\ snd'.state = "SEND"
      BY <3>2, <3>3, ThenAgainIs
    <3> QED
      BY <3>1, <3>4 DEF Differ, SndFields
  <2>2. CASE ~(snd.nFullTiles < 4 * windowSize)
    <3>1. snd' = Taken
      BY <2>2 DEF Start
    <3> QED
      BY <1>1, <1>2, <3>1, TakenIs DEF Differ, SndFields
  <2> QED
    BY <2>1, <2>2
<1>4. /\ snd'.window = snd.window /\ snd'.fcn = snd.fcn /\ snd'.ptr = snd.ptr
      /\ snd'.confirmed = snd.confirmed /\ snd'.errors = snd.errors
      /\ snd'.stray = snd.stray /\ snd'.timer = snd.timer
  BY <1>3 DEF Differ, SndFields
<1>5. snd'.queue \in Seq(Events) /\ OneAgain' /\ WaitGuarded'
  BY <1>2, <1>3, <1>4, AgainSettles, WaitSettles
<1>6. /\ Settings' /\ nWindows' = nWindows /\ SentWindows' = SentWindows
      /\ snd'.mechanism = snd.mechanism /\ snd'.nFullTiles = snd.nFullTiles
  <2>1. AirIsSequence'
    BY <1>1 DEF Settings, AirIsSequence
  <2>2. Differ(snd, snd', SndFields \ {"mechanism", "nFullTiles"})
    BY <1>3 DEF Differ, SndFields
  <2> QED
    BY <1>1, <1>5, <2>1, <2>2, Settled
<1>7. Positions' /\ Repairs'
  BY <1>2, <1>3, <1>4, <1>6 DEF SenderInv, Positions, Repairs
<1>8. FragmentsInPlace' /\ InTurnAcksSafe'
  BY <1>1, <1>3, <1>6 DEF SenderInv, FragmentsInPlace, InTurnAcksSafe
<1>9. Covered'
  <2>1. snd.ptr = 0 /\ snd.ptr <= snd.nFullTiles
    BY <1>2 DEF SenderInv, Covered
  <2>2. Owed' = {}
    BY <1>4, <2>1 DEF Owed
  <2> QED
    BY <1>3, <1>4, <1>6, <2>1, <2>2 DEF Covered
<1> QED
  BY <1>5, <1>6, <1>7, <1>8, <1>9 DEF SenderInv

(* A fragment that does not end the window or the session.                 *)
LEMMA SendFragmentKeeps ==
    ASSUME SenderInv, SendFragment PROVE SenderInv'
<1> DEFINE f == RegularFragment(snd.window, snd.fcn, snd.ptr, payloadTiles)
           r == Sent(Resumed, <<f>>)
           wraps == payloadTiles > snd.fcn /\ snd.mechanism # "ack_end_win"
           a == Advanced(r, payloadTiles)
<1>1. /\ Settings /\ OneAgain /\ Positions /\ DOMAIN snd = SndFields
      /\ Handles("SEND", {"again"} \cup Messages)
      /\ Remaining > payloadTiles /\ snd.ptr + payloadTiles <= snd.nFullTiles
      /\ air' = <<f>> /\ snd' = ThenAgain(a, "SEND")
  BY DEF SenderInv, Settings, SendFragment, Sending
<1>2. /\ snd.state = "SEND" /\ Tail(snd.queue) \in Seq(Events)
      /\ Head(snd.queue).type \in {"again"} \cup Messages
      /\ ~snd.stray /\ Head(snd.queue).type = "again" => NoAgain(Tail(snd.queue))
  BY <1>1, Handled
<1>3. /\ Differ(snd, r, {"queue", "stray", "lacking"})
      /\ r.queue = Tail(snd.queue)
      /\ r.stray = (snd.stray \/ Head(snd.queue).type \in Messages)
      /\ r.lacking \subseteq
           snd.lacking \ (snd.ptr .. snd.ptr + payloadTiles - 1)
  <2>1. DOMAIN Resumed = SndFields
    BY <1>1, ResumedIs DEF Differ
  <2>2. 1 \in DOMAIN <<f>> /\ <<f>>[1] = f
    OBVIOUS
  <2>3. f.type = "regular" /\ f.first = snd.ptr /\ f.n = payloadTiles
    BY DEF RegularFragment
  <2> HIDE DEF f
  <2>4. /\ Differ(Resumed, r, {"lacking"})
        /\ r.lacking \subseteq
             Resumed.lacking \ (snd.ptr .. snd.ptr + payloadTiles - 1)
    BY <2>1, <2>2, <2>3, SentIs
  <2> HIDE DEF r
  <2> QED
    BY <1>1, <2>4, ResumedIs DEF Differ, SndFields
<1>4. /\ Differ(r, a, {"ptr", "fcn", "window"})
      /\ a.ptr = snd.ptr + payloadTiles
      /\ wraps => /\ a.fcn = snd.fcn + windowSize - payloadTiles
                  /\ a.window = snd.window + 1
      /\ ~wraps => a.fcn = snd.fcn - payloadTiles /\ a.window = snd.window
  <2> HIDE DEF r
  <2>1. /\ r.fcn = snd.fcn /\ r.mechanism = snd.mechanism /\ r.ptr = snd.ptr
        /\ r.window = snd.window /\ DOMAIN r = SndFields
    BY <1>3 DEF Differ, SndFields
  <2> QED
    BY <2>1 DEF Advanced, Differ, SndFields
<1>5. /\ Differ(a, snd', {"state", "queue"})
      /\ snd'.state = "SEND" /\ snd'.queue = Append(a.queue, Again)
  <2> HIDE DEF a
  <2>1. DOMAIN a = SndFields
    BY <1>4 DEF Differ
  <2> QED
    BY <1>1, <2>1, ThenAgainIs
<1> HIDE DEF r, a, f
<1>6. /\ Differ(snd, snd', {"queue", "stray", "lacking", "ptr", "fcn", "window", "state"})
      /\ snd'.queue = Append(Tail(snd.queue), Again)
      /\ snd'.stray = (snd.stray \/ Head(snd.queue).type \in Messages)
      /\ snd'.ptr = a.ptr /\ snd'.fcn = a.fcn /\ snd'.window = a.window
      /\ snd'.lacking = r.lacking /\ snd'.unheeded = snd.unheeded
  BY <1>3, <1>4, <1>5 DEF Differ, SndFields
<1>7. snd'.queue \in Seq(Events) /\ OneAgain' /\ WaitGuarded'
  BY <1>2, <1>5, <1>6, AgainSettles
<1>8. /\ snd.window \in SentWindows /\ snd.window \in Nat
      /\ snd.ptr = Place(snd.window) + (windowSize - 1 - snd.fcn)
      /\ snd.fcn \in 0 .. windowSize - 1 /\ snd.ptr \in Nat
  <2>1. snd.ptr \in Nat /\ snd.nFullTiles \in Nat /\ payloadTiles \in Nat \ {0}
    BY <1>1, WindowFacts DEF Positions
  <2>2. snd.ptr # snd.nFullTiles
    BY <1>1, <2>1
  <2> QED
    BY <1>1, <1>2, <2>2 DEF Positions
<1>9. f.first = f.w * windowSize + (windowSize - 1 - f.fcn) /\ f.first + f.n <= snd.nFullTiles
  BY <1>1, <1>8 DEF f, RegularFragment, Place
<1>10. /\ Settings' /\ nWindows' = nWindows /\ SentWindows' = SentWindows
       /\ snd'.mechanism = snd.mechanism /\ snd'.nFullTiles = snd.nFullTiles
       /\ FragmentsInPlace'
  <2>1. snd'.nFullTiles = snd.nFullTiles
    BY <1>6 DEF Differ, SndFields
  <2>2. AirIsSequence' /\ FragmentsInPlace'
    BY <1>1, <1>9, <2>1, FragmentSent
  <2>3. Differ(snd, snd', SndFields \ {"mechanism", "nFullTiles"})
    BY <1>6 DEF Differ, SndFields
  <2> QED
    BY <1>1, <1>7, <2>2, <2>3, Settled
<1>11. /\ snd'.window \in SentWindows /\ snd'.fcn \in 0 .. windowSize - 1
       /\ snd'.ptr = Place(snd'.window) + (windowSize - 1 - snd'.fcn)
       /\ snd'.ptr = snd.ptr + payloadTiles
  <2>1. CASE wraps
    <3>1. Remaining = snd.nFullTiles - snd.ptr
      BY <2>1 DEF Remaining
    <3>2. Place(snd.window + 1) = Place(snd.window) + windowSize
      BY <1>8, NextPlace
    <3>3. Place(snd.window + 1) <= snd.ptr + payloadTiles
      BY <1>8, <2>1, <3>2, <1>1, WindowFacts
    <3>4. Place(snd.window + 1) < Place(nWindows)
      BY <1>1, <1>8, <3>1, <3>3, WindowFacts
    <3>5. snd.window + 1 < nWindows
      BY <1>1, <1>8, <3>4, PlacesAscend, WindowFacts
    <3>6. /\ snd'.window = snd.window + 1
          /\ snd'.fcn = snd.fcn + windowSize - payloadTiles
          /\ snd'.ptr = snd.ptr + payloadTiles /\ payloadTiles > snd.fcn
      BY <1>4, <1>6, <2>1
    <3>7. snd.window + 1 \in SentWindows
      BY <1>8, <3>5, WindowFacts, <1>1 DEF SentWindows
    <3>8. Place(snd'.window) = Place(snd.window) + windowSize
      BY <3>2, <3>6
    <3>9. Place(snd.window) \in Int /\ windowSize \in Nat /\ payloadTiles \in 1 .. windowSize - 1
      BY <1>1, <1>8, WindowFacts
    <3> QED
      BY <1>8, <3>6, <3>7, <3>8, <3>9
  <2>2. CASE ~wraps
    <3>1. payloadTiles <= snd.fcn
      <4>1. CASE snd.mechanism # "ack_end_win"
        BY <1>1, <1>8, <2>2, <4>1, WindowFacts
      <4>2. CASE snd.mechanism = "ack_end_win" /\ snd.window # nWindows - 1
        BY <1>1, <1>8, <4>2, WindowFacts DEF Remaining
      <4>3. CASE snd.mechanism = "ack_end_win" /\ snd.window = nWindows - 1
        BY <1>1, <1>8, <4>3, WindowFacts DEF Remaining
      <4> QED
        BY <4>1, <4>2, <4>3
    <3>2. /\ snd'.window = snd.window /\ snd'.fcn = snd.fcn - payloadTiles
          /\ snd'.ptr = snd.ptr + payloadTiles
      BY <1>4, <1>6, <2>2
    <3>3. Place(snd.window) \in Int /\ windowSize \in Nat /\ payloadTiles \in 1 .. windowSize - 1
      BY <1>1, <1>8, WindowFacts
    <3>4. Place(snd'.window) = Place(snd.window)
      BY <3>2
    <3> QED
      BY <1>8, <3>1, <3>2, <3>3, <3>4
  <2> QED
    BY <2>1, <2>2
<1>12. Positions'
  <2>1. snd'.ptr \in Nat /\ snd'.ptr <= snd.nFullTiles /\ snd'.window \in Nat
    BY <1>1, <1>8, <1>11, WindowFacts DEF SentWindows
  <2> QED
    BY <1>5, <1>11, <1>10, <2>1 DEF Positions
<1>13. Repairs' /\ InTurnAcksSafe'
  <2>1. snd'.confirmed = snd.confirmed /\ snd'.errors = snd.errors
    BY <1>6 DEF Differ, SndFields
  <2> QED
    BY <1>5, <1>10, <2>1 DEF SenderInv, Repairs, InTurnAcksSafe
<1>14. Covered'
  <2>1. snd'.ptr = snd.ptr + payloadTiles /\ snd'.ptr <= snd'.nFullTiles
    BY <1>1, <1>10, <1>11
  <2>2. payloadTiles \in Nat
    BY <1>1, WindowFacts
  <2>3. snd'.lacking \subseteq
          snd.lacking \ (snd.ptr .. snd.ptr + payloadTiles - 1)
    BY <1>3, <1>6
  <2> QED
    BY <1>2, <1>5, <1>6, <1>8, <2>1, <2>2, <2>3, OwedAdvanced DEF SenderInv
<1> QED
  BY <1>7, <1>10, <1>12, <1>13, <1>14 DEF SenderInv

(* In STATE_SEND the window is one of the packet, and the tiles from there *)
(* on begin where the counters say; or all is sent.                        *)
LEMMA SendPlace ==
    ASSUME Settings, Positions, snd.state = "SEND"
    PROVE  /\ snd.window \in Nat /\ snd.fcn \in 0 .. windowSize - 1
           /\ snd.ptr \in Nat /\ snd.ptr <= snd.nFullTiles
           /\ \/ /\ snd.window \in SentWindows
                 /\ snd.ptr = Place(snd.window) + (windowSize - 1 - snd.fcn)
              \/ /\ snd.window # nWindows - 1 /\ snd.mechanism = "ack_end_win"
                 /\ snd.fcn = windowSize - 1 /\ snd.ptr = snd.nFullTiles
                 /\ snd.stray
BY WindowFacts DEF Positions

(* The fragment that ends the window or the session.                       *)
LEMMA SendLastKeeps ==
    ASSUME SenderInv, SendLast PROVE SenderInv'
<1> DEFINE f == RegularFragment(snd.window, snd.fcn, snd.ptr, Remaining)
           frames == <<f>> \o (IF snd.window = nWindows - 1
                                 THEN <<All1(snd.window)>> ELSE <<>>)
           r == Sent(Resumed, frames)
           n == Remaining
<1>1. /\ Settings /\ OneAgain /\ Positions /\ DOMAIN snd = SndFields
      /\ Handles("SEND", {"again"} \cup Messages)
      /\ Remaining <= payloadTiles /\ snd.ptr + Remaining <= snd.nFullTiles
      /\ air' = frames /\ snd' = Completed(r, n)
  BY DEF SenderInv, Settings, SendLast, Sending
<1>2. /\ snd.state = "SEND" /\ Tail(snd.queue) \in Seq(Events)
      /\ Head(snd.queue).type \in {"again"} \cup Messages
      /\ ~snd.stray /\ Head(snd.queue).type = "again" => NoAgain(Tail(snd.queue))
  BY <1>1, Handled
<1>3. /\ Differ(snd, r, {"queue", "stray", "lacking"})
      /\ r.queue = Tail(snd.queue)
      /\ r.stray = (snd.stray \/ Head(snd.queue).type \in Messages)
      /\ r.lacking \subseteq snd.lacking \ (snd.ptr .. snd.ptr + n - 1)
  <2>1. DOMAIN Resumed = SndFields
    BY <1>1, ResumedIs DEF Differ
  <2>2. 1 \in DOMAIN frames /\ frames[1] = f
    <3> HIDE DEF f
    <3>1. CASE snd.window = nWindows - 1
      <4>1. frames = <<f, All1(snd.window)>>
        BY <3>1, Pairs
      <4> QED
        BY <4>1
    <3>2. CASE snd.window # nWindows - 1
      <4>1. frames = <<f>>
        BY <3>2
      <4> QED
        BY <4>1
    <3> QED
      BY <3>1, <3>2
  <2>3. f.type = "regular" /\ f.first = snd.ptr /\ f.n = n
    BY DEF RegularFragment
  <2> HIDE DEF f, frames, n
  <2>4. /\ Differ(Resumed, r, {"lacking"})
        /\ r.lacking \subseteq Resumed.lacking \ (snd.ptr .. snd.ptr + n - 1)
    BY <2>1, <2>2, <2>3, SentIs
  <2> HIDE DEF r
  <2> QED
    BY <1>1, <2>4, ResumedIs DEF Differ, SndFields
<1>4. /\ Differ(r, snd', {"ptr", "fcn", "state", "timer"})
      /\ snd'.state = "WAIT_x_ACK" /\ snd'.timer /\ snd'.ptr = r.ptr + n
      /\ snd'.fcn = IF r.mechanism = "ack_end_win" THEN windowSize - 1 ELSE r.fcn
  <2> DEFINE s == [r EXCEPT !.ptr = @ + n,
                            !.fcn = IF r.mechanism = "ack_end_win"
                                      THEN windowSize - 1 ELSE @]
  <2>1. snd' = ThenWait(s)
    BY <1>1 DEF Completed
  <2>2. DOMAIN r = SndFields
    BY <1>3 DEF Differ
  <2> HIDE DEF r, n
  <2>3. /\ Differ(r, s, {"ptr", "fcn"}) /\ s.ptr = r.ptr + n
        /\ s.fcn = IF r.mechanism = "ack_end_win" THEN windowSize - 1 ELSE r.fcn
    BY <2>2 DEF Differ, SndFields
  <2>4. DOMAIN s = SndFields
    BY <2>3 DEF Differ
  <2> HIDE DEF s
  <2>5. /\ Differ(s, snd', {"state", "timer"})
        /\ snd'.state = "WAIT_x_ACK" /\ snd'.timer
    BY <2>1, <2>4, ThenWaitIs
  <2> QED
    BY <2>3, <2>5 DEF Differ, SndFields
<1> HIDE DEF r
<1>5. /\ Differ(snd, snd', {"queue", "stray", "lacking", "ptr", "fcn", "state", "timer"})
      /\ snd'.queue = Tail(snd.queue)
      /\ snd'.stray = (snd.stray \/ Head(snd.queue).type \in Messages)
      /\ snd'.ptr = snd.ptr + n
      /\ snd'.fcn = IF snd.mechanism = "ack_end_win" THEN windowSize - 1 ELSE snd.fcn
      /\ snd'.window = snd.window
      /\ snd'.lacking = r.lacking /\ snd'.unheeded = snd.unheeded
  <2> HIDE DEF n
  <2> QED
    BY <1>3, <1>4 DEF Differ, SndFields
<1>6. snd'.queue \in Seq(Events) /\ OneAgain' /\ WaitGuarded'
  BY <1>2, <1>4, <1>5, WaitSettles
<1>7. /\ windowSize \in Nat /\ payloadTiles \in 1 .. windowSize - 1
      /\ snd.nFullTiles \in Nat /\ nWindows \in Nat
  BY <1>1, WindowFacts
<1>8. /\ snd.window \in SentWindows /\ snd.window \in Nat
      /\ snd.ptr = Place(snd.window) + (windowSize - 1 - snd.fcn)
      /\ snd.fcn \in 0 .. windowSize - 1 /\ snd.ptr \in Nat
      /\ snd.ptr <= snd.nFullTiles
  <2>1. ~(/\ snd.window # nWindows - 1 /\ snd.mechanism = "ack_end_win"
          /\ snd.fcn = windowSize - 1 /\ snd.ptr = snd.nFullTiles)
    BY <1>1, <1>7 DEF Remaining
  <2> QED
    BY <1>1, <1>2, <2>1, SendPlace
<1>9. n \in Nat
  BY <1>7, <1>8 DEF Remaining
<1>10. f.first = f.w * windowSize + (windowSize - 1 - f.fcn) /\ f.first + f.n <= snd.nFullTiles
  BY <1>1, <1>8 DEF RegularFragment, Place
<1>11. /\ Settings' /\ nWindows' = nWindows /\ SentWindows' = SentWindows
       /\ snd'.mechanism = snd.mechanism /\ snd'.nFullTiles = snd.nFullTiles
       /\ FragmentsInPlace'
  <2>1. snd'.nFullTiles = snd.nFullTiles
    BY <1>5 DEF Differ, SndFields
  <2>2. air' = <<f>> \/ air' = <<f, All1(snd.window)>>
    <3>1. CASE snd.window = nWindows - 1
      <4>1. air' = <<f>> \o <<All1(snd.window)>>
        BY <1>1, <3>1
      <4> HIDE DEF f
      <4> QED
        BY <4>1, Pairs
    <3>2. CASE snd.window # nWindows - 1
      <4>1. air' = <<f>> \o <<>>
        BY <1>1, <3>2
      <4> HIDE DEF f
      <4> QED
        BY <4>1
    <3> QED
      BY <3>1, <3>2
  <2>3. All1(snd.window).type # "regular"
    BY DEF All1
  <2> HIDE DEF f
  <2>4. AirIsSequence' /\ FragmentsInPlace'
    BY <1>10, <2>1, <2>2, <2>3, FragmentSent
  <2>5. Differ(snd, snd', SndFields \ {"mechanism", "nFullTiles"})
    BY <1>5 DEF Differ, SndFields
  <2> QED
    BY <1>1, <1>6, <2>4, <2>5, Settled
<1>12. Positions'
  <2>1. snd'.window \in Nat /\ snd'.fcn \in 0 .. windowSize - 1 /\ snd'.ptr \in Nat
    BY <1>5, <1>7, <1>8, <1>9
  <2>2. ASSUME snd.mechanism = "ack_end_win"
        PROVE  /\ snd'.fcn = windowSize - 1
               /\ snd'.ptr = IF snd.window = nWindows - 1
                               THEN snd.nFullTiles ELSE Place(snd.window + 1)
    <3>1. Place(snd.window + 1) = Place(snd.window) + windowSize
      BY <1>8, NextPlace
    <3>2. Place(snd.window) \in Int
      <4> HIDE DEF n
      <4> QED
        BY <1>7, <1>8 DEF Place
    <3>3. n = IF snd.window # nWindows - 1
                THEN snd.fcn + 1 ELSE snd.nFullTiles - snd.ptr
      BY <2>2 DEF Remaining
    <3> HIDE DEF n
    <3> QED
      BY <1>5, <1>7, <1>8, <2>2, <3>1, <3>3, <3>2
  <2> HIDE DEF n
  <2> QED
    BY <1>4, <1>5, <1>8, <1>11, <2>1, <2>2 DEF Positions
<1>13. Repairs' /\ InTurnAcksSafe'
  <2>1. snd'.confirmed = snd.confirmed /\ snd'.errors = snd.errors
    BY <1>5 DEF Differ, SndFields
  <2> QED
    BY <1>4, <1>11, <2>1 DEF SenderInv, Repairs, InTurnAcksSafe
<1>14. Covered'
  <2>1. snd'.ptr <= snd'.nFullTiles
    BY <1>1, <1>5, <1>11
  <2> HIDE DEF n
  <2>2. snd'.lacking \subseteq snd.lacking \ (snd.ptr .. snd.ptr + n - 1)
    BY <1>3, <1>5
  <2> QED
    BY <1>2, <1>4, <1>5, <1>8, <1>9, <2>1, <2>2, OwedAdvanced DEF SenderInv
<1> QED
  BY <1>6, <1>11, <1>12, <1>13, <1>14 DEF SenderInv

(* Past the end of _tilesArray only an ACK out of turn leads.              *)
LEMMA SendBeyondKeeps ==
    ASSUME SenderInv, SendBeyond PROVE SenderInv'
<1>1. /\ Settings /\ OneAgain /\ Positions /\ DOMAIN snd = SndFields
      /\ Handles("SEND", {"again"} \cup Messages)
      /\ snd.ptr + (IF Remaining > payloadTiles THEN payloadTiles ELSE Remaining)
           > snd.nFullTiles
      /\ air' = air /\ snd' = [Resumed EXCEPT !.state = "undefined"]
  BY DEF SenderInv, Settings, SendBeyond, Sending
<1>2. /\ snd.state = "SEND" /\ Tail(snd.queue) \in Seq(Events)
      /\ Head(snd.queue).type \in {"again"} \cup Messages
      /\ ~snd.stray /\ Head(snd.queue).type = "again" => NoAgain(Tail(snd.queue))
  BY <1>1, Handled
<1>3. /\ Differ(snd, snd', {"queue", "stray", "state"})
      /\ snd'.queue = Tail(snd.queue) /\ snd'.state = "undefined"
      /\ snd'.stray = (snd.stray \/ Head(snd.queue).type \in Messages)
  <2>1. DOMAIN Resumed = SndFields
    BY <1>1, ResumedIs DEF Differ
  <2>2. Differ(Resumed, snd', {"state"}) /\ snd'.state = "undefined"
    BY <1>1, <2>1 DEF Differ, SndFields
  <2> QED
    BY <1>1, <2>2, ResumedIs DEF Differ, SndFields
<1>4. /\ snd'.window = snd.window /\ snd'.fcn = snd.fcn /\ snd'.ptr = snd.ptr
      /\ snd'.confirmed = snd.confirmed /\ snd'.errors = snd.errors
      /\ snd'.nFullTiles = snd.nFullTiles
      /\ snd'.lacking = snd.lacking /\ snd'.unheeded = snd.unheeded
  BY <1>3 DEF Differ, SndFields
<1>5. snd'.queue \in Seq(Events) /\ OneAgain' /\ WaitGuarded'
  BY <1>2, <1>3, WaitSettles
<1>6. /\ Settings' /\ SentWindows' = SentWindows
  <2>1. AirIsSequence'
    BY <1>1 DEF Settings, AirIsSequence
  <2>2. Differ(snd, snd', SndFields \ {"mechanism", "nFullTiles"})
    BY <1>3 DEF Differ, SndFields
  <2> QED
    BY <1>1, <1>5, <2>1, <2>2, Settled
<1>7. snd.stray
  <2>1. /\ windowSize \in Nat /\ payloadTiles \in 1 .. windowSize - 1
        /\ snd.nFullTiles \in Nat /\ nWindows \in Nat
        /\ Place(nWindows - 1) <= snd.nFullTiles
        /\ Place(snd.window) \in Int /\ Place(nWindows - 1) \in Int
    BY <1>1, WindowFacts DEF Positions
  <2> SUFFICES ASSUME ~snd.stray PROVE FALSE
    OBVIOUS
  <2>2. /\ snd.window \in SentWindows /\ snd.window \in Nat
        /\ snd.ptr = Place(snd.window) + (windowSize - 1 - snd.fcn)
        /\ snd.fcn \in 0 .. windowSize - 1 /\ snd.ptr \in Nat
        /\ snd.ptr <= snd.nFullTiles
    BY <1>1, <1>2, SendPlace
  <2>3. CASE Remaining = snd.nFullTiles - snd.ptr
    BY <1>1, <2>1, <2>2, <2>3
  <2>4. CASE Remaining = snd.fcn + 1 /\ snd.window # nWindows - 1
    <3>1. snd.window + 1 <= nWindows - 1
      BY <2>1, <2>2, <2>4 DEF SentWindows
    <3>2. Place(snd.window + 1) = Place(snd.window) + windowSize
      BY <2>2, NextPlace
    <3>3. Place(snd.window + 1) <= Place(nWindows - 1)
      BY <2>1, <2>2, <3>1, PlacesAscend
    <3>4. snd.ptr + Remaining <= snd.nFullTiles
      BY <2>1, <2>2, <2>4, <3>2, <3>3
    <3> QED
      BY <1>1, <2>1, <2>2, <2>4, <3>4
  <2> QED
    BY <2>3, <2>4 DEF Remaining
<1>8. Positions'
  BY <1>1, <1>3, <1>4 DEF Positions
<1>9. Repairs'
  BY <1>3, <1>4, <1>6 DEF SenderInv, Repairs
<1>10. FragmentsInPlace'
  BY <1>1, <1>4 DEF SenderInv, FragmentsInPlace
<1>11. InTurnAcksSafe'
  BY <1>3, <1>7 DEF InTurnAcksSafe
<1>12. Covered'
  BY <1>3, <1>4, OwedCarried DEF SenderInv
<1> QED
  BY <1>5, <1>6, <1>8, <1>9, <1>10, <1>11, <1>12 DEF SenderInv

(* An empty message is read only by a machine that went astray.            *)
LEMMA WaitWithoutMessageKeeps ==
    ASSUME SenderInv, WaitWithoutMessage PROVE SenderInv'
<1>1. /\ Settings /\ OneAgain /\ Positions /\ DOMAIN snd = SndFields
      /\ Handles("WAIT_x_ACK", {"again"})
      /\ air' = air /\ snd' = [Taken EXCEPT !.state = "undefined"]
  BY DEF SenderInv, Settings, WaitWithoutMessage
<1>2. Tail(snd.queue) \in Seq(Events) /\ snd.stray
  BY <1>1, Handled
<1>3. /\ Differ(snd, snd', {"queue", "state"})
      /\ snd'.queue = Tail(snd.queue) /\ snd'.state = "undefined"
  <2>1. DOMAIN Taken = SndFields
    BY <1>1, TakenIs DEF Differ
  <2>2. Differ(Taken, snd', {"state"}) /\ snd'.state = "undefined"
    BY <1>1, <2>1 DEF Differ, SndFields
  <2> QED
    BY <1>1, <2>2, TakenIs DEF Differ, SndFields
<1>4. /\ snd'.window = snd.window /\ snd'.fcn = snd.fcn /\ snd'.ptr = snd.ptr
      /\ snd'.confirmed = snd.confirmed /\ snd'.errors = snd.errors
      /\ snd'.nFullTiles = snd.nFullTiles /\ snd'.stray = snd.stray
      /\ snd'.lacking = snd.lacking /\ snd'.unheeded = snd.unheeded
  BY <1>3 DEF Differ, SndFields
<1>5. snd'.queue \in Seq(Events) /\ OneAgain' /\ WaitGuarded'
  BY <1>2, <1>3, <1>4, WaitSettles
<1>6. Settings' /\ SentWindows' = SentWindows
  <2>1. AirIsSequence'
    BY <1>1 DEF Settings, AirIsSequence
  <2>2. Differ(snd, snd', SndFields \ {"mechanism", "nFullTiles"})
    BY <1>3 DEF Differ, SndFields
  <2> QED
    BY <1>1, <1>5, <2>1, <2>2, Settled
<1>7. Positions'
  BY <1>1, <1>3, <1>4 DEF Positions
<1>8. Repairs'
  BY <1>3, <1>4, <1>6 DEF SenderInv, Repairs
<1>9. FragmentsInPlace' /\ InTurnAcksSafe'
  BY <1>1, <1>2, <1>3, <1>4 DEF SenderInv, FragmentsInPlace, InTurnAcksSafe
<1>10. Covered'
  BY <1>3, <1>4, OwedCarried DEF SenderInv
<1> QED
  BY <1>5, <1>6, <1>7, <1>8, <1>9, <1>10 DEF SenderInv

(* STATE_END and STATE_ERROR, and the events that are passed over.         *)
LEMMA FinishOrIgnoreKeeps ==
    ASSUME SenderInv, Finish \/ Ignore PROVE SenderInv'
<1>1. /\ Settings /\ OneAgain /\ Positions /\ DOMAIN snd = SndFields
      /\ air' = air
  BY DEF SenderInv, Settings, Finish, Ignore
<1>2. PICK state \in {"SEND", "WAIT_x_ACK", "RESEND", "END", "ERROR"},
           types \in SUBSET ({"again", "timer"} \cup Messages) :
        /\ Handles(state, types)
        /\ state = "WAIT_x_ACK" => types = {"abort"}
  BY DEF Finish, Ignore, Messages
<1>3. /\ snd.state = state /\ Tail(snd.queue) \in Seq(Events)
      /\ Head(snd.queue).type \in types
      /\ ~snd.stray => OneAgainAtMost(Tail(snd.queue))
      /\ ~snd.stray /\ state = "WAIT_x_ACK" => NoAgain(Tail(snd.queue))
      /\ HasTimer(snd.queue) /\ Head(snd.queue).type # "timer" =>
           HasTimer(Tail(snd.queue))
  BY <1>1, <1>2, Handled
<1>4. /\ Differ(snd, snd', {"queue", "state"})
      /\ snd'.queue = Tail(snd.queue)
      /\ snd'.state = "dead" \/ snd'.state = snd.state
  <2>1. CASE snd' = Taken
    BY <1>1, <2>1, TakenIs DEF Differ, SndFields
  <2>2. CASE snd' = [Taken EXCEPT !.state = "dead"]
    <3>1. DOMAIN Taken = SndFields
      BY <1>1, TakenIs DEF Differ
    <3>2. Differ(Taken, snd', {"state"}) /\ snd'.state = "dead"
      BY <2>2, <3>1 DEF Differ, SndFields
    <3> QED
      BY <1>1, <3>2, TakenIs DEF Differ, SndFields
  <2> QED
    BY <2>1, <2>2 DEF Finish, Ignore
<1>5. /\ snd'.window = snd.window /\ snd'.fcn = snd.fcn /\ snd'.ptr = snd.ptr
      /\ snd'.confirmed = snd.confirmed /\ snd'.errors = snd.errors
      /\ snd'.stray = snd.stray /\ snd'.timer = snd.timer
      /\ snd'.bitmap = snd.bitmap
      /\ snd'.lacking = snd.lacking /\ snd'.unheeded = snd.unheeded
  BY <1>4 DEF Differ, SndFields
<1>6. snd'.queue \in Seq(Events) /\ OneAgain'
  BY <1>3, <1>4, <1>5 DEF OneAgain
<1>7. WaitGuarded'
  <2>1. CASE snd'.state = "WAIT_x_ACK"
    <3>1. snd.state = "WAIT_x_ACK" /\ Head(snd.queue).type # "timer"
      BY <1>2, <1>3, <1>4, <2>1
    <3>2. snd.timer \/ HasTimer(snd.queue)
      BY <3>1 DEF SenderInv, WaitGuarded, HasTimer
    <3>3. snd'.timer \/ HasTimer(snd'.queue)
      BY <1>3, <1>4, <1>5, <3>1, <3>2
    <3> QED
      BY <3>3 DEF WaitGuarded, HasTimer
  <2>2. CASE snd'.state # "WAIT_x_ACK"
    BY <2>2 DEF WaitGuarded
  <2> QED
    BY <2>1, <2>2
<1>8. /\ Settings' /\ SentWindows' = SentWindows /\ nWindows' = nWindows
      /\ snd'.mechanism = snd.mechanism /\ snd'.nFullTiles = snd.nFullTiles
  <2>1. AirIsSequence'
    BY <1>1 DEF Settings, AirIsSequence
  <2>2. Differ(snd, snd', SndFields \ {"mechanism", "nFullTiles"})
    BY <1>4 DEF Differ, SndFields
  <2> QED
    BY <1>1, <1>6, <2>1, <2>2, Settled
<1>9. Positions'
  <2>1. CASE snd'.state = "dead"
    BY <1>1, <1>5, <2>1 DEF Positions
  <2>2. CASE snd'.state = snd.state
    BY <1>1, <1>5, <1>8, <2>2 DEF Positions
  <2> QED
    BY <1>4, <2>1, <2>2
<1>10. Repairs'
  BY <1>4, <1>5, <1>8 DEF SenderInv, Repairs
<1>11. FragmentsInPlace' /\ InTurnAcksSafe'
  BY <1>1, <1>4, <1>5, <1>8 DEF SenderInv, FragmentsInPlace, InTurnAcksSafe
<1>12. Covered'
  BY <1>4, <1>5, <1>8, OwedCarried DEF SenderInv
<1> QED
  BY <1>6, <1>7, <1>8, <1>9, <1>10, <1>11, <1>12 DEF SenderInv

(* An ACK request, or no more of them.                                     *)
LEMMA WaitTimerKeeps ==
    ASSUME SenderInv, WaitTimer PROVE SenderInv'
<1>1. /\ Settings /\ OneAgain /\ Positions /\ DOMAIN snd = SndFields
      /\ Handles("WAIT_x_ACK", {"timer"})
  BY DEF SenderInv, Settings, WaitTimer
<1>2. /\ snd.state = "WAIT_x_ACK" /\ Tail(snd.queue) \in Seq(Events)
      /\ ~snd.stray => NoAgain(Tail(snd.queue))
  BY <1>1, Handled
<1>3. DOMAIN Taken = SndFields
  BY <1>1, TakenIs DEF Differ
<1>4. /\ Differ(snd, snd', {"queue", "state", "timer", "attempts"})
      /\ \/ /\ snd'.queue = Append(Tail(snd.queue), Again)
            /\ snd'.state = "ERROR" /\ air' = air
         \/ /\ snd'.queue = Tail(snd.queue)
            /\ snd'.state = "WAIT_x_ACK" /\ snd'.timer
            /\ air' = <<AckReq(snd.window)>>
  <2>1. CASE snd.attempts <= maxAckReq
    <3> DEFINE s == [Taken EXCEPT !.attempts = @ + 1]
    <3>1. Differ(Taken, s, {"attempts"})
      BY <1>3 DEF Differ, SndFields
    <3>2. snd' = ThenWait(s) /\ air' = <<AckReq(snd.window)>>
      BY <2>1 DEF WaitTimer
    <3>3. DOMAIN s = SndFields
      BY <3>1 DEF Differ
    <3> HIDE DEF s
    <3>4. /\ Differ(s, snd', {"state", "timer"})
          /\ snd'.state = "WAIT_x_ACK" /\ snd'.timer
      BY <3>2, <3>3, ThenWaitIs
    <3>5. Differ(snd, s, {"queue", "attempts"}) /\ s.queue = Tail(snd.queue)
      BY <1>1, <3>1, TakenIs DEF Differ, SndFields
    <3> QED
      BY <3>2, <3>4, <3>5 DEF Differ, SndFields
  <2>2. CASE ~(snd.attempts <= maxAckReq)
    <3>1. snd' = ThenAgain(Taken, "ERROR") /\ air' = air
      BY <2>2 DEF WaitTimer
    <3>2. /\ Differ(Taken, snd', {"state", "queue"}) /\ snd'.state = "ERROR"
          /\ snd'.queue = Append(Taken.queue, Again)
      BY <1>3, <3>1, ThenAgainIs
    <3> QED
      BY <1>1, <3>1, <3>2, TakenIs DEF Differ, SndFields
  <2> QED
    BY <2>1, <2>2
<1>5. /\ snd'.window = snd.window /\ snd'.fcn = snd.fcn /\ snd'.ptr = snd.ptr
      /\ snd'.confirmed = snd.confirmed /\ snd'.errors = snd.errors
      /\ snd'.stray = snd.stray /\ snd'.nFullTiles = snd.nFullTiles
      /\ snd'.lacking = snd.lacking /\ snd'.unheeded = snd.unheeded
  BY <1>4 DEF Differ, SndFields
<1>6. snd'.queue \in Seq(Events) /\ OneAgain' /\ WaitGuarded'
  BY <1>2, <1>4, <1>5, AgainSettles, WaitSettles
<1>7. AirIsSequence' /\ FragmentsInPlace'
  <2>1. CASE air' = air
    BY <1>1, <1>5, <2>1 DEF Settings, AirIsSequence, SenderInv, FragmentsInPlace
  <2>2. CASE air' = <<AckReq(snd.window)>>
    <3>1. /\ air' \in Seq({AckReq(snd.window)})
          /\ \A i \in DOMAIN air' : air'[i] = AckReq(snd.window)
      BY <2>2
    <3>2. AckReq(snd.window).type # "regular"
      BY DEF AckReq
    <3> QED
      BY <3>1, <3>2 DEF AirIsSequence, FragmentsInPlace
  <2> QED
    BY <1>4, <2>1, <2>2
<1>8. /\ Settings' /\ SentWindows' = SentWindows /\ nWindows' = nWindows
      /\ snd'.mechanism = snd.mechanism
  <2>1. Differ(snd, snd', SndFields \ {"mechanism", "nFullTiles"})
    BY <1>4 DEF Differ, SndFields
  <2> QED
    BY <1>1, <1>6, <1>7, <2>1, Settled
<1>9. Positions'
  BY <1>1, <1>2, <1>4, <1>5, <1>8 DEF Positions
<1>10. Repairs' /\ InTurnAcksSafe'
  BY <1>4, <1>5, <1>8 DEF SenderInv, Repairs, InTurnAcksSafe
<1>11. Covered'
  BY <1>2, <1>4, <1>5, OwedCarried DEF SenderInv
<1> QED
  BY <1>6, <1>7, <1>8, <1>9, <1>10, <1>11 DEF SenderInv

LEMMA EventsAre ==
    ASSUME NEW m \in Events
    PROVE  /\ m.type = "ack" => m.w \in SentWindows /\ WindowOf(m) = m.w
           /\ m.type = "nack" =>
                /\ m.windows \in Listings /\ m.missing \subseteq ListedTiles(m.windows)
                /\ WindowOf(m) = Head(m.windows) /\ WindowOf(m) \in SentWindows
<1>1. CASE m \in {Again, TimerExpired, ReceiverAbort}
  BY <1>1 DEF Again, TimerExpired, ReceiverAbort
<1>2. CASE m \in {Ack(w) : w \in SentWindows}
  BY <1>2 DEF Ack, WindowOf
<1>3. ASSUME NEW windows \in Listings,
             NEW missing \in SUBSET ListedTiles(windows),
             m = Nack(windows, missing)
      PROVE  /\ m.type = "nack" /\ m.windows = windows /\ m.missing = missing
             /\ WindowOf(m) = Head(windows) /\ WindowOf(m) \in SentWindows
  <2>1. m.type = "nack" /\ m.windows = windows /\ m.missing = missing
    BY <1>3 DEF Nack
  <2>2. Head(windows) \in SentWindows
    BY HeadTailProperties DEF Listings
  <2> QED
    BY <2>1, <2>2 DEF WindowOf
<1> QED
  BY <1>1, <1>2, <1>3 DEF Events

(* C = 1: the window, or the session, is done.                             *)
LEMMA WaitAckKeeps ==
    ASSUME SenderInv, WaitAck PROVE SenderInv'
<1> DEFINE m == Head(snd.queue)
           a == AckTaken(m)
           s == [a EXCEPT !.bitmap = @ \cup PositionsOf(m.w)]
<1>1. /\ Settings /\ OneAgain /\ Positions /\ Repairs /\ DOMAIN snd = SndFields
      /\ Handles("WAIT_x_ACK", {"ack"})
      /\ snd.mechanism \in {"ack_end_win", "ack_end_session", "compound_ack"}
      /\ air' = air
  BY DEF SenderInv, Settings, WaitAck
<1>2. /\ snd.state = "WAIT_x_ACK" /\ Tail(snd.queue) \in Seq(Events)
      /\ m \in Events /\ m.type = "ack"
      /\ ~snd.stray => NoAgain(Tail(snd.queue))
  BY <1>1, Handled
<1>3. m.w \in SentWindows /\ WindowOf(m) = m.w
  BY <1>2, EventsAre
<1>4. /\ Differ(snd, s, {"queue", "stray", "timer", "attempts", "bitmap"})
      /\ s.queue = Tail(snd.queue)
      /\ s.stray = (snd.stray \/ /\ snd.mechanism = "ack_end_win"
                                 /\ snd.window # m.w)
  <2>1. /\ Differ(snd, a, {"queue", "stray", "timer", "attempts"})
        /\ a.queue = Tail(snd.queue)
        /\ a.stray = (snd.stray \/ /\ snd.mechanism = "ack_end_win"
                                   /\ snd.window # WindowOf(m))
    BY <1>1, AckTakenIs
  <2> HIDE DEF m, a
  <2>2. Differ(a, s, {"bitmap"})
    BY <2>1 DEF Differ, SndFields
  <2> HIDE DEF s
  <2> QED
    BY <1>3, <2>1, <2>2 DEF Differ, SndFields
<1>5. DOMAIN s = SndFields
  BY <1>4 DEF Differ
<1>6. /\ Differ(snd, snd', SndFields \ {"mechanism", "nFullTiles", "ptr", "fcn",
                                          "lacking", "unheeded"})
      /\ snd'.queue = Append(Tail(snd.queue), Again) /\ snd'.stray = s.stray
      /\ snd'.confirmed \in SentWindows /\ snd'.errors \in Seq(SentWindows)
      /\ \/ snd'.state = "END" /\ snd'.window \in {snd.window, snd.window + 1}
         \/ /\ snd'.state = "SEND" /\ snd.mechanism = "ack_end_win"
            /\ m.w # nWindows - 1 /\ snd'.window = snd.window + 1
  <2> HIDE DEF m, a, s
  <2>1. CASE snd.mechanism = "ack_end_win"
    <3> DEFINE t == [s EXCEPT !.window = @ + 1]
               state == IF m.w = nWindows - 1 THEN "END" ELSE "SEND"
    <3>1. snd' = ThenAgain(t, state)
      BY <2>1 DEF WaitAck, m, a, s
    <3>2. Differ(s, t, {"window"}) /\ t.window = s.window + 1
      BY <1>5 DEF Differ, SndFields
    <3>3. DOMAIN t = SndFields
      BY <3>2 DEF Differ
    <3>4. state \in {"END", "SEND"} /\ (state = "SEND" => m.w # nWindows - 1)
      OBVIOUS
    <3> HIDE DEF t, state
    <3>5. /\ Differ(t, snd', {"state", "queue"}) /\ snd'.state = state
          /\ snd'.queue = Append(t.queue, Again)
      BY <3>1, <3>3, ThenAgainIs
    <3>6. /\ Differ(snd, snd', SndFields \ {"mechanism", "nFullTiles", "ptr",
                                              "fcn", "lacking", "unheeded"})
          /\ snd'.queue = Append(Tail(snd.queue), Again) /\ snd'.stray = s.stray
          /\ snd'.confirmed = snd.confirmed /\ snd'.errors = snd.errors
          /\ snd'.window = snd.window + 1
      BY <1>4, <3>2, <3>5 DEF Differ, SndFields
    <3> QED
      BY <1>1, <2>1, <3>4, <3>5, <3>6 DEF Repairs
  <2>2. CASE snd.mechanism = "ack_end_session"
    <3> DEFINE t == [s EXCEPT !.confirmed = m.w]
    <3>1. snd' = ThenAgain(t, "END")
      BY <2>2 DEF WaitAck, m, a, s
    <3>2. Differ(s, t, {"confirmed"}) /\ t.confirmed = m.w
      BY <1>5 DEF Differ, SndFields
    <3>3. DOMAIN t = SndFields
      BY <3>2 DEF Differ
    <3> HIDE DEF t
    <3>4. /\ Differ(t, snd', {"state", "queue"}) /\ snd'.state = "END"
          /\ snd'.queue = Append(t.queue, Again)
      BY <3>1, <3>3, ThenAgainIs
    <3>5. /\ Differ(snd, snd', SndFields \ {"mechanism", "nFullTiles", "ptr",
                                              "fcn", "lacking", "unheeded"})
          /\ snd'.queue = Append(Tail(snd.queue), Again) /\ snd'.stray = s.stray
          /\ snd'.confirmed = m.w /\ snd'.errors = snd.errors
          /\ snd'.window = snd.window
      BY <1>4, <3>2, <3>4 DEF Differ, SndFields
    <3> QED
      BY <1>1, <1>3, <3>4, <3>5 DEF Repairs
  <2>3. CASE snd.mechanism = "compound_ack"
    <3> DEFINE t == [s EXCEPT !.errors = Append(@, m.w)]
    <3>1. snd' = ThenAgain(t, "END")
      BY <2>3 DEF WaitAck, m, a, s
    <3>2. Differ(s, t, {"errors"}) /\ t.errors = Append(s.errors, m.w)
      BY <1>5 DEF Differ, SndFields
    <3>3. DOMAIN t = SndFields
      BY <3>2 DEF Differ
    <3> HIDE DEF t
    <3>4. /\ Differ(t, snd', {"state", "queue"}) /\ snd'.state = "END"
          /\ snd'.queue = Append(t.queue, Again)
      BY <3>1, <3>3, ThenAgainIs
    <3>5. /\ Differ(snd, snd', SndFields \ {"mechanism", "nFullTiles", "ptr",
                                              "fcn", "lacking", "unheeded"})
          /\ snd'.queue = Append(Tail(snd.queue), Again) /\ snd'.stray = s.stray
          /\ snd'.confirmed = snd.confirmed /\ snd'.errors = Append(snd.errors, m.w)
          /\ snd'.window = snd.window
      BY <1>4, <3>2, <3>4 DEF Differ, SndFields
    <3>6. Append(snd.errors, m.w) \in Seq(SentWindows)
      BY <1>1, <1>3, AppendProperties DEF Repairs
    <3> QED
      BY <1>1, <3>4, <3>5, <3>6 DEF Repairs
  <2> QED
    BY <1>1, <2>1, <2>2, <2>3
<1> HIDE DEF s, a, m
<1>7. snd'.queue \in Seq(Events) /\ OneAgain' /\ WaitGuarded'
  BY <1>2, <1>4, <1>6, AgainSettles
<1>8. /\ Settings' /\ SentWindows' = SentWindows /\ nWindows' = nWindows
      /\ snd'.mechanism = snd.mechanism /\ snd'.nFullTiles = snd.nFullTiles
      /\ snd'.ptr = snd.ptr /\ snd'.fcn = snd.fcn
      /\ snd'.lacking = snd.lacking /\ snd'.unheeded = snd.unheeded
  <2>1. AirIsSequence'
    BY <1>1 DEF Settings, AirIsSequence
  <2>2. Differ(snd, snd', SndFields \ {"mechanism", "nFullTiles"})
        /\ snd'.ptr = snd.ptr /\ snd'.fcn = snd.fcn
        /\ snd'.lacking = snd.lacking /\ snd'.unheeded = snd.unheeded
    BY <1>6 DEF Differ, SndFields
  <2> QED
    BY <1>1, <1>7, <2>1, <2>2, Settled
<1>9. Positions'
  <2>1. snd'.window \in Nat /\ snd'.fcn \in 0 .. windowSize - 1 /\ snd'.ptr \in Nat
    BY <1>1, <1>6, <1>8 DEF Positions
  <2>2. CASE snd'.state = "END"
    BY <2>1, <2>2 DEF Positions
  <2>3. CASE snd'.state = "SEND"
    <3>1. /\ snd'.window = snd.window + 1 /\ snd.mechanism = "ack_end_win"
          /\ m.w # nWindows - 1
          /\ snd.window \in SentWindows /\ snd.fcn = windowSize - 1
          /\ snd.ptr = IF snd.window = nWindows - 1
                         THEN snd.nFullTiles ELSE Place(snd.window + 1)
      BY <1>1, <1>2, <1>6, <2>3 DEF Positions
    <3>2. /\ nWindows \in Nat \ {0} /\ snd.nFullTiles \in Nat
          /\ windowSize \in Nat
          /\ Place(nWindows - 1) <= snd.nFullTiles
          /\ snd.window \in 0 .. nWindows - 1
          /\ Place(snd.window + 1) \in Int /\ Place(nWindows - 1) \in Int
      BY <1>1, <3>1, WindowFacts DEF SentWindows
    <3>3. CASE snd.window = nWindows - 1
      <4>1. snd.window # m.w
        BY <3>1, <3>3
      <4>2. snd'.stray
        BY <1>4, <1>6, <3>1, <4>1, Zenon
      <4>3. snd'.window = nWindows /\ snd'.stray /\ snd'.ptr = snd.nFullTiles
        BY <1>8, <3>1, <3>2, <3>3, <4>2
      <4>4. /\ snd'.window = nWindows' /\ snd'.mechanism = "ack_end_win"
            /\ snd'.fcn = windowSize - 1 /\ snd'.ptr = snd'.nFullTiles
            /\ snd'.stray
        BY <1>8, <3>1, <4>3
      <4> QED
        BY <2>1, <2>3, <4>4 DEF Positions
    <3>4. CASE snd.window # nWindows - 1
      <4>1. snd'.window \in 0 .. nWindows - 1 /\ snd'.window <= nWindows - 1
        BY <3>1, <3>2, <3>4
      <4>2. Place(snd'.window) <= Place(nWindows - 1)
        BY <3>2, <4>1, PlacesAscend
      <4>3. snd'.ptr = Place(snd'.window) /\ snd'.ptr <= snd.nFullTiles
        BY <1>8, <3>1, <3>2, <3>4, <4>2
      <4>4. /\ snd'.window \in SentWindows'
            /\ snd'.ptr = Place(snd'.window) + (windowSize - 1 - snd'.fcn)
            /\ snd'.ptr <= snd'.nFullTiles
        BY <1>8, <2>1, <3>1, <3>2, <4>1, <4>3 DEF SentWindows
      <4> QED
        BY <2>1, <2>3, <4>4 DEF Positions
    <3> QED
      BY <3>3, <3>4
  <2> QED
    BY <1>6, <2>2, <2>3
<1>10. Repairs' /\ FragmentsInPlace' /\ InTurnAcksSafe'
  BY <1>1, <1>6, <1>8 DEF SenderInv, Repairs, FragmentsInPlace, InTurnAcksSafe
<1>11. Covered'
  <2>1. snd.stray => snd'.stray
    BY <1>4, <1>6
  <2> QED
    BY <1>2, <1>6, <1>8, <2>1, OwedCarried DEF SenderInv
<1> QED
  BY <1>7, <1>8, <1>9, <1>10, <1>11 DEF SenderInv

LEMMA ListedTilesAre ==
    ASSUME NEW S, NEW windows \in Seq(S), windows # <<>>
    PROVE  /\ Len(windows) = 1 => ListedTiles(windows) = PositionsOf(Head(windows))
           /\ ListedTiles(windows) \subseteq
                PositionsOf(Head(windows)) \cup ListedTiles(Tail(windows))
           /\ \A errors \in Seq(S) :
                ListedTiles(windows) \subseteq ListedTiles(errors \o windows)
<1>1. /\ Head(windows) = windows[1] /\ DOMAIN windows = 1 .. Len(windows)
      /\ Len(windows) \in Nat \ {0}
      /\ DOMAIN Tail(windows) = 1 .. Len(windows) - 1
      /\ \A i \in 1 .. Len(windows) - 1 : Tail(windows)[i] = windows[i + 1]
  BY HeadTailProperties, LenProperties, EmptySeq
<1>2. \A i \in DOMAIN windows : PositionsOf(windows[i]) \subseteq ListedTiles(windows)
  BY DEF ListedTiles
<1>3. Len(windows) = 1 => DOMAIN windows = {1}
  BY <1>1
<1>4. Len(windows) = 1 => ListedTiles(windows) = PositionsOf(Head(windows))
  BY <1>1, <1>3 DEF ListedTiles
<1>5. \A i \in DOMAIN windows : i # 1 => i - 1 \in 1 .. Len(windows) - 1 /\ (i - 1) + 1 = i
  BY <1>1
<1>6. \A i \in DOMAIN windows : i # 1 =>
        PositionsOf(windows[i]) \subseteq ListedTiles(Tail(windows))
  <2> SUFFICES ASSUME NEW i \in DOMAIN windows, i # 1
               PROVE  PositionsOf(windows[i]) \subseteq ListedTiles(Tail(windows))
    OBVIOUS
  <2>1. i - 1 \in DOMAIN Tail(windows) /\ Tail(windows)[i - 1] = windows[i]
    BY <1>1, <1>5
  <2> QED
    BY <2>1, Zenon DEF ListedTiles
<1>7. ListedTiles(windows) \subseteq
        PositionsOf(Head(windows)) \cup ListedTiles(Tail(windows))
  <2> SUFFICES ASSUME NEW k \in ListedTiles(windows)
               PROVE  k \in PositionsOf(Head(windows)) \cup ListedTiles(Tail(windows))
    OBVIOUS
  <2>1. PICK i \in DOMAIN windows : k \in PositionsOf(windows[i])
    BY DEF ListedTiles
  <2> QED
    BY <1>1, <1>6, <2>1
<1>8. ASSUME NEW errors \in Seq(S)
      PROVE  ListedTiles(windows) \subseteq ListedTiles(errors \o windows)
  <2>1. /\ DOMAIN (errors \o windows) = 1 .. Len(errors) + Len(windows)
        /\ Len(errors) \in Nat
        /\ \A i \in 1 .. Len(errors) + Len(windows) :
             (errors \o windows)[i] = IF i <= Len(errors)
                                        THEN errors[i] ELSE windows[i - Len(errors)]
    BY ConcatProperties, LenProperties
  <2>2. \A i \in DOMAIN windows :
          /\ Len(errors) + i \in DOMAIN (errors \o windows)
          /\ (errors \o windows)[Len(errors) + i] = windows[i]
    BY <1>1, <2>1
  <2> QED
    BY <2>2, Zenon DEF ListedTiles
<1> QED
  BY <1>4, <1>7, <1>8

LEMMA NackDecodedIs ==
    ASSUME NEW a, DOMAIN a = SndFields,
           a.mechanism \in {"ack_end_win", "ack_end_session", "compound_ack"},
           a.confirmed \in SentWindows, a.errors \in Seq(SentWindows),
           NEW m, m.windows \in Seq(SentWindows), m.windows # <<>>,
           WindowOf(m) \in SentWindows, WindowOf(m) = Head(m.windows),
           m.missing \subseteq ListedTiles(m.windows),
           a.mechanism = "compound_ack" \/ Len(m.windows) = 1
    PROVE  /\ Differ(a, NackDecoded(a, m),
                     {"lacking", "unheeded", "confirmed", "bitmap", "errors"})
           /\ NackDecoded(a, m).confirmed \in SentWindows
           /\ NackDecoded(a, m).errors \in Seq(SentWindows)
           /\ a.mechanism = "compound_ack" => NackDecoded(a, m).errors # <<>>
           /\ a.mechanism = "ack_end_session" =>
                NackDecoded(a, m).confirmed = WindowOf(m)
           /\ NackDecoded(a, m).lacking \ NackDecoded(a, m).unheeded \subseteq
                (a.lacking \ a.unheeded)
                \cup ((IF a.mechanism = "compound_ack"
                         THEN ListedTiles(NackDecoded(a, m).errors)
                         ELSE PositionsOf(WindowOf(m)))
                      \ NackDecoded(a, m).bitmap)
<1> DEFINE t == [a EXCEPT !.lacking = @ \cup m.missing]
           u == [t EXCEPT !.unheeded = @ \cup (m.missing \cap a.bitmap)]
           listed == UNION {PositionsOf(w) : w \in {m.windows[i] :
                                                    i \in DOMAIN m.windows}}
           d == NackDecoded(a, m)
<1>1. Differ(a, t, {"lacking"}) /\ t.lacking = a.lacking \cup m.missing
  BY DEF Differ, SndFields
<1>2. /\ Differ(t, u, {"unheeded"})
      /\ u.unheeded = t.unheeded \cup (m.missing \cap a.bitmap)
  <2>1. DOMAIN t = SndFields
    BY <1>1 DEF Differ
  <2> HIDE DEF t
  <2> QED
    BY <2>1 DEF Differ, SndFields
<1>3. /\ Differ(a, u, {"lacking", "unheeded"})
      /\ u.lacking = a.lacking \cup m.missing
      /\ u.unheeded = a.unheeded \cup (m.missing \cap a.bitmap)
  <2> HIDE DEF t, u
  <2> QED
    BY <1>1, <1>2 DEF Differ, SndFields
<1>4. a.mechanism # "compound_ack" => m.missing \subseteq PositionsOf(WindowOf(m))
  BY ListedTilesAre
<1>5. CASE a.mechanism = "ack_end_win"
  <2>1. d = u
    BY <1>5 DEF NackDecoded
  <2> HIDE DEF t, u, d
  <2>2. /\ d.confirmed = a.confirmed /\ d.errors = a.errors
        /\ d.bitmap = a.bitmap
    BY <1>3, <2>1 DEF Differ, SndFields
  <2>3. Differ(a, d, {"lacking", "unheeded", "confirmed", "bitmap", "errors"})
    BY <1>3, <2>1 DEF Differ
  <2>4. d.lacking \ d.unheeded \subseteq
          (a.lacking \ a.unheeded) \cup (PositionsOf(WindowOf(m)) \ d.bitmap)
    BY <1>3, <1>5, <1>4, <2>1, <2>2
  <2> QED
    BY <1>5, <2>2, <2>3, <2>4 DEF d
<1>6. CASE a.mechanism = "ack_end_session"
  <2>1. d = [u EXCEPT !.confirmed = WindowOf(m)]
    BY <1>6 DEF NackDecoded
  <2> HIDE DEF t, u, d
  <2>2. Differ(u, d, {"confirmed"}) /\ d.confirmed = WindowOf(m)
    BY <1>3, <2>1 DEF Differ, SndFields
  <2>3. /\ d.errors = a.errors /\ d.bitmap = a.bitmap
        /\ d.lacking = u.lacking /\ d.unheeded = u.unheeded
        /\ Differ(a, d, {"lacking", "unheeded", "confirmed", "bitmap", "errors"})
    BY <1>3, <2>2 DEF Differ, SndFields
  <2>4. d.lacking \ d.unheeded \subseteq
          (a.lacking \ a.unheeded) \cup (PositionsOf(WindowOf(m)) \ d.bitmap)
    BY <1>3, <1>6, <1>4, <2>3
  <2> QED
    BY <1>6, <2>2, <2>3, <2>4 DEF d
<1>7. CASE a.mechanism = "compound_ack"
  <2> DEFINE errors == IF Len(m.windows) > 1 THEN m.windows
                                             ELSE a.errors \o m.windows
  <2>1. /\ errors \in Seq(SentWindows) /\ errors # <<>>
        /\ m.missing \subseteq ListedTiles(errors)
    <3>1. CASE Len(m.windows) > 1
      BY <3>1
    <3>2. CASE ~(Len(m.windows) > 1)
      <4> DEFINE w == m.windows
                 e == a.errors
      <4>1. /\ e \in Seq(SentWindows) /\ w \in Seq(SentWindows) /\ w # <<>>
            /\ m.missing \subseteq ListedTiles(w)
        OBVIOUS
      <4>2. errors = e \o w
        BY <3>2
      <4> HIDE DEF errors, e, w
      <4>3. e \o w \in Seq(SentWindows) /\ Len(e \o w) = Len(e) + Len(w)
        BY <4>1, ConcatProperties
      <4>4. Len(e) \in Nat /\ Len(w) \in Nat \ {0}
        BY <4>1, LenProperties
      <4>5. Len(e \o w) # 0
        BY <4>3, <4>4
      <4>6. ListedTiles(w) \subseteq ListedTiles(e \o w)
        BY <4>1, ListedTilesAre
      <4> QED
        BY <4>1, <4>2, <4>3, <4>5, <4>6
    <3> QED
      BY <3>1, <3>2
  <2>2. d = [[t EXCEPT !.bitmap = (@ \cup listed) \ m.missing]
                EXCEPT !.errors = errors]
    <3> HIDE DEF t, listed
    <3>1. t.errors = a.errors
      BY <1>1 DEF Differ, SndFields
    <3> QED
      BY <1>7, <3>1, Zenon DEF NackDecoded, t, listed
  <2> DEFINE v == [t EXCEPT !.bitmap = (@ \cup listed) \ m.missing]
  <2> HIDE DEF errors, d, t, listed
  <2>3. Differ(t, v, {"bitmap"}) /\ v.bitmap = (t.bitmap \cup listed) \ m.missing
    BY <1>1 DEF Differ, SndFields
  <2> HIDE DEF v
  <2>4. Differ(v, d, {"errors"}) /\ d.errors = errors
    BY <2>2, <2>3 DEF Differ, SndFields, v
  <2>5. /\ d.confirmed = a.confirmed /\ d.unheeded = a.unheeded
        /\ d.lacking = a.lacking \cup m.missing /\ d.bitmap = v.bitmap
        /\ Differ(a, d, {"lacking", "unheeded", "confirmed", "bitmap", "errors"})
    BY <1>1, <2>3, <2>4 DEF Differ, SndFields
  <2>6. d.lacking \ d.unheeded \subseteq
          (a.lacking \ a.unheeded) \cup (ListedTiles(d.errors) \ d.bitmap)
    BY <2>1, <2>3, <2>4, <2>5
  <2> QED
    BY <1>7, <2>1, <2>4, <2>5, <2>6 DEF d
<1> QED
  BY <1>5, <1>6, <1>7

(* C = 0: something is missing.                                            *)
LEMMA WaitNackKeeps ==
    ASSUME SenderInv, WaitNack PROVE SenderInv'
<1> DEFINE m == Head(snd.queue)
           a == AckTaken(m)
           d == NackDecoded(a, m)
<1>1. /\ Settings /\ OneAgain /\ Positions /\ Repairs /\ DOMAIN snd = SndFields
      /\ Handles("WAIT_x_ACK", {"nack"})
      /\ snd.mechanism \in {"ack_end_win", "ack_end_session", "compound_ack"}
      /\ air' = air /\ snd' = ThenAgain(d, "RESEND")
  BY DEF SenderInv, Settings, WaitNack
<1>2. /\ snd.state = "WAIT_x_ACK" /\ Tail(snd.queue) \in Seq(Events)
      /\ m \in Events /\ m.type = "nack"
      /\ ~snd.stray => NoAgain(Tail(snd.queue))
  BY <1>1, Handled
<1>3. /\ m.windows \in Seq(SentWindows) /\ m.windows # <<>>
      /\ WindowOf(m) \in SentWindows /\ WindowOf(m) = Head(m.windows)
      /\ m.missing \subseteq ListedTiles(m.windows)
      /\ snd.mechanism = "compound_ack" \/ Len(m.windows) = 1
  BY <1>2, EventsAre DEF Listings
<1>4. /\ Differ(snd, a, {"queue", "stray", "timer", "attempts"})
      /\ a.queue = Tail(snd.queue)
      /\ a.stray = (snd.stray \/ /\ snd.mechanism = "ack_end_win"
                                 /\ snd.window # WindowOf(m))
  BY <1>1, AckTakenIs
<1> HIDE DEF m, a
<1>5. /\ a.confirmed = snd.confirmed /\ a.errors = snd.errors
      /\ a.mechanism = snd.mechanism /\ DOMAIN a = SndFields
      /\ a.lacking = snd.lacking /\ a.unheeded = snd.unheeded
  BY <1>4 DEF Differ, SndFields
<1>6. /\ Differ(a, d, {"lacking", "unheeded", "confirmed", "bitmap", "errors"})
      /\ d.confirmed \in SentWindows /\ d.errors \in Seq(SentWindows)
      /\ snd.mechanism = "compound_ack" => d.errors # <<>>
      /\ snd.mechanism = "ack_end_session" => d.confirmed = WindowOf(m)
      /\ d.lacking \ d.unheeded \subseteq
           (snd.lacking \ snd.unheeded)
           \cup ((IF snd.mechanism = "compound_ack" THEN ListedTiles(d.errors)
                                                   ELSE PositionsOf(WindowOf(m)))
                 \ d.bitmap)
  BY <1>1, <1>3, <1>5, NackDecodedIs DEF Repairs
<1> HIDE DEF d
<1>7. DOMAIN d = SndFields
  BY <1>6 DEF Differ
<1>8. /\ Differ(d, snd', {"state", "queue"})
      /\ snd'.state = "RESEND" /\ snd'.queue = Append(d.queue, Again)
  BY <1>1, <1>7, ThenAgainIs
<1>9. /\ snd'.queue = Append(Tail(snd.queue), Again)
      /\ snd'.stray = a.stray
      /\ snd'.window = snd.window /\ snd'.fcn = snd.fcn /\ snd'.ptr = snd.ptr
      /\ snd'.confirmed = d.confirmed /\ snd'.errors = d.errors
      /\ snd'.lacking = d.lacking /\ snd'.unheeded = d.unheeded
      /\ snd'.bitmap = d.bitmap
      /\ Differ(snd, snd', SndFields \ {"mechanism", "nFullTiles"})
  BY <1>4, <1>6, <1>8 DEF Differ, SndFields
<1>10. snd'.queue \in Seq(Events) /\ OneAgain' /\ WaitGuarded'
  BY <1>2, <1>4, <1>8, <1>9, AgainSettles
<1>11. /\ Settings' /\ SentWindows' = SentWindows /\ nWindows' = nWindows
       /\ snd'.mechanism = snd.mechanism /\ snd'.nFullTiles = snd.nFullTiles
  <2>1. AirIsSequence'
    BY <1>1 DEF Settings, AirIsSequence
  <2> QED
    BY <1>1, <1>9, <1>10, <2>1, Settled
<1>12. Positions'
  BY <1>1, <1>2, <1>8, <1>9, <1>11 DEF Positions
<1>13. Repairs'
  BY <1>6, <1>8, <1>9, <1>11 DEF Repairs
<1>14. FragmentsInPlace' /\ InTurnAcksSafe'
  BY <1>1, <1>8, <1>11 DEF SenderInv, FragmentsInPlace, InTurnAcksSafe
<1>15. Covered'
  <2>1. snd'.ptr <= snd'.nFullTiles
    BY <1>9, <1>11 DEF SenderInv, Covered
  <2>2. ASSUME ~snd'.stray PROVE Owed' \subseteq ToRepair' \ snd'.bitmap
    <3>1. ~snd.stray /\ (snd.mechanism = "ack_end_win" => snd.window = WindowOf(m))
      BY <1>4, <1>9, <2>2
    <3>2. Owed = {}
      BY <1>2, <3>1 DEF SenderInv, Covered
    <3>3. ToRepair' = IF snd.mechanism = "compound_ack" THEN ListedTiles(d.errors)
                                                  ELSE PositionsOf(WindowOf(m))
      BY <1>1, <1>6, <1>9, <1>11, <3>1 DEF ToRepair, Repaired
    <3> QED
      BY <1>6, <1>9, <3>2, <3>3 DEF Owed
  <2> QED
    BY <1>8, <2>1, <2>2 DEF Covered
<1> QED
  BY <1>10, <1>11, <1>12, <1>13, <1>14, <1>15 DEF SenderInv

(* What the repair of a window leaves.                                     *)
LEMMA RepairKeeps ==
    ASSUME SenderInv, Handles("RESEND", {"again"}),
           NEW t, NEW sent,
           Differ(snd, t, {"queue", "lacking", "bitmap", "confirmed", "errors"}),
           t.queue = Tail(snd.queue),
           t.confirmed \in SentWindows, t.errors \in Seq(SentWindows),
           t.lacking \subseteq snd.lacking \ sent,
           t.bitmap \subseteq snd.bitmap \cup sent,
           \/ /\ snd' = ThenWait(t)
              /\ ~snd.stray => Owed \subseteq sent
           \/ /\ snd' = ThenAgain(t, "RESEND") \/ snd' = t
              /\ snd.mechanism = "compound_ack" => t.errors # <<>>
              /\ snd.mechanism # "compound_ack" => t.confirmed = snd.confirmed
              /\ ~snd.stray /\ snd.mechanism = "compound_ack" =>
                   Owed \subseteq ListedTiles(t.errors) \cup sent,
           \/ air' = air
           \/ \E f : /\ air' = <<f>> /\ f.first + f.n <= snd.nFullTiles
                     /\ f.first = f.w * windowSize + (windowSize - 1 - f.fcn)
    PROVE  SenderInv'
<1>1. Settings /\ OneAgain /\ Positions /\ DOMAIN t = SndFields
  BY DEF SenderInv, Differ
<1>2. /\ snd.state = "RESEND" /\ Tail(snd.queue) \in Seq(Events)
      /\ ~snd.stray => NoAgain(Tail(snd.queue))
  BY <1>1, Handled
<1>3. /\ Differ(t, snd', {"state", "timer", "queue"})
      /\ \/ /\ snd'.state = "WAIT_x_ACK" /\ snd'.timer
            /\ snd'.queue = Tail(snd.queue)
            /\ ~snd.stray => Owed \subseteq sent
         \/ /\ snd'.state = "RESEND"
            /\ snd.mechanism = "compound_ack" => t.errors # <<>>
            /\ snd.mechanism # "compound_ack" => t.confirmed = snd.confirmed
            /\ ~snd.stray /\ snd.mechanism = "compound_ack" =>
                 Owed \subseteq ListedTiles(t.errors) \cup sent
            /\ \/ snd'.queue = Tail(snd.queue)
               \/ snd'.queue = Append(Tail(snd.queue), Again)
  <2>1. CASE snd' = ThenWait(t) /\ (~snd.stray => Owed \subseteq sent)
    <3>1. /\ Differ(t, snd', {"state", "timer"})
          /\ snd'.state = "WAIT_x_ACK" /\ snd'.timer
      BY <1>1, <2>1, ThenWaitIs
    <3> QED
      BY <2>1, <3>1 DEF Differ, SndFields
  <2> DEFINE More == /\ snd.mechanism = "compound_ack" => t.errors # <<>>
                     /\ snd.mechanism # "compound_ack" =>
                          t.confirmed = snd.confirmed
                     /\ ~snd.stray /\ snd.mechanism = "compound_ack" =>
                          Owed \subseteq ListedTiles(t.errors) \cup sent
  <2>2. CASE snd' = ThenAgain(t, "RESEND") /\ More
    <3>1. /\ Differ(t, snd', {"state", "queue"}) /\ snd'.state = "RESEND"
          /\ snd'.queue = Append(t.queue, Again)
      BY <1>1, <2>2, ThenAgainIs
    <3> QED
      BY <2>2, <3>1 DEF Differ, SndFields
  <2>3. CASE snd' = t /\ More
    <3>1. t.state = snd.state
      BY DEF Differ, SndFields
    <3> QED
      BY <1>1, <1>2, <2>3, <3>1 DEF Differ
  <2> QED
    BY <2>1, <2>2, <2>3
<1>4. /\ snd'.window = snd.window /\ snd'.fcn = snd.fcn /\ snd'.ptr = snd.ptr
      /\ snd'.confirmed = t.confirmed /\ snd'.errors = t.errors
      /\ snd'.stray = snd.stray /\ snd'.nFullTiles = snd.nFullTiles
      /\ snd'.lacking = t.lacking /\ snd'.unheeded = snd.unheeded
      /\ snd'.bitmap = t.bitmap
      /\ Differ(snd, snd', SndFields \ {"mechanism", "nFullTiles"})
  BY <1>3 DEF Differ, SndFields
<1>5. snd'.queue \in Seq(Events) /\ OneAgain' /\ WaitGuarded'
  <2>1. CASE snd'.queue = Append(Tail(snd.queue), Again)
             /\ snd'.state = "RESEND"
    BY <1>2, <1>4, <2>1, AgainSettles
  <2>2. CASE snd'.queue = Tail(snd.queue)
    BY <1>2, <1>3, <1>4, <2>2, WaitSettles
  <2> QED
    BY <1>3, <2>1, <2>2
<1>6. AirIsSequence' /\ FragmentsInPlace'
  <2>1. CASE air' = air
    BY <1>1, <1>4, <2>1 DEF Settings, AirIsSequence, SenderInv, FragmentsInPlace
  <2>2. ASSUME NEW f, air' = <<f>>, f.first + f.n <= snd.nFullTiles,
               f.first = f.w * windowSize + (windowSize - 1 - f.fcn)
        PROVE  AirIsSequence' /\ FragmentsInPlace'
    BY <1>4, <2>2, FragmentSent
  <2> QED
    BY <2>1, <2>2
<1>7. /\ Settings' /\ SentWindows' = SentWindows /\ nWindows' = nWindows
      /\ snd'.mechanism = snd.mechanism
  BY <1>1, <1>4, <1>5, <1>6, Settled
<1>8. Positions'
  BY <1>1, <1>2, <1>3, <1>4, <1>7 DEF Positions
<1>9. Repairs' /\ InTurnAcksSafe'
  BY <1>3, <1>4, <1>7 DEF Repairs, InTurnAcksSafe
<1>10. Covered'
  <2>1. /\ snd'.ptr <= snd'.nFullTiles
        /\ ~snd.stray => Owed \subseteq ToRepair \ snd.bitmap
    BY <1>2, <1>4 DEF SenderInv, Covered
  <2>2. Owed' \subseteq Owed \ sent
    BY <1>4 DEF Owed
  <2>3. CASE snd'.state = "WAIT_x_ACK"
    BY <1>3, <1>4, <2>1, <2>2, <2>3 DEF Covered
  <2>4. CASE snd'.state = "RESEND" /\ snd.mechanism = "compound_ack"
    <3>1. ToRepair' = ListedTiles(t.errors)
      BY <1>4, <1>7, <2>4 DEF ToRepair
    <3> QED
      BY <1>3, <1>4, <2>1, <2>2, <2>4, <3>1 DEF Covered
  <2>5. CASE snd'.state = "RESEND" /\ snd.mechanism # "compound_ack"
    <3>1. t.confirmed = snd.confirmed
      BY <1>3, <2>5
    <3>2. Repaired' = Repaired
      BY <1>1, <1>4, <1>7, <2>5, <3>1 DEF Repaired, Settings
    <3>3. ToRepair' = PositionsOf(Repaired) /\ ToRepair = PositionsOf(Repaired)
      BY <1>7, <2>5, <3>2 DEF ToRepair
    <3> QED
      BY <1>4, <2>1, <2>2, <2>5, <3>3 DEF Covered
  <2> QED
    BY <1>3, <2>3, <2>4, <2>5
<1> QED
  BY <1>5, <1>6, <1>7, <1>8, <1>9, <1>10 DEF SenderInv

(* The window that is repaired, and the full tiles it has.                 *)
LEMMA RepairedIs ==
    ASSUME SenderInv, snd.state = "RESEND"
    PROVE  /\ Repaired \in SentWindows /\ last_ptr \in 0 .. windowSize
           /\ Place(Repaired) \in Int
           /\ Place(Repaired) + last_ptr <= snd.nFullTiles
<1>1. /\ Settings /\ Positions /\ Repairs
      /\ snd.mechanism \in {"ack_end_win", "ack_end_session", "compound_ack"}
  BY DEF SenderInv, Settings
<1>2. Repaired \in SentWindows
  <2>1. CASE snd.mechanism = "compound_ack"
    <3>1. snd.errors \in Seq(SentWindows) /\ snd.errors # <<>>
      BY <1>1, <2>1 DEF Repairs
    <3>2. Head(snd.errors) \in SentWindows
      BY <3>1, HeadTailProperties
    <3> QED
      BY <2>1, <3>2 DEF Repaired
  <2> QED
    BY <1>1, <2>1 DEF Repaired, Positions, Repairs
<1>3. /\ nWindows \in Nat \ {0} /\ snd.nFullTiles \in Nat /\ windowSize \in Nat
      /\ Place(nWindows - 1) <= snd.nFullTiles
      /\ snd.nFullTiles < Place(nWindows - 1) + windowSize
      /\ Place(nWindows - 1) \in Int
  BY <1>1, WindowFacts
<1>4. Repaired \in 0 .. nWindows - 1
  BY <1>2 DEF SentWindows
<1>5. Place(Repaired) \in Int /\ Place(Repaired + 1) = Place(Repaired) + windowSize
  BY <1>1, <1>3, <1>4, NextPlace, WindowFacts
<1>6. CASE Repaired = nWindows - 1
  <2>1. last_ptr = snd.nFullTiles - Place(nWindows - 1)
    BY <1>6 DEF last_ptr, Place
  <2> QED
    BY <1>2, <1>3, <1>5, <1>6, <2>1
<1>7. CASE Repaired # nWindows - 1
  <2>1. last_ptr = windowSize /\ Repaired + 1 <= nWindows - 1
    BY <1>3, <1>4, <1>7 DEF last_ptr
  <2>2. Place(Repaired + 1) <= Place(nWindows - 1)
    BY <1>3, <1>4, <2>1, PlacesAscend
  <2> QED
    BY <1>2, <1>3, <1>5, <2>1, <2>2
<1> QED
  BY <1>6, <1>7

(* What is owed of the window that is repaired is missing from its bitmap. *)
LEMMA OwedIsMissing ==
    ASSUME SenderInv, snd.state = "RESEND", ~snd.stray, NEW k \in Owed
    PROVE  /\ k \in ToRepair
           /\ k \in PositionsOf(Repaired) =>
                \E i \in Missing : k = Place(Repaired) + i
<1>1. k \in ToRepair /\ k \notin snd.bitmap /\ snd.ptr <= snd.nFullTiles
  BY DEF SenderInv, Covered
<1>2. k \in 0 .. snd.ptr - 1 /\ snd.ptr \in Nat /\ snd.nFullTiles \in Nat
  BY DEF Owed, SenderInv, Positions, Settings
<1>3. /\ Repaired \in Int /\ Place(Repaired) \in Int /\ windowSize \in Nat
      /\ Place(Repaired + 1) = Place(Repaired) + windowSize
      /\ Place(nWindows - 1) \in Int /\ nWindows \in Nat
  BY RepairedIs, NextPlace, WindowFacts DEF SenderInv, SentWindows
<1>4. ASSUME k \in PositionsOf(Repaired)
      PROVE  \E i \in Missing : k = Place(Repaired) + i
  <2>1. Place(Repaired) <= k /\ k < Place(Repaired) + windowSize
    <3>1. k \in Place(Repaired) .. Place(Repaired + 1) - 1
      BY <1>4 DEF PositionsOf, Place
    <3> QED
      BY <1>2, <1>3, <3>1
  <2>2. k - Place(Repaired) \in 0 .. last_ptr - 1
    <3>1. CASE Repaired = nWindows - 1
      <4>1. last_ptr = snd.nFullTiles - Place(Repaired)
        BY <3>1 DEF last_ptr, Place
      <4> QED
        BY <1>1, <1>2, <1>3, <2>1, <4>1
    <3>2. CASE Repaired # nWindows - 1
      <4>1. last_ptr = windowSize
        BY <3>2 DEF last_ptr
      <4> QED
        BY <1>2, <1>3, <2>1, <4>1
    <3> QED
      BY <3>1, <3>2
  <2>3. Repaired * windowSize + (k - Place(Repaired)) = k
    <3>1. Place(Repaired) + (k - Place(Repaired)) = k
      BY <1>2, <1>3
    <3> QED
      BY <3>1 DEF Place
  <2>4. k - Place(Repaired) \in Missing
    BY <1>1, <2>2, <2>3 DEF Missing
  <2> QED
    BY <1>2, <1>3, <2>4
<1> QED
  BY <1>1, <1>4

(* Once that is sent, only the other windows listed are left to repair.    *)
LEMMA OwedElsewhere ==
    ASSUME SenderInv, snd.state = "RESEND", ~snd.stray, NEW sent,
           \A i \in Missing : Place(Repaired) + i \in sent
    PROVE  /\ snd.mechanism # "compound_ack" => Owed \subseteq sent
           /\ snd.mechanism = "compound_ack" =>
                Owed \subseteq ListedTiles(Tail(snd.errors)) \cup sent
<1>1. ASSUME NEW k \in Owed, k \in PositionsOf(Repaired) PROVE k \in sent
  BY <1>1, OwedIsMissing
<1>2. CASE snd.mechanism # "compound_ack"
  BY <1>1, <1>2, OwedIsMissing DEF ToRepair
<1>3. CASE snd.mechanism = "compound_ack"
  <2>1. snd.errors \in Seq(SentWindows) /\ snd.errors # <<>>
    BY <1>3 DEF SenderInv, Repairs
  <2>2. ListedTiles(snd.errors) \subseteq
          PositionsOf(Head(snd.errors)) \cup ListedTiles(Tail(snd.errors))
    BY <2>1, ListedTilesAre
  <2>3. Repaired = Head(snd.errors) /\ ToRepair = ListedTiles(snd.errors)
    BY <1>3 DEF Repaired, ToRepair
  <2> QED
    BY <1>1, <1>3, <2>2, <2>3, OwedIsMissing
<1> QED
  BY <1>2, <1>3

(* Nothing is missing from the window.                                     *)
LEMMA ResendNothingKeeps ==
    ASSUME SenderInv, ResendNothing PROVE SenderInv'
<1>1. /\ Settings /\ OneAgain /\ Repairs /\ DOMAIN snd = SndFields
      /\ Handles("RESEND", {"again"}) /\ air' = air /\ snd.state = "RESEND"
      /\ snd.mechanism \in {"ack_end_win", "ack_end_session", "compound_ack"}
  BY DEF SenderInv, Settings, ResendNothing, Handles
<1>2. /\ Differ(snd, Taken, {"queue", "lacking", "bitmap", "confirmed", "errors"})
      /\ Taken.queue = Tail(snd.queue) /\ DOMAIN Taken = SndFields
      /\ Taken.confirmed = snd.confirmed /\ Taken.errors = snd.errors
      /\ Taken.lacking = snd.lacking /\ Taken.bitmap = snd.bitmap
  BY <1>1, TakenIs DEF Differ, SndFields
<1>3. Taken.confirmed \in SentWindows /\ Taken.errors \in Seq(SentWindows)
  BY <1>1, <1>2 DEF Repairs
<1> DEFINE sent == {}
<1>4. ~snd.stray =>
        /\ snd.mechanism # "compound_ack" => Owed \subseteq sent
        /\ snd.mechanism = "compound_ack" =>
             Owed \subseteq ListedTiles(Tail(snd.errors)) \cup sent
  <2>1. Missing = {}
    BY DEF ResendNothing
  <2> HIDE DEF sent
  <2> QED
    BY <1>1, <2>1, OwedElsewhere
<1>5. \A S : S \subseteq S \ sent /\ S \subseteq S \cup sent
  OBVIOUS
<1> HIDE DEF sent
<1>6. CASE snd.mechanism = "ack_end_win"
  <2>1. snd' = ThenWait(Taken) \/ snd' = Taken
    BY <1>6 DEF ResendNothing
  <2> QED
    BY <1>1, <1>2, <1>3, <1>6, <1>4, <1>5, <2>1, RepairKeeps
<1>7. CASE snd.mechanism = "ack_end_session"
  <2>1. snd' = ThenWait(Taken)
    BY <1>7 DEF ResendNothing
  <2> QED
    BY <1>1, <1>2, <1>3, <1>7, <1>4, <1>5, <2>1, RepairKeeps
<1>8. CASE snd.mechanism = "compound_ack"
  <2> DEFINE c == [Taken EXCEPT !.confirmed = Repaired]
             t == [c EXCEPT !.errors = Tail(@)]
  <2>1. snd' = IF t.errors = <<>> THEN ThenWait(t) ELSE ThenAgain(t, "RESEND")
    BY <1>2, <1>8 DEF ResendNothing
  <2>2. Differ(Taken, c, {"confirmed"}) /\ c.confirmed = Repaired
    BY <1>2 DEF Differ, SndFields
  <2> HIDE DEF c
  <2>3. Differ(c, t, {"errors"}) /\ t.errors = Tail(c.errors)
    BY <2>2 DEF Differ, SndFields
  <2> HIDE DEF t
  <2>4. /\ Differ(snd, t, {"queue", "lacking", "bitmap", "confirmed", "errors"})
        /\ t.queue = Tail(snd.queue) /\ t.confirmed = Repaired
        /\ t.errors = Tail(snd.errors)
        /\ t.lacking = snd.lacking /\ t.bitmap = snd.bitmap
    BY <1>2, <2>2, <2>3 DEF Differ, SndFields
  <2>5. Repaired \in SentWindows
    BY <1>1, RepairedIs
  <2>6. Tail(snd.errors) \in Seq(SentWindows)
    BY <1>1, <1>8, HeadTailProperties DEF Repairs
  <2>7. CASE t.errors = <<>>
    <3>1. ListedTiles(<<>>) = {}
      BY DEF ListedTiles
    <3>2. ~snd.stray => Owed \subseteq sent
      BY <1>8, <1>4, <2>4, <2>7, <3>1
    <3>3. snd' = ThenWait(t)
      BY <2>1, <2>7
    <3>4. t.lacking \subseteq snd.lacking \ sent
          /\ t.bitmap \subseteq snd.bitmap \cup sent
      BY <1>5, <2>4
    <3>5. t.confirmed \in SentWindows /\ t.errors \in Seq(SentWindows)
      BY <2>4, <2>5, <2>6
    <3> QED
      BY <1>1, <2>4, <3>2, <3>3, <3>4, <3>5, RepairKeeps
  <2>8. CASE t.errors # <<>>
    <3>1. snd' = ThenAgain(t, "RESEND")
      BY <2>1, <2>8
    <3>2. ~snd.stray => Owed \subseteq ListedTiles(t.errors) \cup sent
      BY <1>4, <1>8, <2>4
    <3>3. t.lacking \subseteq snd.lacking \ sent
          /\ t.bitmap \subseteq snd.bitmap \cup sent
      BY <1>5, <2>4
    <3>4. t.confirmed \in SentWindows /\ t.errors \in Seq(SentWindows)
      BY <2>4, <2>5, <2>6
    <3> QED
      BY <1>1, <1>8, <2>4, <2>8, <3>1, <3>2, <3>3, <3>4, RepairKeeps
  <2> QED
    BY <2>7, <2>8
<1> QED
  BY <1>1, <1>6, <1>7, <1>8

(* The tiles that are sent again: some, adjacent, missing, of the window.  *)
LEMMA ResentAre ==
    ASSUME SenderInv, snd.state = "RESEND", Missing # {}
    PROVE  /\ bitmap_ptr \in 0 .. last_ptr - 1
           /\ n_tiles_to_send \in 1 .. payloadTiles
           /\ bitmap_ptr + n_tiles_to_send <= last_ptr
           /\ Cardinality(Missing) \in Nat
           /\ n_tiles_to_send <= Cardinality(Missing)
           /\ Cardinality(Missing) = n_tiles_to_send =>
                Missing = bitmap_ptr .. bitmap_ptr + n_tiles_to_send - 1
<1>1. last_ptr \in Nat /\ payloadTiles \in Nat \ {0}
  BY RepairedIs, WindowFacts DEF SenderInv
<1>2. Missing \subseteq 0 .. last_ptr - 1
  BY DEF Missing
<1>3. bitmap_ptr \in Missing /\ bitmap_ptr \in Nat
  <2>1. Missing \in SUBSET Nat
    BY <1>1, <1>2
  <2>2. \E k \in Missing : \A j \in Missing : k <= j
    BY <2>1, LeastIs
  <2>3. bitmap_ptr \in Missing
    BY <2>2, Zenon DEF bitmap_ptr, Min
  <2> QED
    BY <2>1, <2>3
<1> DEFINE N == {n \in 1 .. payloadTiles :
                   bitmap_ptr .. bitmap_ptr + n - 1 \subseteq Missing}
<1>4. n_tiles_to_send \in N
  <2> DEFINE K == {payloadTiles - n : n \in N}
  <2>1. 1 \in N
    BY <1>1, <1>3
  <2>2. K \in SUBSET Nat /\ K # {}
    BY <1>1, <2>1
  <2>3. \A n \in N : n \in Int /\ payloadTiles - n \in K
    OBVIOUS
  <2>4. \A k \in K : \E n \in N : k = payloadTiles - n
    OBVIOUS
  <2> HIDE DEF K
  <2>5. PICK k \in K : \A j \in K : k <= j
    BY <2>2, LeastIs
  <2>6. n_tiles_to_send = Max(N)
    BY DEF n_tiles_to_send
  <2> HIDE DEF N
  <2>7. PICK m \in N : k = payloadTiles - m
    BY <2>4
  <2>8. \A n \in N : payloadTiles - m <= payloadTiles - n
    BY <2>3, <2>5, <2>7
  <2>9. \A n \in N : m >= n
    BY <1>1, <2>3, <2>8
  <2>10. Max(N) \in N
    BY <2>9, Zenon DEF Max
  <2> QED
    BY <2>6, <2>10
<1> DEFINE n == n_tiles_to_send
<1>5. n \in 1 .. payloadTiles /\ bitmap_ptr .. bitmap_ptr + n - 1 \subseteq Missing
  BY <1>4
<1> HIDE DEF n, N
<1>6. bitmap_ptr + n - 1 \in Missing
  BY <1>1, <1>3, <1>5
<1>7. IsFiniteSet(Missing) /\ Cardinality(Missing) \in Nat
  <2>1. IsFiniteSet(0 .. last_ptr - 1)
    BY <1>1, FS_Interval
  <2>2. IsFiniteSet(Missing)
    BY <1>2, <2>1, FS_Subset
  <2> QED
    BY <2>2, FS_CardinalityType
<1>8. /\ n <= Cardinality(Missing)
      /\ Cardinality(Missing) = n => Missing = bitmap_ptr .. bitmap_ptr + n - 1
  <2>1. /\ Cardinality(bitmap_ptr .. bitmap_ptr + n - 1) <= Cardinality(Missing)
        /\ Cardinality(Missing) = Cardinality(bitmap_ptr .. bitmap_ptr + n - 1) =>
             Missing = bitmap_ptr .. bitmap_ptr + n - 1
    BY <1>5, <1>7, FS_Subset
  <2>2. Cardinality(bitmap_ptr .. bitmap_ptr + n - 1) = n
    BY <1>1, <1>3, <1>5, FS_Interval
  <2> QED
    BY <2>1, <2>2
<1>9. bitmap_ptr + n <= last_ptr
  BY <1>1, <1>2, <1>3, <1>5, <1>6
<1> QED
  BY <1>1, <1>2, <1>3, <1>5, <1>7, <1>8, <1>9 DEF n

(* A fragment of the tiles that are missing.                               *)
LEMMA ResendKeeps ==
    ASSUME SenderInv, Resend PROVE SenderInv'
<1> DEFINE n == n_tiles_to_send
           first == Repaired * windowSize + bitmap_ptr
           f == RegularFragment(Repaired, windowSize - 1 - bitmap_ptr, first, n)
           r == Sent(Taken, <<f>>)
           b == [r EXCEPT !.bitmap = @ \cup first .. first + n - 1]
           s == [b EXCEPT !.confirmed = IF snd.mechanism = "compound_ack"
                                          THEN Repaired ELSE @]
<1>1. /\ Settings /\ Repairs /\ DOMAIN snd = SndFields
      /\ Handles("RESEND", {"again"}) /\ air' = <<f>> /\ snd.state = "RESEND"
      /\ Missing # {}
      /\ snd.mechanism \in {"ack_end_win", "ack_end_session", "compound_ack"}
  BY DEF SenderInv, Settings, Resend, Handles
<1>2. /\ Differ(snd, Taken, {"queue"}) /\ Taken.queue = Tail(snd.queue)
      /\ DOMAIN Taken = SndFields
  BY <1>1, TakenIs DEF Differ
<1> DEFINE sent == first .. first + n - 1
<1>3. /\ Differ(Taken, r, {"lacking"}) /\ DOMAIN r = SndFields
      /\ r.lacking \subseteq Taken.lacking \ sent
  <2>1. 1 \in DOMAIN <<f>> /\ <<f>>[1] = f
    OBVIOUS
  <2>2. f.type = "regular" /\ f.first = first /\ f.n = n
    BY DEF RegularFragment
  <2> HIDE DEF f, first, n
  <2>3. /\ Differ(Taken, r, {"lacking"})
        /\ r.lacking \subseteq Taken.lacking \ sent
    BY <1>2, <2>1, <2>2, SentIs
  <2> QED
    BY <2>3 DEF Differ
<1>4. snd' = CASE Cardinality(Missing) > n -> ThenAgain(s, "RESEND")
               [] Cardinality(Missing) = n
                    /\ snd.mechanism # "compound_ack" -> ThenWait(s)
               [] Cardinality(Missing) = n
                    /\ snd.mechanism = "compound_ack"
                    /\ Len(snd.errors) = 1 ->
                      ThenWait([s EXCEPT !.errors = <<>>])
               [] OTHER ->
                      ThenAgain([s EXCEPT !.errors = Tail(@)], "RESEND")
  BY Zenon DEF Resend
<1>5. /\ Repaired \in SentWindows /\ Repaired \in Int
      /\ last_ptr \in 0 .. windowSize
      /\ Place(Repaired) + last_ptr <= snd.nFullTiles /\ Place(Repaired) \in Int
      /\ windowSize \in Nat /\ snd.nFullTiles \in Nat /\ payloadTiles \in Nat
  BY <1>1, RepairedIs, WindowFacts DEF SentWindows
<1>6. /\ bitmap_ptr \in 0 .. last_ptr - 1 /\ n \in 1 .. payloadTiles
      /\ bitmap_ptr + n <= last_ptr
      /\ Cardinality(Missing) \in Nat /\ n <= Cardinality(Missing)
      /\ Cardinality(Missing) = n => Missing = bitmap_ptr .. bitmap_ptr + n - 1
  BY <1>1, ResentAre
<1>7. Cardinality(Missing) = n => \A i \in Missing : Place(Repaired) + i \in sent
  <2>1. first = Place(Repaired) + bitmap_ptr
    BY DEF Place
  <2> HIDE DEF first, n
  <2> QED
    BY <1>5, <1>6, <2>1
<1>8. ~snd.stray /\ Cardinality(Missing) = n =>
         /\ snd.mechanism # "compound_ack" => Owed \subseteq sent
         /\ snd.mechanism = "compound_ack" =>
              Owed \subseteq ListedTiles(Tail(snd.errors)) \cup sent
  <2> HIDE DEF sent, n
  <2> QED
    BY <1>1, <1>7, OwedElsewhere
<1>9. ~snd.stray /\ snd.mechanism = "compound_ack" =>
         Owed \subseteq ListedTiles(snd.errors)
  BY <1>1, OwedIsMissing DEF ToRepair
<1>10. /\ f.first = f.w * windowSize + (windowSize - 1 - f.fcn)
      /\ f.first + f.n <= snd.nFullTiles
  <2>1. /\ f.first = Repaired * windowSize + bitmap_ptr /\ f.w = Repaired
        /\ f.fcn = windowSize - 1 - bitmap_ptr /\ f.n = n
    BY DEF RegularFragment
  <2>2. f.first = Place(Repaired) + bitmap_ptr
    BY <2>1 DEF Place
  <2>3. f.w * windowSize = Place(Repaired)
    BY <2>1 DEF Place
  <2> HIDE DEF f, n
  <2> QED
    BY <1>5, <1>6, <2>1, <2>2, <2>3
<1> HIDE DEF sent, f, r, n
<1>11. Differ(r, b, {"bitmap"}) /\ b.bitmap = r.bitmap \cup sent
  BY <1>3 DEF Differ, SndFields, sent
<1> HIDE DEF b
<1>12. /\ Differ(b, s, {"confirmed"})
      /\ s.confirmed = IF snd.mechanism = "compound_ack"
                         THEN Repaired ELSE b.confirmed
  BY <1>11 DEF Differ, SndFields
<1> HIDE DEF s
<1>13. /\ Differ(snd, s, {"queue", "lacking", "bitmap", "confirmed"})
       /\ s.queue = Tail(snd.queue) /\ s.errors = snd.errors
       /\ s.confirmed = IF snd.mechanism = "compound_ack"
                          THEN Repaired ELSE snd.confirmed
       /\ s.lacking \subseteq snd.lacking \ sent
       /\ s.bitmap = snd.bitmap \cup sent
  BY <1>2, <1>3, <1>11, <1>12 DEF Differ, SndFields
<1>14. /\ s.confirmed \in SentWindows /\ s.errors \in Seq(SentWindows)
       /\ snd.mechanism = "compound_ack" => s.errors # <<>>
       /\ Differ(snd, s, {"queue", "lacking", "bitmap", "confirmed", "errors"})
  BY <1>1, <1>5, <1>13 DEF Repairs, Differ
<1>15. CASE Cardinality(Missing) > n
  <2>1. snd' = ThenAgain(s, "RESEND")
    BY <1>4, <1>6, <1>15
  <2> QED
    BY <1>1, <1>10, <1>13, <1>14, <1>9, <2>1, RepairKeeps
<1>16. CASE Cardinality(Missing) = n /\ snd.mechanism # "compound_ack"
  <2>1. snd' = ThenWait(s)
    BY <1>4, <1>6, <1>16
  <2> QED
    BY <1>1, <1>10, <1>13, <1>14, <1>16, <1>8, <2>1, RepairKeeps
<1>17. CASE Cardinality(Missing) = n /\ snd.mechanism = "compound_ack"
  <2> DEFINE tail == Tail(snd.errors)
             t == [s EXCEPT !.errors = tail]
  <2>1. /\ tail \in Seq(SentWindows) /\ (Len(snd.errors) # 1 => tail # <<>>)
        /\ Len(snd.errors) = 1 => tail = <<>>
    <3>1. snd.errors \in Seq(SentWindows) /\ snd.errors # <<>>
      BY <1>1, <1>17 DEF Repairs
    <3>2. /\ Tail(snd.errors) \in Seq(SentWindows)
          /\ Len(Tail(snd.errors)) = Len(snd.errors) - 1
          /\ Len(snd.errors) \in Nat
      BY <3>1, HeadTailProperties
    <3>3. Len(snd.errors) # 1 => Len(Tail(snd.errors)) # 0
      BY <3>2
    <3>4. Len(snd.errors) # 1 => Tail(snd.errors) # <<>>
      BY <3>2, <3>3, EmptySeq
    <3>5. Len(snd.errors) = 1 => Len(Tail(snd.errors)) = 0
      BY <3>2
    <3>6. Len(snd.errors) = 1 => Tail(snd.errors) = <<>>
      BY <3>2, <3>5, EmptySeq
    <3> QED
      BY <3>2, <3>4, <3>6
  <2>2. snd' = IF Len(snd.errors) = 1 THEN ThenWait(t)
                                      ELSE ThenAgain(t, "RESEND")
    BY <1>4, <1>6, <1>13, <1>17, <2>1
  <2> HIDE DEF tail
  <2>3. Differ(s, t, {"errors"}) /\ t.errors = tail
    BY <1>13 DEF Differ, SndFields
  <2> HIDE DEF t
  <2>4. /\ Differ(snd, t, {"queue", "lacking", "bitmap", "confirmed", "errors"})
        /\ t.queue = Tail(snd.queue) /\ t.confirmed = s.confirmed
        /\ t.lacking = s.lacking /\ t.bitmap = s.bitmap
    BY <1>13, <2>3 DEF Differ, SndFields
  <2>5. ~snd.stray => Owed \subseteq ListedTiles(tail) \cup sent
    BY <1>17, <1>8 DEF tail
  <2>6. CASE Len(snd.errors) = 1
    <3>1. ListedTiles(<<>>) = {}
      BY DEF ListedTiles
    <3>2. ~snd.stray => Owed \subseteq sent
      BY <2>1, <2>5, <2>6, <3>1
    <3> QED
      BY <1>1, <1>10, <1>13, <1>14, <2>1, <2>2, <2>3, <2>4, <2>6, <3>2, RepairKeeps
  <2>7. CASE Len(snd.errors) # 1
    <3>1. snd' = ThenAgain(t, "RESEND")
      BY <2>2, <2>7
    <3> QED
      BY <1>1, <1>10, <1>13, <1>14, <1>17, <2>1, <2>3, <2>4, <2>5, <2>7, <3>1,
         RepairKeeps
  <2> QED
    BY <2>6, <2>7
<1> QED
  BY <1>6, <1>15, <1>16, <1>17

-----------------------------------------------------------------------------
(* The steps of the timer and the gateway.                                 *)

(* An event arrives, and perhaps a frame has been answered.                *)
LEMMA ArrivalKeeps ==
    ASSUME SenderInv, NEW m \in Events, m.type # "again",
           Differ(snd, snd', {"queue", "timer"}),
           snd'.queue = Append(snd.queue, m),
           \/ snd'.timer = snd.timer
           \/ m.type = "timer",
           \/ air' = air
           \/ air # <<>> /\ air' = Tail(air)
    PROVE  SenderInv'
<1>1. Settings /\ OneAgain /\ Positions /\ snd.queue \in Seq(Events)
  BY DEF SenderInv, Settings
<1>2. /\ snd'.state = snd.state /\ snd'.mechanism = snd.mechanism
      /\ snd'.window = snd.window /\ snd'.fcn = snd.fcn /\ snd'.ptr = snd.ptr
      /\ snd'.confirmed = snd.confirmed /\ snd'.errors = snd.errors
      /\ snd'.stray = snd.stray /\ snd'.nFullTiles = snd.nFullTiles
      /\ snd'.lacking = snd.lacking /\ snd'.unheeded = snd.unheeded
      /\ snd'.bitmap = snd.bitmap
      /\ Differ(snd, snd', SndFields \ {"mechanism", "nFullTiles"})
  BY DEF Differ, SndFields
<1>3. /\ snd'.queue \in Seq(Events)
      /\ NoAgain(snd.queue) => NoAgain(snd'.queue)
      /\ OneAgainAtMost(snd.queue) => OneAgainAtMost(snd'.queue)
      /\ HasTimer(snd.queue) \/ m.type = "timer" => HasTimer(snd'.queue)
  BY <1>1, AppendToQueue
<1>4. OneAgain'
  BY <1>1, <1>2, <1>3 DEF OneAgain
<1>5. WaitGuarded'
  BY <1>2, <1>3 DEF SenderInv, WaitGuarded, HasTimer
<1>6. AirIsSequence' /\ FragmentsInPlace'
  <2>1. AirIsSequence /\ FragmentsInPlace
    BY DEF SenderInv, Settings
  <2>2. CASE air' = air
    BY <1>2, <2>1, <2>2 DEF AirIsSequence, FragmentsInPlace
  <2>3. CASE air # <<>> /\ air' = Tail(air)
    <3>1. PICK S : air \in Seq(S)
      BY <2>1 DEF AirIsSequence
    <3>2. /\ air' \in Seq(S) /\ DOMAIN air = 1 .. Len(air) /\ Len(air) \in Nat
          /\ DOMAIN air' = 1 .. Len(air) - 1
          /\ \A i \in DOMAIN air' : air'[i] = air[i + 1]
      BY <2>3, <3>1, HeadTailProperties
    <3>3. \A i \in DOMAIN air' : i + 1 \in DOMAIN air
      <4>1. \A i \in 1 .. Len(air) - 1 : i + 1 \in 1 .. Len(air)
        <5>1. Len(air) \in Nat
          BY <3>2
        <5> QED
          BY <5>1
      <4> QED
        BY <3>2, <4>1, Zenon
    <3>4. \A i \in DOMAIN air' : air'[i].type = "regular" =>
            /\ air'[i].first =
                 air'[i].w * windowSize + (windowSize - 1 - air'[i].fcn)
            /\ air'[i].first + air'[i].n <= snd.nFullTiles
      BY <2>1, <3>2, <3>3 DEF FragmentsInPlace
    <3> QED
      BY <1>2, <3>2, <3>4 DEF AirIsSequence, FragmentsInPlace
  <2> QED
    BY <2>2, <2>3
<1>7. Settings' /\ SentWindows' = SentWindows /\ nWindows' = nWindows
  BY <1>1, <1>2, <1>3, <1>6, Settled
<1>8. Positions'
  BY <1>1, <1>2, <1>7 DEF Positions
<1>9. Repairs' /\ InTurnAcksSafe'
  BY <1>2, <1>7 DEF SenderInv, Repairs, InTurnAcksSafe
<1>10. Covered'
  BY <1>2, OwedCarried DEF SenderInv
<1> QED
  BY <1>4, <1>5, <1>6, <1>7, <1>8, <1>9, <1>10 DEF SenderInv

LEMMA AnswerKeeps ==
    ASSUME SenderInv, NEW m \in Events, m.type # "again", Answer(m)
    PROVE  SenderInv'
<1>1. DOMAIN snd = SndFields
  BY DEF SenderInv, Settings
<1>2. /\ Differ(snd, snd', {"queue", "timer"})
      /\ snd'.queue = Append(snd.queue, m) /\ snd'.timer = snd.timer
  BY <1>1 DEF Answer, Differ, SndFields
<1> QED
  BY <1>2, ArrivalKeeps DEF Answer

LEMMA GatewayKeeps ==
    ASSUME SenderInv, GatewayAcks \/ GatewayNacks \/ GatewayAborts
    PROVE  SenderInv'
<1>1. /\ nWindows \in Nat \ {0} /\ snd.nFullTiles \in Nat
      /\ snd.nFullTiles < Place(nWindows) /\ Place(nWindows) \in Int
  BY WindowFacts DEF SenderInv
<1>2. WindowsSeen \subseteq SentWindows
  BY DEF WindowsSeen, SentWindows
<1>3. CASE GatewayAborts
  <2>1. ReceiverAbort \in Events /\ ReceiverAbort.type # "again"
    BY DEF Events, ReceiverAbort
  <2> QED
    BY <1>3, <2>1, AnswerKeeps DEF GatewayAborts
<1>4. CASE GatewayAcks
  <2>1. PICK w \in WindowsSeen : Answer(Ack(w))
    BY <1>4 DEF GatewayAcks
  <2>2. Ack(w) \in Events
    BY <1>2 DEF Events
  <2>3. Ack(w).type # "again"
    BY DEF Ack
  <2> QED
    BY <2>1, <2>2, <2>3, AnswerKeeps
<1>5. CASE GatewayNacks
  <2> DEFINE listed(tiles) == {i \div windowSize : i \in tiles}
  <2>1. PICK missing \in (SUBSET (FullTiles \cup {LastTile})) \ {{}} :
          /\ listed(missing) \subseteq WindowsSeen
          /\ \E windows \in Ascending(listed(missing)) :
               Answer(Nack(windows, missing))
          /\ snd.mechanism = "compound_ack"
             \/ Cardinality(listed(missing)) = 1
    BY <1>5 DEF GatewayNacks
  <2>2. PICK windows \in Ascending(listed(missing)) :
          Answer(Nack(windows, missing))
    BY <2>1
  <2>3. missing \in SUBSET Nat
    <3>1. LastTile = Place(nWindows) - 1
      BY DEF LastTile, Place
    <3>2. LastTile \in Nat /\ FullTiles \subseteq Nat
      BY <1>1, <3>1 DEF FullTiles
    <3> QED
      BY <3>2
  <2>4. windows \in Listings /\ missing \subseteq ListedTiles(windows)
    <3> DEFINE L == listed(missing)
    <3>1. L \subseteq SentWindows /\ L # {}
      <4>1. PICK i \in missing : TRUE
        BY <2>1
      <4>2. i \div windowSize \in L
        BY <4>1, Zenon
      <4> QED
        BY <1>2, <2>1, <4>2, Zenon
    <3>2. windows \in [1 .. Cardinality(L) -> L]
      BY DEF Ascending
    <3>3. /\ \A i \in missing : i \div windowSize \in L
          /\ snd.mechanism = "compound_ack" \/ Cardinality(L) = 1
          /\ \A i, j \in DOMAIN windows : i < j => windows[i] < windows[j]
      <4>1. ASSUME NEW i \in missing PROVE i \div windowSize \in L
        BY <4>1, Zenon
      <4> QED
        BY <2>1, <4>1 DEF Ascending
    <3> HIDE DEF L
    <3>4. IsFiniteSet(L)
      <4>1. IsFiniteSet(0 .. nWindows - 1)
        BY <1>1, FS_Interval
      <4> QED
        BY <3>1, <4>1, FS_Subset DEF SentWindows
    <3>5. Cardinality(L) \in Nat \ {0}
      BY <3>1, <3>4, FS_CardinalityType, FS_EmptySet
    <3>6. windows \in Seq(L) /\ Len(windows) = Cardinality(L)
      BY <3>2, <3>5
    <3>7. windows \in Seq(SentWindows)
      BY <3>1, <3>2, <3>5
    <3>8. windows # <<>>
      BY <3>5, <3>6, EmptySeq
    <3>9. windows \in Listings
      BY <3>6, <3>7, <3>8, <3>3 DEF Listings
    <3>10. L \subseteq Int
      BY <1>1, <3>1 DEF SentWindows
    <3>11. \A w \in L : \E i \in DOMAIN windows : windows[i] = w
      <4>1. 1 .. Cardinality(L) \subseteq Int /\ DOMAIN windows = 1 .. Cardinality(L)
        BY <3>2, <3>5
      <4>2. ASSUME NEW i \in DOMAIN windows, NEW j \in DOMAIN windows,
                   windows[i] = windows[j]
            PROVE  i = j
        <5>1. i \in Int /\ j \in Int /\ windows[i] \in Int
          BY <3>2, <3>10, <4>1
        <5>2. ~(windows[i] < windows[j]) /\ ~(windows[j] < windows[i])
          BY <4>2, <5>1
        <5>3. ~(i < j) /\ ~(j < i)
          BY <3>3, <5>2
        <5> QED
          BY <5>1, <5>3
      <4>3. windows \in Injection(1 .. Cardinality(L), L)
        BY <3>2, <4>1, <4>2 DEF Injection, IsInjective
      <4>4. Cardinality(1 .. Cardinality(L)) = Cardinality(L)
        BY <3>5, FS_Interval
      <4>5. windows \in Surjection(1 .. Cardinality(L), L)
        BY <3>4, <4>3, <4>4, FS_Injection
      <4> QED
        BY <4>1, <4>5 DEF Surjection
    <3>12. \A i \in missing : i \in PositionsOf(i \div windowSize)
      <4> SUFFICES ASSUME NEW i \in missing
                   PROVE  i \in PositionsOf(i \div windowSize)
        OBVIOUS
      <4>1. i \in Nat /\ windowSize \in Nat \ {0}
        BY <2>3, AckOnErrorAssumption
      <4>2. /\ Place(i \div windowSize) <= i
            /\ i < Place(i \div windowSize + 1)
        BY <4>1, LastWindow
      <4> QED
        BY <4>1, <4>2 DEF PositionsOf, Place
    <3>13. missing \subseteq ListedTiles(windows)
      BY <3>3, <3>11, <3>12 DEF ListedTiles
    <3> QED
      BY <3>9, <3>13
  <2>5. Nack(windows, missing) \in Events
    BY <2>4 DEF Events
  <2>6. Nack(windows, missing).type # "again"
    BY DEF Nack
  <2> QED
    BY <2>2, <2>5, <2>6, AnswerKeeps
<1> QED
  BY <1>3, <1>4, <1>5

LEMMA TimerFiresKeeps ==
    ASSUME SenderInv, TimerFires PROVE SenderInv'
<1>1. DOMAIN snd = SndFields
  BY DEF SenderInv, Settings
<1>2. /\ Differ(snd, snd', {"queue", "timer"})
      /\ snd'.queue = Append(snd.queue, TimerExpired) /\ air' = air
  BY <1>1 DEF TimerFires, Differ, SndFields
<1>3. TimerExpired \in Events /\ TimerExpired.type = "timer"
  BY DEF Events, TimerExpired
<1> QED
  BY <1>2, <1>3, ArrivalKeeps

-----------------------------------------------------------------------------
(* The theorems.                                                           *)

LEMMA InvInit == ASSUME Init PROVE SenderInv
<1>1. PICK mechanism \in Mechanisms, size \in Sizes :
         snd = [state |-> "INIT", mechanism |-> mechanism, nFullTiles |-> size,
                ptr |-> 0, window |-> 0, fcn |-> windowSize - 1,
                bitmap |-> {}, errors |-> <<>>, confirmed |-> 0,
                attempts |-> 0, timer |-> FALSE, queue |-> <<Again>>,
                lacking |-> {}, unheeded |-> {}, stray |-> FALSE]
  BY DEF Init, SenderInit
<1>2. air = <<>>
  BY DEF Init, SenderInit
<1>3. /\ DOMAIN snd = SndFields /\ snd.mechanism = mechanism
      /\ snd.nFullTiles = size /\ snd.state = "INIT" /\ snd.ptr = 0
      /\ snd.window = 0 /\ snd.fcn = windowSize - 1 /\ snd.errors = <<>>
      /\ snd.confirmed = 0 /\ snd.queue = <<Again>>
  BY <1>1 DEF SndFields
<1>4. Settings
  <2>1. mechanism \in {"ack_end_win", "ack_end_session", "compound_ack"}
        /\ size \in Nat
    BY AckOnErrorAssumption
  <2>2. <<Again>> \in Seq(Events)
    BY DEF Events
  <2>3. AirIsSequence
    BY <1>2 DEF AirIsSequence
  <2> QED
    BY <1>3, <2>1, <2>2, <2>3 DEF Settings
<1>5. /\ 0 \in SentWindows /\ snd.nFullTiles \in Nat
      /\ windowSize \in Nat \ {0} /\ Place(0) = 0
  BY <1>4, WindowFacts DEF SentWindows, Place
<1>6. Positions
  BY <1>3, <1>5 DEF Positions
<1>7. Repairs
  BY <1>3, <1>5 DEF Repairs
<1>8. OneAgain
  BY <1>3 DEF OneAgain, OneAgainAtMost
<1>9. WaitGuarded /\ FragmentsInPlace /\ InTurnAcksSafe
  BY <1>2, <1>3 DEF WaitGuarded, FragmentsInPlace, InTurnAcksSafe
<1>10. Covered
  BY <1>3, <1>5 DEF Covered
<1> QED
  BY <1>4, <1>6, <1>7, <1>8, <1>9, <1>10 DEF SenderInv

LEMMA InvStep == ASSUME SenderInv, [Next]_vars PROVE SenderInv'
<1>1. CASE SenderStep
  BY <1>1, StartKeeps, SendFragmentKeeps, SendLastKeeps, SendBeyondKeeps,
     WaitWithoutMessageKeeps, WaitAckKeeps, WaitNackKeeps, WaitTimerKeeps,
     ResendKeeps, ResendNothingKeeps, FinishOrIgnoreKeeps
     DEF SenderStep, SenderNext
<1>2. CASE TimerFires
  BY <1>2, TimerFiresKeeps
<1>3. CASE GatewayAcks \/ GatewayNacks \/ GatewayAborts
  BY <1>3, GatewayKeeps
<1>4. CASE UNCHANGED vars
  <2>1. snd' = snd /\ air' = air
    BY <1>4 DEF vars
  <2>2. nWindows' = nWindows /\ SentWindows' = SentWindows
    BY <2>1 DEF nWindows, SentWindows
  <2>3. Events' = Events
    BY <2>1, <2>2 DEF Events, Listings
  <2>4. Covered'
    BY <2>1, OwedCarried DEF SenderInv
  <2> QED
    BY <2>1, <2>2, <2>3, <2>4
       DEF SenderInv, Settings, AirIsSequence, Positions, Repairs, OneAgain,
           WaitGuarded, FragmentsInPlace, InTurnAcksSafe
<1> QED
  BY <1>1, <1>2, <1>3, <1>4 DEF Next

LEMMA Invariance == Spec => []SenderInv
BY InvInit, InvStep, PTL DEF Spec

(* Whatever is answered, and when, a sender in STATE_WAIT_x_ACK has its    *)
(* retransmission timer armed or the expiry on its way.                    *)
THEOREM WaitHearsOfIt == Spec => []WaitGuarded
<1>1. SenderInv => WaitGuarded
  BY DEF SenderInv
<1> QED
  BY <1>1, Invariance, PTL

(* The W and FCN fields of each fragment of the sender, sent or sent       *)
(* again, are those of its first tile, and it carries tiles of the packet. *)
THEOREM FragmentsSayTheirPlace == Spec => []FragmentsInPlace
<1>1. SenderInv => FragmentsInPlace
  BY DEF SenderInv
<1> QED
  BY <1>1, Invariance, PTL

(* The sender reads no message that is not there and no tile past the last *)
(* one, unless an ACK came while it was sending or, in ACK_END_WIN, was of *)
(* another window.                                                         *)
THEOREM OnlyStrayAcksHarm == Spec => []InTurnAcksSafe
<1>1. SenderInv => InTurnAcksSafe
  BY DEF SenderInv
<1> QED
  BY <1>1, Invariance, PTL

(* Whatever is answered in turn, a sender in STATE_WAIT_x_ACK has sent     *)
(* each tile that it heard was missing, but for those whose bit was set.   *)
THEOREM NothingIsOwed == Spec => []WaitingHasSent
<1>1. SenderInv => WaitingHasSent
  BY DEF SenderInv, Covered, Owed, WaitingHasSent
<1> QED
  BY <1>1, Invariance, PTL

-----------------------------------------------------------------------------
(* Types.  Until it has cut the packet a sender hears of nothing; from     *)
(* then on the packet has at most four windows.                            *)

Fits ==
    /\ snd.state = "INIT" =>
         /\ air = <<>> /\ ~snd.timer /\ snd.queue \in Seq({Again})
         /\ snd.errors = <<>> /\ snd.confirmed = 0 /\ snd.window = 0
    /\ snd.state # "INIT" => snd.nFullTiles < 4 * windowSize

States ==
    {"INIT", "SEND", "WAIT_x_ACK", "RESEND", "END", "ERROR", "dead",
     "undefined"}

QueueEvents ==
    [type : {"again", "timer", "abort"}]
    \cup [type : {"ack"}, w : Windows]
    \cup [type : {"nack"}, windows : Seq(Windows), missing : SUBSET Nat]

Bits == UNION {PositionsOf(w) : w \in Windows}

SndRecord ==
    [state : States, mechanism : Mechanisms, nFullTiles : Sizes,
     ptr : Nat, window : 0 .. 4, fcn : 0 .. windowSize - 1,
     bitmap : SUBSET Bits, errors : Seq(Windows), confirmed : Windows,
     attempts : 0 .. maxAckReq + 1, timer : BOOLEAN, queue : Seq(QueueEvents),
     lacking : SUBSET Nat, unheeded : SUBSET Nat, stray : BOOLEAN]

LEMMA TypeOKIs == TypeOK <=> snd \in SndRecord /\ acks \in 0 .. MaxAcks
BY Zenon DEF TypeOK, SndRecord, States, QueueEvents, Bits

(* What the earlier invariant says of the types once the packet fits.      *)
WellFormed ==
    /\ nWindows \in 1 .. 4 /\ SentWindows \subseteq Windows
    /\ snd.ptr \in Nat /\ snd.fcn \in 0 .. windowSize - 1
    /\ snd.errors \in Seq(Windows) /\ snd.confirmed \in Windows
    /\ snd.queue \in Seq(QueueEvents)

LEMMA FewWindows ==
    ASSUME Settings, snd.nFullTiles < 4 * windowSize
    PROVE  nWindows \in 1 .. 4 /\ SentWindows \subseteq Windows
<1>1. /\ nWindows \in Nat \ {0} /\ snd.nFullTiles \in Nat
      /\ Place(nWindows - 1) <= snd.nFullTiles
      /\ \A w \in Int : Place(w) \in Int
  BY WindowFacts
<1>2. nWindows - 1 < 4
  <2> SUFFICES ASSUME 4 <= nWindows - 1 PROVE FALSE
    BY <1>1
  <2>1. Place(4) <= Place(nWindows - 1)
    BY <1>1, PlacesAscend
  <2>2. Place(4) = 4 * windowSize
    BY DEF Place
  <2> QED
    BY <1>1, <2>1, <2>2
<1> QED
  BY <1>1, <1>2 DEF SentWindows, Windows

LEMMA QueueEventsAre ==
    /\ Again \in QueueEvents /\ TimerExpired \in QueueEvents
    /\ ReceiverAbort \in QueueEvents
    /\ \A w \in Windows : Ack(w) \in QueueEvents
    /\ \A windows \in Seq(Windows), missing \in SUBSET Nat :
         Nack(windows, missing) \in QueueEvents
BY DEF QueueEvents, Again, TimerExpired, ReceiverAbort, Ack, Nack

LEMMA ListedTilesTyped ==
    ASSUME NEW windows \in Seq(Windows)
    PROVE  ListedTiles(windows) \subseteq Bits
<1>1. \A i \in DOMAIN windows : windows[i] \in Windows
  OBVIOUS
<1> QED
  BY <1>1, Zenon DEF ListedTiles, Bits

LEMMA BitsTyped == Bits \subseteq Nat
<1> SUFFICES ASSUME NEW w \in Windows, NEW k \in PositionsOf(w)
             PROVE  k \in Nat
  BY DEF Bits
<1>1. w \in Nat /\ windowSize \in Nat
  BY AckOnErrorAssumption DEF Windows
<1>2. w * windowSize \in Nat
  BY <1>1
<1> QED
  BY <1>1, <1>2 DEF PositionsOf

LEMMA EventsTyped ==
    ASSUME SentWindows \subseteq Windows
    PROVE  Events \subseteq QueueEvents
<1>1. {Again, TimerExpired, ReceiverAbort} \subseteq QueueEvents
  BY QueueEventsAre
<1>2. {Ack(w) : w \in SentWindows} \subseteq QueueEvents
  BY QueueEventsAre
<1>3. ASSUME NEW windows \in Listings,
             NEW missing \in SUBSET ListedTiles(windows)
      PROVE  Nack(windows, missing) \in QueueEvents
  <2>1. windows \in Seq(SentWindows)
    BY DEF Listings
  <2>2. windows \in Seq(Windows)
    BY <2>1
  <2>3. missing \in SUBSET Nat
    BY <2>2, ListedTilesTyped, BitsTyped
  <2> QED
    BY <2>2, <2>3, QueueEventsAre
<1> QED
  BY <1>1, <1>2, <1>3 DEF Events

LEMMA FitsWell ==
    ASSUME SenderInv, Fits, snd.state # "INIT" PROVE WellFormed
<1>1. /\ Settings /\ snd.queue \in Seq(Events)
      /\ snd.ptr \in Nat /\ snd.fcn \in 0 .. windowSize - 1
      /\ snd.errors \in Seq(SentWindows) /\ snd.confirmed \in SentWindows
  BY DEF SenderInv, Settings, Positions, Repairs
<1>2. nWindows \in 1 .. 4 /\ SentWindows \subseteq Windows
  BY <1>1, FewWindows DEF Fits
<1>3. Events \subseteq QueueEvents
  BY <1>2, EventsTyped
<1>4. snd.queue \in Seq(QueueEvents)
  BY <1>1, <1>3
<1>5. snd.errors \in Seq(Windows)
  BY <1>1, <1>2
<1> QED
  BY <1>1, <1>2, <1>4, <1>5 DEF WellFormed

(* The machine t is past STATE_INIT, with the same packet.                 *)
Later(t) ==
    /\ DOMAIN t = SndFields
    /\ t.nFullTiles = snd.nFullTiles /\ t.state # "INIT"

LEMMA StaysLater ==
    /\ \A t, u, fields :
         Later(t) /\ Differ(t, u, fields) /\ "nFullTiles" \notin fields
         /\ ("state" \in fields => u.state # "INIT")
         => Later(u)
    /\ \A t : \A f \in SndFields \ {"nFullTiles", "state"} : \A v :
         Later(t) => Later([t EXCEPT ![f] = v])
    /\ \A t : \A st : Later(t) /\ st # "INIT" => Later([t EXCEPT !.state = st])
<1>1. ASSUME NEW t, NEW u, NEW fields, Later(t), Differ(t, u, fields),
             "nFullTiles" \notin fields,
             "state" \in fields => u.state # "INIT"
      PROVE  Later(u)
  <2>1. "nFullTiles" \in SndFields \ fields
        /\ ("state" \notin fields => "state" \in SndFields \ fields)
    BY <1>1 DEF SndFields
  <2> QED
    BY <1>1, <2>1 DEF Later, Differ
<1>2. ASSUME NEW t, NEW f \in SndFields \ {"nFullTiles", "state"}, NEW v,
             Later(t)
      PROVE  Later([t EXCEPT ![f] = v])
  BY <1>2 DEF Later, SndFields
<1>3. ASSUME NEW t, NEW st, Later(t), st # "INIT"
      PROVE  Later([t EXCEPT !.state = st])
  BY <1>3 DEF Later, SndFields
<1> QED
  BY <1>1, <1>2, <1>3, Zenon

LEMMA OperationsLater ==
    ASSUME NEW s, Later(s)
    PROVE  /\ \A st : st # "INIT" => Later(ThenAgain(s, st))
           /\ Later(ThenWait(s))
           /\ \A frames : Later(Sent(s, frames))
           /\ \A n : Later(Advanced(s, n)) /\ Later(Completed(s, n))
           /\ \A m : s.mechanism \in {"ack_end_win", "ack_end_session",
                                     "compound_ack"}
                    => Later(NackDecoded(s, m))
<1>1. DOMAIN s = SndFields
  BY DEF Later
<1>2. \A st : st # "INIT" => Later(ThenAgain(s, st))
  BY DEF Later, ThenAgain, SndFields
<1>3. Later(ThenWait(s))
  BY DEF Later, ThenWait, SndFields
<1>4. \A frames : Later(Sent(s, frames))
  <2> SUFFICES ASSUME NEW frames PROVE Later(Sent(s, frames))
    OBVIOUS
  <2>1. Differ(s, Sent(s, frames), {"lacking"})
    BY <1>1, SentIs
  <2> QED
    BY <2>1, StaysLater, Zenon
<1>5. ASSUME NEW n PROVE Later(Advanced(s, n)) /\ Later(Completed(s, n))
  <2>1. Later(Advanced(s, n))
    BY DEF Later, Advanced, SndFields
  <2>2. Later([s EXCEPT !.ptr = @ + n,
                        !.fcn = IF s.mechanism = "ack_end_win"
                                  THEN windowSize - 1 ELSE @])
    BY DEF Later, SndFields
  <2> QED
    BY <2>1, <2>2 DEF Later, Completed, ThenWait, SndFields
<1>6. ASSUME NEW m,
             s.mechanism \in {"ack_end_win", "ack_end_session", "compound_ack"}
      PROVE  Later(NackDecoded(s, m))
  <2> DEFINE t == [s EXCEPT !.lacking = @ \cup m.missing]
             u == [t EXCEPT !.unheeded = @ \cup (m.missing \cap s.bitmap)]
             listed == UNION {PositionsOf(w) : w \in {m.windows[i] :
                                                  i \in DOMAIN m.windows}}
             b == (t.bitmap \cup listed) \ m.missing
             e == IF Len(m.windows) > 1
                    THEN m.windows ELSE t.errors \o m.windows
  <2>1. Later(t) /\ Later(u)
    BY DEF Later, SndFields
  <2>2. CASE s.mechanism = "ack_end_win"
    BY <2>1, <2>2 DEF NackDecoded
  <2>3. CASE s.mechanism = "ack_end_session"
    <3>1. NackDecoded(s, m) = [u EXCEPT !.confirmed = WindowOf(m)]
      BY <2>3 DEF NackDecoded
    <3> HIDE DEF u
    <3> QED
      BY <2>1, <3>1 DEF Later, SndFields
  <2>4. CASE s.mechanism = "compound_ack"
    <3>1. NackDecoded(s, m) = [t EXCEPT !.bitmap = b, !.errors = e]
      BY <2>1, <2>4 DEF NackDecoded, Later, SndFields
    <3> HIDE DEF t, b, e
    <3> QED
      BY <2>1, <3>1 DEF Later, SndFields
  <2> QED
    BY <1>6, <2>2, <2>3, <2>4
<1> QED
  BY <1>2, <1>3, <1>4, <1>5, <1>6

LEMMA SenderStaysLater ==
    ASSUME Settings, SenderNext, snd.state # "INIT"
    PROVE  Later(snd')
<1>1. DOMAIN snd = SndFields /\ Later(snd)
      /\ snd.mechanism \in {"ack_end_win", "ack_end_session", "compound_ack"}
  BY DEF Settings, Later
<1>2. Later(Taken) /\ Later(Resumed)
  <2>1. Differ(snd, Taken, {"queue"}) /\ Differ(snd, Resumed, {"queue", "stray"})
    BY <1>1, TakenIs, ResumedIs
  <2> QED
    BY <1>1, <2>1, StaysLater, Zenon
<1>3. \A m : Later(AckTaken(m)) /\ AckTaken(m).mechanism = snd.mechanism
  <2> SUFFICES ASSUME NEW m
               PROVE  Later(AckTaken(m)) /\ AckTaken(m).mechanism = snd.mechanism
    OBVIOUS
  <2>1. Differ(snd, AckTaken(m), {"queue", "stray", "timer", "attempts"})
    BY <1>1, AckTakenIs
  <2>2. AckTaken(m).mechanism = snd.mechanism
    BY <2>1 DEF Differ, SndFields
  <2> QED
    BY <1>1, <2>1, <2>2, StaysLater, Zenon
<1>4. CASE Start
  BY <1>4 DEF Start, Handles
<1>5. CASE SendFragment
  <2>1. PICK frames : snd' = ThenAgain(Advanced(Sent(Resumed, frames),
                                                payloadTiles), "SEND")
    BY <1>5 DEF SendFragment
  <2> QED
    BY <1>2, <2>1, OperationsLater
<1>6. CASE SendLast
  <2>1. PICK frames : snd' = Completed(Sent(Resumed, frames), Remaining)
    BY <1>6 DEF SendLast
  <2> QED
    BY <1>2, <2>1, OperationsLater
<1>7. CASE SendBeyond \/ WaitWithoutMessage \/ Finish \/ Ignore
  <2>1. \/ snd' = [Resumed EXCEPT !.state = "undefined"]
        \/ snd' = [Taken EXCEPT !.state = "undefined"]
        \/ snd' = [Taken EXCEPT !.state = "dead"]
        \/ snd' = Taken
    BY <1>7 DEF SendBeyond, WaitWithoutMessage, Finish, Ignore
  <2> QED
    BY <1>2, <2>1, StaysLater
<1>8. CASE WaitAck
  <2> DEFINE m == Head(snd.queue)
             s == [AckTaken(m) EXCEPT !.bitmap = @ \cup PositionsOf(m.w)]
  <2>1. Later(s)
    BY <1>3, StaysLater DEF SndFields
  <2>2. \/ snd' = ThenAgain([s EXCEPT !.window = @ + 1],
                            IF m.w = nWindows - 1 THEN "END" ELSE "SEND")
        \/ snd' = ThenAgain([s EXCEPT !.confirmed = m.w], "END")
        \/ snd' = ThenAgain([s EXCEPT !.errors = Append(@, m.w)], "END")
    BY <1>1, <1>8 DEF WaitAck
  <2> HIDE DEF s
  <2>3. /\ Later([s EXCEPT !.window = @ + 1])
        /\ Later([s EXCEPT !.confirmed = m.w])
        /\ Later([s EXCEPT !.errors = Append(@, m.w)])
    BY <2>1 DEF Later, SndFields
  <2> QED
    BY <2>2, <2>3, OperationsLater
<1>9. CASE WaitNack
  <2>1. PICK m : snd' = ThenAgain(NackDecoded(AckTaken(m), m), "RESEND")
    BY <1>9 DEF WaitNack
  <2> QED
    BY <1>1, <1>3, <2>1, OperationsLater
<1>10. CASE WaitTimer
  <2>1. Later([Taken EXCEPT !.attempts = @ + 1])
    BY <1>2 DEF Later, SndFields
  <2> QED
    BY <1>2, <1>10, <2>1, OperationsLater DEF WaitTimer
<1>11. CASE Resend
  <2> DEFINE n == n_tiles_to_send
             first == Repaired * windowSize + bitmap_ptr
             f == RegularFragment(Repaired, windowSize - 1 - bitmap_ptr, first, n)
             r == Sent(Taken, <<f>>)
             b == [r EXCEPT !.bitmap = @ \cup first .. first + n - 1]
             s == [b EXCEPT !.confirmed = IF snd.mechanism = "compound_ack"
                                            THEN Repaired ELSE @]
  <2>1. snd' = CASE Cardinality(Missing) > n -> ThenAgain(s, "RESEND")
                 [] Cardinality(Missing) = n
                      /\ snd.mechanism # "compound_ack" -> ThenWait(s)
                 [] Cardinality(Missing) = n
                      /\ snd.mechanism = "compound_ack"
                      /\ Len(snd.errors) = 1 ->
                        ThenWait([s EXCEPT !.errors = <<>>])
                 [] OTHER ->
                        ThenAgain([s EXCEPT !.errors = Tail(@)], "RESEND")
    BY <1>11, Zenon DEF Resend
  <2>2. Later(r)
    BY <1>2, OperationsLater
  <2> HIDE DEF r
  <2>3. Later(b)
    BY <2>2 DEF Later, SndFields
  <2> HIDE DEF b
  <2>4. Later(s)
    BY <2>3 DEF Later, SndFields
  <2> HIDE DEF s
  <2>5. Later([s EXCEPT !.errors = <<>>]) /\ Later([s EXCEPT !.errors = Tail(@)])
    BY <2>4 DEF Later, SndFields
  <2> QED
    BY <2>1, <2>4, <2>5, OperationsLater
<1>12. CASE ResendNothing
  <2> DEFINE s == [Taken EXCEPT !.confirmed = Repaired, !.errors = Tail(@)]
  <2>1. \/ snd' = ThenWait(Taken) \/ snd' = Taken
        \/ snd' = ThenWait(s) \/ snd' = ThenAgain(s, "RESEND")
    BY <1>1, <1>12 DEF ResendNothing
  <2>2. Later(s)
    BY <1>2 DEF Later, SndFields
  <2> HIDE DEF s
  <2> QED
    BY <1>2, <2>1, <2>2, OperationsLater
<1> QED
  BY <1>4, <1>5, <1>6, <1>7, <1>8, <1>9, <1>10, <1>11, <1>12 DEF SenderNext

LEMMA FitsStep == ASSUME SenderInv, Fits, [Next]_vars PROVE Fits'
<1>1. Settings /\ DOMAIN snd = SndFields
  BY DEF SenderInv, Settings
<1>2. Later(snd') /\ snd.state # "INIT" => Fits'
  BY DEF Fits, Later
<1>3. CASE SenderStep /\ snd.state # "INIT"
  BY <1>1, <1>2, <1>3, SenderStaysLater DEF SenderStep
<1>4. CASE SenderStep /\ snd.state = "INIT"
  <2>1. Start
    BY <1>4
    DEF SenderStep, SenderNext, SendFragment, SendLast, SendBeyond, Sending,
        WaitWithoutMessage, WaitAck, WaitNack, WaitTimer, Resend,
        ResendNothing, Finish, Ignore, Handles
  <2>2. CASE snd.nFullTiles < 4 * windowSize
    <3> DEFINE t == [Taken EXCEPT !.lacking = FullTiles \cup {LastTile}]
    <3>1. snd' = ThenAgain(t, "SEND")
      BY <2>1, <2>2 DEF Start
    <3>2. Differ(snd, t, {"queue", "lacking"})
      <4>1. Differ(snd, Taken, {"queue"})
        BY <1>1, TakenIs
      <4> QED
        BY <4>1 DEF Differ, SndFields
    <3> HIDE DEF t
    <3>3. Differ(t, snd', {"state", "queue"}) /\ snd'.state = "SEND"
      BY <3>1, <3>2, ThenAgainIs DEF Differ
    <3> QED
      BY <2>2, <3>2, <3>3 DEF Differ, SndFields, Fits
  <2>3. CASE ~(snd.nFullTiles < 4 * windowSize)
    <3>1. /\ snd' = Taken /\ air' = air /\ snd.queue # <<>>
          /\ Differ(snd, snd', {"queue"}) /\ snd'.queue = Tail(snd.queue)
      BY <1>1, <2>1, <2>3, TakenIs DEF Start, Handles
    <3>2. snd'.queue \in Seq({Again})
      BY <1>4, <3>1 DEF Fits
    <3> QED
      BY <1>4, <3>1, <3>2 DEF Differ, SndFields, Fits
  <2> QED
    BY <2>2, <2>3
<1>5. CASE TimerFires \/ GatewayAcks \/ GatewayNacks \/ GatewayAborts
  <2>1. \/ TimerFires
        \/ \E m : Answer(m)
    BY <1>5 DEF GatewayAcks, GatewayNacks, GatewayAborts
  <2>2. snd.state # "INIT"
    BY <2>1 DEF TimerFires, Answer, Fits
  <2>3. snd'.state = snd.state /\ snd'.nFullTiles = snd.nFullTiles
    BY <1>1, <2>1 DEF TimerFires, Answer, SndFields
  <2> QED
    BY <2>2, <2>3 DEF Fits
<1>6. CASE UNCHANGED vars
  BY <1>6 DEF vars, Fits
<1> QED
  BY <1>3, <1>4, <1>5, <1>6 DEF Next

LEMMA FitsInit == ASSUME Init PROVE Fits
<1>1. PICK mechanism \in Mechanisms, size \in Sizes :
         snd = [state |-> "INIT", mechanism |-> mechanism, nFullTiles |-> size,
                ptr |-> 0, window |-> 0, fcn |-> windowSize - 1,
                bitmap |-> {}, errors |-> <<>>, confirmed |-> 0,
                attempts |-> 0, timer |-> FALSE, queue |-> <<Again>>,
                lacking |-> {}, unheeded |-> {}, stray |-> FALSE]
  BY DEF Init, SenderInit
<1>2. air = <<>> /\ <<Again>> \in Seq({Again})
  BY DEF Init, SenderInit
<1> QED
  BY <1>1, <1>2 DEF Fits

(* A field at a time.                                                      *)
LEMMA FieldsTyped ==
    ASSUME NEW s \in SndRecord
    PROVE  /\ DOMAIN s = SndFields
           /\ \A v \in States : [s EXCEPT !.state = v] \in SndRecord
           /\ \A v \in Nat : [s EXCEPT !.ptr = v] \in SndRecord
           /\ \A v \in 0 .. 4 : [s EXCEPT !.window = v] \in SndRecord
           /\ \A v \in 0 .. windowSize - 1 : [s EXCEPT !.fcn = v] \in SndRecord
           /\ \A v \in SUBSET Bits : [s EXCEPT !.bitmap = v] \in SndRecord
           /\ \A v \in Seq(Windows) : [s EXCEPT !.errors = v] \in SndRecord
           /\ \A v \in Windows : [s EXCEPT !.confirmed = v] \in SndRecord
           /\ \A v \in 0 .. maxAckReq + 1 : [s EXCEPT !.attempts = v] \in SndRecord
           /\ \A v \in BOOLEAN : [s EXCEPT !.timer = v] \in SndRecord
           /\ \A v \in Seq(QueueEvents) : [s EXCEPT !.queue = v] \in SndRecord
           /\ \A v \in SUBSET Nat : [s EXCEPT !.lacking = v] \in SndRecord
           /\ \A v \in SUBSET Nat : [s EXCEPT !.unheeded = v] \in SndRecord
           /\ \A v \in BOOLEAN : [s EXCEPT !.stray = v] \in SndRecord
BY DEF SndRecord, SndFields

(* Each operation.                                                         *)
LEMMA OperationsTyped ==
    ASSUME NEW s \in SndRecord
    PROVE  /\ \A state \in States : ThenAgain(s, state) \in SndRecord
           /\ ThenWait(s) \in SndRecord
           /\ \A frames : Sent(s, frames) \in SndRecord
<1>1. ASSUME NEW state \in States PROVE ThenAgain(s, state) \in SndRecord
  <2>1. [s EXCEPT !.state = state] \in SndRecord
    BY FieldsTyped
  <2>2. Append(s.queue, Again) \in Seq(QueueEvents)
    BY QueueEventsAre DEF SndRecord
  <2>3. ThenAgain(s, state) =
          [[s EXCEPT !.state = state] EXCEPT !.queue = Append(s.queue, Again)]
    BY DEF ThenAgain, SndRecord
  <2> QED
    BY <2>1, <2>2, <2>3, FieldsTyped
<1>2. ThenWait(s) \in SndRecord
  <2>1. [s EXCEPT !.state = "WAIT_x_ACK"] \in SndRecord
    BY FieldsTyped DEF States
  <2>2. [[s EXCEPT !.state = "WAIT_x_ACK"] EXCEPT !.timer = TRUE] \in SndRecord
    BY <2>1, FieldsTyped
  <2> QED
    BY <2>2 DEF ThenWait
<1>3. ASSUME NEW frames PROVE Sent(s, frames) \in SndRecord
  <2> DEFINE all == UNION {IF f.type = "regular" THEN f.first .. f.first + f.n - 1
                           ELSE IF f.type = "all1" THEN {LastTile} ELSE {} :
                           f \in {frames[i] : i \in DOMAIN frames}}
  <2>1. Sent(s, frames) = [s EXCEPT !.lacking = @ \ all]
    BY DEF Sent
  <2> HIDE DEF all
  <2>2. s.lacking \ all \in SUBSET Nat
    BY DEF SndRecord
  <2> QED
    BY <2>1, <2>2, FieldsTyped
<1> QED
  BY <1>1, <1>2, <1>3

(* What the sender makes of the event it takes.                            *)
LEMMA TakenTyped ==
    ASSUME snd \in SndRecord, snd.queue # <<>>
    PROVE  /\ Taken \in SndRecord /\ Resumed \in SndRecord
           /\ \A m : AckTaken(m) \in SndRecord
<1>1. Tail(snd.queue) \in Seq(QueueEvents)
  BY DEF SndRecord
<1>2. Taken \in SndRecord
  BY <1>1, FieldsTyped DEF Taken
<1>3. Resumed \in SndRecord
  <2> DEFINE stray == Taken.stray \/ Head(snd.queue).type \in Messages
  <2>1. Resumed = [Taken EXCEPT !.stray = stray]
    BY DEF Resumed
  <2>2. stray \in BOOLEAN
    BY <1>2 DEF SndRecord
  <2> HIDE DEF stray
  <2> QED
    BY <1>2, <2>1, <2>2, FieldsTyped
<1>4. ASSUME NEW m PROVE AckTaken(m) \in SndRecord
  <2> DEFINE r == [Taken EXCEPT !.timer = FALSE]
             t == [r EXCEPT !.attempts = 0]
             stray == t.stray \/ /\ snd.mechanism = "ack_end_win"
                                 /\ snd.window # WindowOf(m)
  <2>1. AckTaken(m) = [t EXCEPT !.stray = stray]
    BY <1>2 DEF AckTaken, SndRecord
  <2>2. r \in SndRecord
    BY <1>2, FieldsTyped
  <2>3. 0 \in 0 .. maxAckReq + 1
    BY AckOnErrorAssumption
  <2> HIDE DEF r
  <2>4. t \in SndRecord
    BY <2>2, <2>3, FieldsTyped
  <2>5. stray \in BOOLEAN
    BY <2>4 DEF SndRecord
  <2> HIDE DEF t, stray
  <2> QED
    BY <2>1, <2>4, <2>5, FieldsTyped
<1> QED
  BY <1>2, <1>3, <1>4

(* What it makes of a NACK.                                                *)
LEMMA NackTyped ==
    ASSUME NEW s \in SndRecord,
           s.mechanism \in {"ack_end_win", "ack_end_session", "compound_ack"},
           NEW m, m.windows \in Seq(Windows), m.missing \in SUBSET Nat,
           WindowOf(m) \in Windows
    PROVE  NackDecoded(s, m) \in SndRecord
<1> DEFINE t == [s EXCEPT !.lacking = @ \cup m.missing]
           u == [t EXCEPT !.unheeded = @ \cup (m.missing \cap s.bitmap)]
           listed == UNION {PositionsOf(w) : w \in {m.windows[i] :
                                                i \in DOMAIN m.windows}}
<1>1. t \in SndRecord
  <2>1. s.lacking \cup m.missing \in SUBSET Nat
    BY DEF SndRecord
  <2> QED
    BY <2>1, FieldsTyped
<1>2. u \in SndRecord
  <2> HIDE DEF t
  <2>1. t.unheeded \cup (m.missing \cap s.bitmap) \in SUBSET Nat
    BY <1>1 DEF SndRecord
  <2> QED
    BY <1>1, <2>1, FieldsTyped
<1>3. CASE s.mechanism = "ack_end_win"
  BY <1>2, <1>3 DEF NackDecoded
<1>4. CASE s.mechanism = "ack_end_session"
  <2>1. NackDecoded(s, m) = [u EXCEPT !.confirmed = WindowOf(m)]
    BY <1>4 DEF NackDecoded
  <2> HIDE DEF u
  <2> QED
    BY <1>2, <2>1, FieldsTyped
<1>5. CASE s.mechanism = "compound_ack"
  <2> DEFINE b == (t.bitmap \cup listed) \ m.missing
             e == IF Len(m.windows) > 1 THEN m.windows ELSE t.errors \o m.windows
             v == [t EXCEPT !.bitmap = b]
  <2>1. NackDecoded(s, m) = [v EXCEPT !.errors = e]
    BY <1>1, <1>5 DEF NackDecoded, SndRecord
  <2>2. listed \subseteq Bits
    BY ListedTilesTyped DEF ListedTiles
  <2> HIDE DEF t, listed
  <2>3. b \in SUBSET Bits
    BY <1>1, <2>2 DEF SndRecord
  <2>4. e \in Seq(Windows)
    <3>1. t.errors \in Seq(Windows)
      BY <1>1 DEF SndRecord
    <3>2. t.errors \o m.windows \in Seq(Windows)
      BY <3>1
    <3> QED
      BY <3>2
  <2> HIDE DEF b, e
  <2>5. v \in SndRecord
    BY <1>1, <2>3, FieldsTyped
  <2> HIDE DEF v
  <2> QED
    BY <2>1, <2>4, <2>5, FieldsTyped
<1> QED
  BY <1>3, <1>4, <1>5

(* Every step of the sender, from a state that fits to one that does.      *)
WellFormedLater == snd.state # "INIT" => WellFormed

LEMMA SendTyped ==
    ASSUME snd \in SndRecord, SenderInv, SenderInv', WellFormed, WellFormed',
           SendFragment \/ SendLast
    PROVE  snd' \in SndRecord
<1>1. Resumed \in SndRecord /\ snd.queue # <<>> /\ Positions'
  <2>1. snd.queue # <<>>
    BY DEF SendFragment, SendLast, Sending, Handles
  <2> QED
    BY <2>1, TakenTyped DEF SenderInv
<1>2. nWindows' \in 1 .. 4 /\ snd'.ptr \in Nat /\ snd'.fcn \in 0 .. windowSize - 1
  BY DEF WellFormed
<1>3. CASE SendFragment
  <2> DEFINE n == payloadTiles
  <2>1. PICK frames :
          snd' = ThenAgain(Advanced(Sent(Resumed, frames), n), "SEND")
    BY <1>3 DEF SendFragment
  <2> DEFINE s == Sent(Resumed, frames)
             t == Advanced(s, n)
  <2>2. s \in SndRecord
    BY <1>1, OperationsTyped
  <2> HIDE DEF s
  <2>3. DOMAIN t = SndFields
    BY <2>2 DEF Advanced, SndRecord, SndFields
  <2>4. Differ(t, snd', {"state", "queue"}) /\ snd'.state = "SEND"
    BY <2>1, <2>3, ThenAgainIs DEF s
  <2>5. /\ t.ptr = snd'.ptr /\ t.fcn = snd'.fcn /\ t.window = snd'.window
        /\ snd'.window \in 0 .. 4
    <3>1. t.ptr = snd'.ptr /\ t.fcn = snd'.fcn /\ t.window = snd'.window
      BY <2>4 DEF Differ, SndFields
    <3>2. snd'.window \in 0 .. nWindows' - 1 \/ snd'.window = nWindows'
      BY <1>1, <2>4 DEF Positions, SentWindows
    <3> QED
      BY <1>2, <3>1, <3>2
  <2>6. t \in SndRecord
    <3>1. t.ptr \in Nat /\ t.fcn \in 0 .. windowSize - 1 /\ t.window \in 0 .. 4
      BY <1>2, <2>5
    <3>2. CASE n > s.fcn /\ s.mechanism # "ack_end_win"
      <4> DEFINE p == s.ptr + n
                 k == s.fcn + windowSize - n
                 w == s.window + 1
                 a == [s EXCEPT !.ptr = p]
                 b == [a EXCEPT !.fcn = k]
      <4>1. t = [b EXCEPT !.window = w]
        BY <2>2, <3>2 DEF Advanced, SndRecord
      <4> HIDE DEF p, k, w, t
      <4>2. t.ptr = p /\ t.fcn = k /\ t.window = w
        BY <2>2, <4>1 DEF SndRecord
      <4>3. a \in SndRecord
        BY <2>2, <3>1, <4>2, FieldsTyped
      <4> HIDE DEF a
      <4>4. b \in SndRecord
        BY <3>1, <4>2, <4>3, FieldsTyped
      <4> HIDE DEF b
      <4> QED
        BY <3>1, <4>1, <4>2, <4>4, FieldsTyped
    <3>3. CASE ~(n > s.fcn /\ s.mechanism # "ack_end_win")
      <4> DEFINE p == s.ptr + n
                 k == s.fcn - n
                 a == [s EXCEPT !.ptr = p]
      <4>1. t = [a EXCEPT !.fcn = k]
        BY <2>2, <3>3 DEF Advanced, SndRecord
      <4> HIDE DEF p, k, t
      <4>2. t.ptr = p /\ t.fcn = k
        BY <2>2, <4>1 DEF SndRecord
      <4>3. a \in SndRecord
        BY <2>2, <3>1, <4>2, FieldsTyped
      <4> HIDE DEF a
      <4> QED
        BY <3>1, <4>1, <4>2, <4>3, FieldsTyped
    <3> QED
      BY <3>2, <3>3
  <2> HIDE DEF t
  <2> QED
    BY <2>1, <2>6, OperationsTyped DEF s, t, States
<1>4. CASE SendLast
  <2>1. PICK frames : snd' = Completed(Sent(Resumed, frames), Remaining)
    BY <1>4 DEF SendLast
  <2> DEFINE s == Sent(Resumed, frames)
             p == s.ptr + Remaining
             k == IF s.mechanism = "ack_end_win" THEN windowSize - 1 ELSE s.fcn
             a == [s EXCEPT !.ptr = p]
             t == [a EXCEPT !.fcn = k]
  <2>2. s \in SndRecord
    BY <1>1, OperationsTyped
  <2> HIDE DEF s
  <2>3. snd' = ThenWait(t)
    BY <2>1, <2>2 DEF Completed, SndRecord, s
  <2>4. k \in 0 .. windowSize - 1
    BY <2>2, AckOnErrorAssumption DEF SndRecord
  <2> HIDE DEF k, p
  <2>5. DOMAIN t = SndFields /\ t.ptr = p
    BY <2>2 DEF SndRecord, SndFields
  <2>6. snd'.ptr = p
    <3> HIDE DEF t
    <3>1. Differ(t, snd', {"state", "timer"})
      BY <2>3, <2>5, ThenWaitIs
    <3> QED
      BY <2>5, <3>1 DEF Differ, SndFields
  <2>7. a \in SndRecord
    BY <1>2, <2>2, <2>6, FieldsTyped
  <2> HIDE DEF a
  <2>8. t \in SndRecord
    BY <2>4, <2>7, FieldsTyped
  <2> HIDE DEF t
  <2> QED
    BY <2>3, <2>8, OperationsTyped
<1> QED
  BY <1>3, <1>4

LEMMA WaitTyped ==
    ASSUME snd \in SndRecord, SenderInv, WellFormed,
           WaitAck \/ WaitNack \/ WaitTimer
    PROVE  snd' \in SndRecord
<1>1. /\ Settings /\ OneAgain /\ Positions /\ snd.queue # <<>>
      /\ snd.state = "WAIT_x_ACK" /\ DOMAIN snd = SndFields
      /\ snd.mechanism \in {"ack_end_win", "ack_end_session", "compound_ack"}
  BY DEF SenderInv, Settings, WaitAck, WaitNack, WaitTimer, Handles
<1>2. Taken \in SndRecord /\ \A m : AckTaken(m) \in SndRecord
  BY <1>1, TakenTyped
<1> DEFINE m == Head(snd.queue)
           a == AckTaken(m)
<1>3. m \in Events
  BY <1>1, TailOfQueue DEF Settings
<1>4. /\ nWindows \in 1 .. 4 /\ SentWindows \subseteq Windows
      /\ {"SEND", "END", "RESEND", "ERROR"} \subseteq States
  BY DEF WellFormed, States
<1>5. CASE WaitAck
  <2> DEFINE s == [a EXCEPT !.bitmap = @ \cup PositionsOf(m.w)]
  <2>1. m.type = "ack" /\ m.w \in Windows
    BY <1>3, <1>4, <1>5, EventsAre DEF WaitAck, Handles
  <2>2. \/ /\ snd.mechanism = "ack_end_win"
           /\ snd' = ThenAgain([s EXCEPT !.window = @ + 1],
                            IF m.w = nWindows - 1 THEN "END" ELSE "SEND")
        \/ snd' = ThenAgain([s EXCEPT !.confirmed = m.w], "END")
        \/ snd' = ThenAgain([s EXCEPT !.errors = Append(@, m.w)], "END")
    BY <1>1, <1>5 DEF WaitAck
  <2>3. a.window = snd.window
    <3>1. Differ(snd, a, {"queue", "stray", "timer", "attempts"})
      BY <1>1, AckTakenIs
    <3> QED
      BY <3>1 DEF Differ, SndFields
  <2>4. s \in SndRecord /\ s.window = snd.window
    <3>1. a \in SndRecord
      BY <1>2
    <3> HIDE DEF a, m
    <3>2. a.bitmap \cup PositionsOf(m.w) \in SUBSET Bits
      BY <2>1, <3>1 DEF SndRecord, Bits
    <3>3. s.window = a.window
      BY <3>1 DEF SndRecord
    <3> QED
      BY <2>3, <3>1, <3>2, <3>3, FieldsTyped
  <2> HIDE DEF s, a, m
  <2>5. CASE /\ snd.mechanism = "ack_end_win"
             /\ snd' = ThenAgain([s EXCEPT !.window = @ + 1],
                            IF m.w = nWindows - 1 THEN "END" ELSE "SEND")
    <3>1. snd.window \in 0 .. nWindows - 1
      BY <1>1, <2>5 DEF Positions, SentWindows
    <3>2. s.window + 1 \in 0 .. 4
      BY <1>4, <2>4, <3>1
    <3>3. [s EXCEPT !.window = @ + 1] \in SndRecord
      BY <2>4, <3>2, FieldsTyped
    <3>4. (IF m.w = nWindows - 1 THEN "END" ELSE "SEND") \in States
      BY <1>4
    <3> QED
      BY <2>5, <3>3, <3>4, OperationsTyped
  <2>6. CASE snd' = ThenAgain([s EXCEPT !.confirmed = m.w], "END")
    <3>1. [s EXCEPT !.confirmed = m.w] \in SndRecord
      BY <2>1, <2>4, FieldsTyped
    <3> QED
      BY <1>4, <2>6, <3>1, OperationsTyped
  <2>7. CASE snd' = ThenAgain([s EXCEPT !.errors = Append(@, m.w)], "END")
    <3>1. Append(s.errors, m.w) \in Seq(Windows)
      BY <2>1, <2>4 DEF SndRecord
    <3>2. [s EXCEPT !.errors = Append(@, m.w)] \in SndRecord
      BY <2>4, <3>1, FieldsTyped
    <3> QED
      BY <1>4, <2>7, <3>2, OperationsTyped
  <2> QED
    BY <2>2, <2>5, <2>6, <2>7
<1>6. CASE WaitNack
  <2>1. m.type = "nack"
    BY <1>6 DEF WaitNack, Handles
  <2>2. /\ m.windows \in Listings /\ m.missing \subseteq ListedTiles(m.windows)
        /\ WindowOf(m) \in SentWindows
    BY <1>3, <2>1, EventsAre
  <2>3. m.windows \in Seq(Windows) /\ WindowOf(m) \in Windows
    <3>1. m.windows \in Seq(SentWindows)
      BY <2>2 DEF Listings
    <3> QED
      BY <1>4, <2>2, <3>1
  <2>4. m.missing \in SUBSET Nat
    BY <2>2, <2>3, ListedTilesTyped, BitsTyped
  <2>5. a.mechanism = snd.mechanism
    <3>1. Differ(snd, a, {"queue", "stray", "timer", "attempts"})
      BY <1>1, AckTakenIs
    <3> QED
      BY <3>1 DEF Differ, SndFields
  <2>6. snd' = ThenAgain(NackDecoded(a, m), "RESEND")
    BY <1>6 DEF WaitNack
  <2>7. a \in SndRecord
    BY <1>2
  <2> HIDE DEF m, a
  <2>8. NackDecoded(a, m) \in SndRecord
    BY <1>1, <2>3, <2>4, <2>5, <2>7, NackTyped
  <2> QED
    BY <1>4, <2>6, <2>8, OperationsTyped
<1>7. CASE WaitTimer
  <2>1. \/ /\ snd.attempts <= maxAckReq
           /\ snd' = ThenWait([Taken EXCEPT !.attempts = @ + 1])
        \/ snd' = ThenAgain(Taken, "ERROR")
    BY <1>7 DEF WaitTimer
  <2>2. CASE /\ snd.attempts <= maxAckReq
             /\ snd' = ThenWait([Taken EXCEPT !.attempts = @ + 1])
    <3>1. Differ(snd, Taken, {"queue"})
      BY <1>1, TakenIs
    <3>2. Taken.attempts = snd.attempts
      BY <3>1 DEF Differ, SndFields
    <3>3. Taken.attempts + 1 \in 0 .. maxAckReq + 1
      BY <2>2, <3>2, AckOnErrorAssumption DEF SndRecord
    <3>4. [Taken EXCEPT !.attempts = @ + 1] \in SndRecord
      BY <1>2, <3>3, FieldsTyped
    <3> QED
      BY <2>2, <3>4, OperationsTyped
  <2> QED
    BY <1>2, <1>4, <2>1, <2>2, OperationsTyped
<1> QED
  BY <1>5, <1>6, <1>7

LEMMA ResendTyped ==
    ASSUME snd \in SndRecord, SenderInv, WellFormed, Resend \/ ResendNothing
    PROVE  snd' \in SndRecord
<1>1. /\ Settings /\ snd.queue # <<>> /\ snd.state = "RESEND"
      /\ DOMAIN snd = SndFields
      /\ snd.mechanism \in {"ack_end_win", "ack_end_session", "compound_ack"}
  BY DEF SenderInv, Settings, Resend, ResendNothing, Handles
<1>2. Taken \in SndRecord /\ Taken.errors = snd.errors
  <2>1. Differ(snd, Taken, {"queue"})
    BY <1>1, TakenIs
  <2> QED
    BY <1>1, <2>1, TakenTyped DEF Differ, SndFields
<1>3. /\ Repaired \in Windows /\ last_ptr \in 0 .. windowSize
      /\ "RESEND" \in States
  BY <1>1, RepairedIs DEF WellFormed, States
<1>4. ASSUME NEW s \in SndRecord, s.errors # <<>>
      PROVE  [s EXCEPT !.errors = Tail(@)] \in SndRecord
  <2>1. Tail(s.errors) \in Seq(Windows)
    BY <1>4 DEF SndRecord
  <2> QED
    BY <2>1, FieldsTyped
<1>5. snd.mechanism = "compound_ack" => snd.errors # <<>>
  BY <1>1 DEF SenderInv, Repairs
<1>6. CASE Resend
  <2> DEFINE n == n_tiles_to_send
             first == Repaired * windowSize + bitmap_ptr
             f == RegularFragment(Repaired, windowSize - 1 - bitmap_ptr, first, n)
             r == Sent(Taken, <<f>>)
             b == [r EXCEPT !.bitmap = @ \cup first .. first + n - 1]
             s == [b EXCEPT !.confirmed = IF snd.mechanism = "compound_ack"
                                            THEN Repaired ELSE @]
  <2>1. snd' = CASE Cardinality(Missing) > n -> ThenAgain(s, "RESEND")
                 [] Cardinality(Missing) = n
                      /\ snd.mechanism # "compound_ack" -> ThenWait(s)
                 [] Cardinality(Missing) = n
                      /\ snd.mechanism = "compound_ack"
                      /\ Len(snd.errors) = 1 ->
                        ThenWait([s EXCEPT !.errors = <<>>])
                 [] OTHER ->
                        ThenAgain([s EXCEPT !.errors = Tail(@)], "RESEND")
    BY <1>6, Zenon DEF Resend
  <2>2. first .. first + n - 1 \subseteq Bits
    <3>1. /\ bitmap_ptr \in 0 .. last_ptr - 1 /\ n \in Nat
          /\ bitmap_ptr + n <= last_ptr
      BY <1>1, <1>6, ResentAre, AckOnErrorAssumption DEF Resend
    <3>2. windowSize \in Nat /\ Repaired \in Int
      BY <1>3, AckOnErrorAssumption DEF Windows
    <3>3. Repaired * windowSize \in Int
      BY <3>2
    <3>4. (Repaired + 1) * windowSize = Repaired * windowSize + windowSize
      BY <3>2
    <3> HIDE DEF n
    <3>5. first .. first + n - 1 \subseteq PositionsOf(Repaired)
      BY <1>3, <3>1, <3>2, <3>3, <3>4 DEF PositionsOf
    <3> HIDE DEF first
    <3> QED
      BY <1>3, <3>5 DEF Bits
  <2>3. /\ r \in SndRecord /\ r.errors = snd.errors
        /\ Cardinality(Missing) \in Nat /\ n \in Nat /\ n <= Cardinality(Missing)
    <3>1. r \in SndRecord
      BY <1>2, OperationsTyped
    <3>2. DOMAIN Taken = SndFields
      BY <1>1, TakenIs DEF Differ
    <3>3. Differ(Taken, r, {"lacking"})
      BY <3>2, SentIs
    <3>4. r.errors = snd.errors
      BY <1>2, <3>3 DEF Differ, SndFields
    <3> QED
      BY <1>1, <1>6, <3>1, <3>4, ResentAre, AckOnErrorAssumption DEF Resend
  <2> HIDE DEF r, n, first
  <2>4. b \in SndRecord /\ b.errors = snd.errors
    <3>1. r.bitmap \cup first .. first + n - 1 \in SUBSET Bits
      BY <2>2, <2>3 DEF SndRecord
    <3>2. b.errors = r.errors
      BY <2>3 DEF SndRecord
    <3> QED
      BY <2>3, <3>1, <3>2, FieldsTyped
  <2> HIDE DEF b
  <2>5. s \in SndRecord /\ s.errors = snd.errors
    <3>1. (IF snd.mechanism = "compound_ack" THEN Repaired ELSE b.confirmed)
             \in Windows
      BY <1>3, <2>4 DEF SndRecord
    <3>2. s.errors = b.errors
      BY <2>4 DEF SndRecord
    <3> QED
      BY <2>4, <3>1, <3>2, FieldsTyped
  <2> HIDE DEF s
  <2>6. \/ snd' = ThenAgain(s, "RESEND") \/ snd' = ThenWait(s)
        \/ snd' = ThenWait([s EXCEPT !.errors = <<>>])
        \/ /\ snd' = ThenAgain([s EXCEPT !.errors = Tail(@)], "RESEND")
           /\ snd.mechanism = "compound_ack"
    <3>1. Cardinality(Missing) > n \/ Cardinality(Missing) = n
      BY <2>3
    <3> QED
      BY <2>1, <3>1
  <2>7. [s EXCEPT !.errors = <<>>] \in SndRecord
    <3>1. <<>> \in Seq(Windows)
      OBVIOUS
    <3> QED
      BY <2>5, <3>1, FieldsTyped
  <2>8. snd.mechanism = "compound_ack" =>
          [s EXCEPT !.errors = Tail(@)] \in SndRecord
    BY <1>4, <1>5, <2>5
  <2> QED
    BY <1>3, <2>5, <2>6, <2>7, <2>8, OperationsTyped
<1>7. CASE ResendNothing
  <2> DEFINE t == [Taken EXCEPT !.confirmed = Repaired]
             s == [t EXCEPT !.errors = Tail(@)]
  <2>1. \/ snd' = ThenWait(Taken) \/ snd' = Taken
        \/ /\ snd' = ThenWait(s) \/ snd' = ThenAgain(s, "RESEND")
           /\ snd.mechanism = "compound_ack"
    <3>1. snd' = CASE snd.mechanism = "ack_end_win" ->
                        IF last_ptr > 0 THEN ThenWait(Taken) ELSE Taken
                   [] snd.mechanism = "ack_end_session" -> ThenWait(Taken)
                   [] snd.mechanism = "compound_ack" ->
                        IF s.errors = <<>>
                          THEN ThenWait(s) ELSE ThenAgain(s, "RESEND")
      BY <1>7, Zenon DEF ResendNothing
    <3> HIDE DEF s
    <3> QED
      BY <1>1, <3>1
  <2>2. t \in SndRecord
    BY <1>2, <1>3, FieldsTyped
  <2>3. t.errors = snd.errors
    BY <1>2 DEF SndRecord
  <2> HIDE DEF t
  <2>4. snd.mechanism = "compound_ack" => s \in SndRecord
    BY <1>4, <1>5, <2>2, <2>3
  <2> HIDE DEF s
  <2> QED
    BY <1>2, <1>3, <2>1, <2>4, OperationsTyped
<1> QED
  BY <1>6, <1>7

LEMMA TypesStep ==
    ASSUME TypeOK, SenderInv, SenderInv', WellFormedLater, WellFormedLater',
           Fits, Fits', [Next]_vars
    PROVE  TypeOK'
<1>1. snd \in SndRecord /\ acks \in 0 .. MaxAcks /\ acks \in Nat
  BY TypeOKIs, MaxAcksAssumption
<1>2. snd' \in SndRecord /\ acks' \in 0 .. MaxAcks => TypeOK'
  BY Zenon DEF TypeOK, SndRecord, States, QueueEvents, Bits
<1>3. CASE SenderStep
  <2>1. SenderNext /\ acks' = acks /\ snd.queue # <<>>
    BY <1>3
    DEF SenderStep, SenderNext, Start, SendFragment, SendLast, SendBeyond,
        Sending, WaitWithoutMessage, WaitAck, WaitNack, WaitTimer, Resend,
        ResendNothing, Finish, Ignore, Handles
  <2>2. Taken \in SndRecord /\ Resumed \in SndRecord
    BY <1>1, <2>1, TakenTyped
  <2>3. {"SEND", "dead", "undefined"} \subseteq States
    BY DEF States
  <2>4. ~Start => /\ snd.state # "INIT" /\ snd'.state # "INIT"
                  /\ WellFormed /\ WellFormed'
    <3> SUFFICES ASSUME ~Start
                 PROVE  /\ snd.state # "INIT" /\ snd'.state # "INIT"
                        /\ WellFormed /\ WellFormed'
      OBVIOUS
    <3>1. snd.state # "INIT"
      BY <2>1
      DEF SenderNext, SendFragment, SendLast, SendBeyond, Sending,
          WaitWithoutMessage, WaitAck, WaitNack, WaitTimer, Resend,
          ResendNothing, Finish, Ignore, Handles
    <3>2. Later(snd')
      BY <2>1, <3>1, SenderStaysLater DEF SenderInv
    <3> QED
      BY <3>1, <3>2 DEF WellFormedLater, Later
  <2>5. CASE Start
    <3> DEFINE t == [Taken EXCEPT !.lacking = FullTiles \cup {LastTile}]
    <3>1. snd' = ThenAgain(t, "SEND") \/ snd' = Taken
      BY <2>5 DEF Start
    <3>2. FullTiles \cup {LastTile} \in SUBSET Nat
      <4>1. /\ nWindows \in Nat \ {0} /\ snd.nFullTiles \in Nat
            /\ snd.nFullTiles < Place(nWindows) /\ Place(nWindows) \in Int
        BY WindowFacts DEF SenderInv
      <4>2. LastTile = Place(nWindows) - 1
        BY DEF LastTile, Place
      <4> QED
        BY <4>1, <4>2 DEF FullTiles
    <3>3. t \in SndRecord
      BY <2>2, <3>2, FieldsTyped
    <3> HIDE DEF t
    <3> QED
      BY <1>1, <1>2, <2>1, <2>2, <2>3, <3>1, <3>3, OperationsTyped
  <2>6. CASE SendFragment \/ SendLast
    <3>1. WellFormed /\ WellFormed'
      BY <2>4, <2>6 DEF Start, SendFragment, SendLast, Sending, Handles
    <3> QED
      BY <1>1, <1>2, <2>1, <2>6, <3>1, SendTyped
  <2>7. CASE WaitAck \/ WaitNack \/ WaitTimer
    <3>1. WellFormed
      BY <2>4, <2>7 DEF Start, WaitAck, WaitNack, WaitTimer, Handles
    <3> QED
      BY <1>1, <1>2, <2>1, <2>7, <3>1, WaitTyped
  <2>8. CASE Resend \/ ResendNothing
    <3>1. WellFormed
      BY <2>4, <2>8 DEF Start, Resend, ResendNothing, Handles
    <3> QED
      BY <1>1, <1>2, <2>1, <2>8, <3>1, ResendTyped
  <2>9. CASE SendBeyond \/ WaitWithoutMessage \/ Finish \/ Ignore
    <3>1. \/ snd' = [Resumed EXCEPT !.state = "undefined"]
          \/ snd' = [Taken EXCEPT !.state = "undefined"]
          \/ snd' = [Taken EXCEPT !.state = "dead"]
          \/ snd' = Taken
      BY <2>9 DEF SendBeyond, WaitWithoutMessage, Finish, Ignore
    <3>2. /\ [Resumed EXCEPT !.state = "undefined"] \in SndRecord
          /\ [Taken EXCEPT !.state = "undefined"] \in SndRecord
          /\ [Taken EXCEPT !.state = "dead"] \in SndRecord
      BY <2>2, <2>3, FieldsTyped
    <3> QED
      BY <1>1, <1>2, <2>1, <2>2, <3>1, <3>2
  <2> QED
    BY <2>1, <2>5, <2>6, <2>7, <2>8, <2>9 DEF SenderNext
<1>4. CASE TimerFires \/ GatewayAcks \/ GatewayNacks \/ GatewayAborts
  <2>1. \/ TimerFires
        \/ \E m : Answer(m)
    BY <1>4 DEF GatewayAcks, GatewayNacks, GatewayAborts
  <2>2. snd.state # "INIT" /\ snd'.state = snd.state
    BY <1>1, <2>1 DEF TimerFires, Answer, Fits, SndRecord
  <2>3. snd'.queue \in Seq(QueueEvents)
    BY <2>2 DEF WellFormedLater, WellFormed
  <2>4. CASE TimerFires
    <3> DEFINE t == [snd EXCEPT !.timer = FALSE]
               q == Append(snd.queue, TimerExpired)
    <3>1. snd' = [t EXCEPT !.queue = q]
      BY <1>1, <2>4 DEF TimerFires, SndRecord
    <3>2. t \in SndRecord
      BY <1>1, FieldsTyped
    <3>3. q \in Seq(QueueEvents)
      BY <1>1, QueueEventsAre DEF SndRecord
    <3> HIDE DEF t, q
    <3> QED
      BY <1>1, <1>2, <2>4, <3>1, <3>2, <3>3, FieldsTyped DEF TimerFires
  <2>5. CASE \E m : Answer(m)
    <3>1. PICK m : Answer(m)
      BY <2>5
    <3> DEFINE q == Append(snd.queue, m)
    <3>2. snd' = [snd EXCEPT !.queue = q]
      BY <3>1 DEF Answer
    <3> HIDE DEF q
    <3>3. snd'.queue = q
      BY <1>1, <3>2 DEF SndRecord
    <3>4. snd' \in SndRecord
      BY <1>1, <2>3, <3>2, <3>3, FieldsTyped
    <3>5. acks' \in 0 .. MaxAcks
      BY <1>1, <3>1, MaxAcksAssumption DEF Answer
    <3> QED
      BY <1>2, <3>4, <3>5
  <2> QED
    BY <2>1, <2>4, <2>5
<1>5. CASE UNCHANGED vars
  BY <1>1, <1>2, <1>5 DEF vars
<1> QED
  BY <1>3, <1>4, <1>5 DEF Next

LEMMA TypesInit == ASSUME Init PROVE TypeOK
<1>1. PICK mechanism \in Mechanisms, size \in Sizes :
         snd = [state |-> "INIT", mechanism |-> mechanism, nFullTiles |-> size,
                ptr |-> 0, window |-> 0, fcn |-> windowSize - 1,
                bitmap |-> {}, errors |-> <<>>, confirmed |-> 0,
                attempts |-> 0, timer |-> FALSE, queue |-> <<Again>>,
                lacking |-> {}, unheeded |-> {}, stray |-> FALSE]
  BY DEF Init, SenderInit
<1>2. /\ <<Again>> \in Seq(QueueEvents) /\ "INIT" \in States
      /\ windowSize - 1 \in 0 .. windowSize - 1
      /\ 0 \in 0 .. maxAckReq + 1 /\ 0 \in Windows
  BY QueueEventsAre, AckOnErrorAssumption DEF States, Windows
<1>3. snd \in SndRecord
  BY <1>1, <1>2 DEF SndRecord
<1>4. acks \in 0 .. MaxAcks
  BY MaxAcksAssumption DEF Init
<1> QED
  BY <1>3, <1>4, TypeOKIs

(* The machine keeps its types: in particular, once it has cut a packet,   *)
(* no counter and no ACK names a window past the fourth, and the attempts  *)
(* stop one past the limit.                                                *)
THEOREM TypeCorrect == Spec => []TypeOK
<1>1. Spec => []Fits
  BY FitsInit, FitsStep, Invariance, PTL DEF Spec
<1>2. SenderInv /\ Fits => WellFormedLater
  BY FitsWell DEF WellFormedLater
<1>3. Spec => [](SenderInv /\ Fits /\ WellFormedLater)
  BY <1>1, <1>2, Invariance, PTL
<1> QED
  BY <1>3, TypesInit, TypesStep, PTL DEF Spec

===============================================================================
