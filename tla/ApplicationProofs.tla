--------------------------- MODULE ApplicationProofs ---------------------------
(***************************************************************************)
(* Theorems about Application for every set of threads, and any number of  *)
(* frames, packets and uplinks, with proofs that TLAPS checks.             *)
(***************************************************************************)
EXTENDS Application, SequenceTheorems, TLAPS

-----------------------------------------------------------------------------
(* Commands to the modem.                                                  *)

ModemRecord ==
    [ready : BOOLEAN, response : Nat, reading : BOOLEAN,
     writer : Callers \cup {NoCaller}, line : Seq(Nat), issued : Nat]

CallRecord ==
    [pc : CallStates, id : Nat, heard : BOOLEAN, answered : BOOLEAN,
     alone : BOOLEAN]

(* The numbers of the commands are those issued so far.                    *)
Numbered ==
    /\ \A i \in DOMAIN modem.line : modem.line[i] \in 1 .. modem.issued
    /\ \A c \in Callers : call[c].id <= modem.issued
    /\ \A c \in Callers : call[c].pc = "write" => call[c].id >= 1

(* A thread that is writing holds the mutex, and no other thread does.     *)
WriterHolds == \A c \in Callers : (call[c].pc = "write") <=> (modem.writer = c)

ModemTyped ==
    /\ modem \in ModemRecord
    /\ call \in [Callers -> CallRecord]
    /\ Numbered
    /\ WriterHolds

(* Whoever is in send_command() has heard of what stands in the flag.      *)
HeardOfIt ==
    modem.ready => \A c \in Callers : call[c].pc # "idle" => call[c].heard

(* A call that nobody overlaps owns the line and, answered, the response.  *)
AloneWith(c) ==
    /\ \A d \in Callers \ {c} : call[d].pc = "idle"
    /\ modem.line = <<>> \/ modem.line = <<call[c].id>>
    /\ call[c].pc = "write" => modem.line = <<>> /\ ~call[c].answered
    /\ call[c].answered =>
         modem.line = <<>> /\ modem.ready /\ modem.response = call[c].id

Undivided ==
    \A c \in Callers : call[c].pc # "idle" /\ call[c].alone => AloneWith(c)

ModemInv == ModemTyped /\ HeardOfIt /\ Undivided

ModemStep ==
    \/ \E c \in Callers : \/ BeginLoRaWAN(c) \/ Returning(c)
                          \/ SendMyriota(c) \/ SendMyriotaFails(c)
    \/ ReaderTakesStatus \/ ModemLoses \/ StopReader
    \/ UNCHANGED modemVars

(* A step of the daemon is one of the exchange with the modem, or leaves   *)
(* it alone.                                                               *)
LEMMA ModemSteps == [Next]_vars => ModemStep
<1> SUFFICES ASSUME [Next]_vars PROVE ModemStep
  OBVIOUS
<1>1. main \in Callers /\ Workers \subseteq Callers
  BY ApplicationAssumption DEF ApplicationAssumption, Workers
<1>2. CASE UNCHANGED vars
  BY <1>2 DEF vars, ModemStep, modemVars
<1>3. CASE BackhaulRx \/ BackhaulRxFails \/ BackhaulTx \/ SchedulerRuns
             \/ ClockRuns
  BY <1>3 DEF BackhaulRx, BackhaulRxFails, BackhaulTx, OnlyBackhaul,
              SchedulerRuns, ClockRuns, OnlyDelay, ModemStep
<1>4. CASE Outside
  BY <1>1, <1>4 DEF Outside, InterfaceReceives, SessionHandsOver, SessionSends,
                    BrokerBrings, ModemBringsBadLine, ModemStep
<1>5. CASE ModemRuns \/ \E c \in Callers : CallReturns(c)
  BY <1>5 DEF ModemRuns, CallReturns, ModemStep
<1>6. CASE MainRuns
  <2>1. CASE Registers
    BY <2>1 DEF Registers, Register, ModemStep
  <2>2. CASE Starts
    BY <1>1, <2>2 DEF Starts, OnlyMain, ModemStep
  <2>3. CASE StopsBackhaul
    BY <2>3 DEF StopsBackhaul, StopReturns, OnlyMain, ModemStep
  <2>4. CASE StopsCore
    BY <2>4 DEF StopsCore, StopReturns, OnlyMain, ModemStep
  <2>5. CASE DestroysStack
    BY <1>1, <2>5 DEF DestroysStack, OnlyMain, ModemStep
  <2> QED
    BY <1>6, <2>1, <2>2, <2>3, <2>4, <2>5 DEF MainRuns
<1>7. CASE Signal \/ StopFails
  BY <1>7 DEF Signal, StopFails, OnlyMain, ModemStep
<1> QED
  BY <1>2, <1>3, <1>4, <1>5, <1>6, <1>7 DEF Next

(* What a call begins with.                                                *)
LEMMA CallBegins ==
    ASSUME ModemTyped, NEW c \in Callers, NEW pc \in {"write", "wait"},
           call' = Called(c, pc)
    PROVE  /\ call' \in [Callers -> CallRecord]
           /\ call'[c].pc = pc
           /\ call'[c].id = modem.issued + 1
           /\ ~call'[c].answered
           /\ call'[c].alone =>
                /\ \A d \in Callers : call[d].pc = "idle"
                /\ modem.line = <<>>
           /\ \A d \in Callers \ {c} :
                /\ call'[d].pc = call[d].pc
                /\ call'[d].id = call[d].id
                /\ call'[d].heard = call[d].heard
                /\ ~call'[d].alone
<1>1. modem.issued + 1 \in Nat
  BY DEF ModemTyped, ModemRecord
<1>2. (Calling = {} /\ modem.line = <<>>) \in BOOLEAN
  OBVIOUS
<1>3. call'[c] = [NoCall EXCEPT !.pc = pc, !.id = modem.issued + 1,
                               !.alone = Calling = {} /\ modem.line = <<>>]
  BY DEF Called
<1>4. \A d \in Callers \ {c} : call'[d] = [call[d] EXCEPT !.alone = FALSE]
  BY DEF Called
<1>5. call'[c] \in CallRecord
  BY <1>1, <1>2, <1>3 DEF NoCall, CallRecord, CallStates
<1>6. \A d \in Callers \ {c} : call'[d] \in CallRecord
  BY <1>4 DEF ModemTyped, CallRecord
<1>7. call' \in [Callers -> CallRecord]
  BY <1>5, <1>6 DEF Called
<1>8. Calling = {} => \A d \in Callers : call[d].pc = "idle"
  BY DEF Calling
<1>9. /\ call'[c].pc = pc /\ call'[c].id = modem.issued + 1
      /\ ~call'[c].answered
  BY <1>3 DEF NoCall
<1>10. call'[c].alone = (Calling = {} /\ modem.line = <<>>)
  BY <1>3 DEF NoCall
<1>11. ASSUME NEW d \in Callers \ {c}
       PROVE  /\ call'[d].pc = call[d].pc /\ call'[d].id = call[d].id
              /\ call'[d].heard = call[d].heard
              /\ ~call'[d].alone
  BY <1>4 DEF ModemTyped, CallRecord
<1> QED
  BY <1>7, <1>8, <1>9, <1>10, <1>11

(* What a call whose write fails at once leaves behind.                    *)
LEMMA CallFails ==
    ASSUME ModemTyped, NEW c \in Callers, SendMyriotaFails(c)
    PROVE  /\ modem' = [ready |-> FALSE, response |-> 0,
                       reading |-> modem.reading, writer |-> modem.writer,
                       line |-> modem.line, issued |-> modem.issued + 1]
           /\ call[c].pc = "idle"
           /\ call' \in [Callers -> CallRecord]
           /\ call'[c] = NoCall
           /\ \A d \in Callers \ {c} :
                /\ call'[d].pc = call[d].pc
                /\ call'[d].id = call[d].id
                /\ ~call'[d].alone
<1>1. modem \in ModemRecord /\ call \in [Callers -> CallRecord]
  BY DEF ModemTyped
<1>2. modem' = [ready |-> FALSE, response |-> 0, reading |-> modem.reading,
                writer |-> modem.writer, line |-> modem.line,
                issued |-> modem.issued + 1]
  BY <1>1 DEF SendMyriotaFails, PreparedFor, ModemRecord
<1>3. call' = [Called(c, "idle") EXCEPT ![c] = NoCall] /\ call[c].pc = "idle"
  BY DEF SendMyriotaFails
<1>4. call'[c] = NoCall
  BY <1>3 DEF Called
<1>5. \A d \in Callers \ {c} : call'[d] = [call[d] EXCEPT !.alone = FALSE]
  BY <1>3 DEF Called
<1>6. \A d \in Callers \ {c} :
        /\ call'[d] \in CallRecord
        /\ call'[d].pc = call[d].pc /\ call'[d].id = call[d].id
        /\ ~call'[d].alone
  BY <1>1, <1>5 DEF CallRecord
<1>7. NoCall \in CallRecord
  BY DEF NoCall, CallRecord, CallStates
<1>8. call' = [d \in Callers |-> call'[d]]
  BY <1>3 DEF Called
<1>9. \A d \in Callers : call'[d] \in CallRecord
  BY <1>4, <1>6, <1>7
<1>10. call' \in [Callers -> CallRecord]
  BY <1>8, <1>9
<1> QED
  BY <1>2, <1>3, <1>4, <1>6, <1>10

(* The exchange with the modem stays typed.                                *)
LEMMA ModemTypedStep ==
    ASSUME ModemTyped, ModemStep
    PROVE  ModemTyped'
<1>1. /\ modem \in ModemRecord /\ call \in [Callers -> CallRecord]
      /\ Numbered /\ WriterHolds
  BY DEF ModemTyped
<1>2. NoCaller \notin Callers /\ NoCall \in CallRecord
  BY ApplicationAssumption DEF ApplicationAssumption, NoCall, CallRecord,
                              CallStates
<1>3. ASSUME NEW c \in Callers, BeginLoRaWAN(c)
      PROVE  ModemTyped'
  <2>1. call' = Called(c, "write")
    BY <1>3 DEF BeginLoRaWAN
  <2>2. modem' = [ready |-> FALSE, response |-> 0, reading |-> modem.reading,
                  writer |-> c, line |-> modem.line,
                  issued |-> modem.issued + 1]
    BY <1>1, <1>3 DEF BeginLoRaWAN, PreparedFor, ModemRecord
  <2>3. modem' \in ModemRecord
    BY <1>1, <2>2 DEF ModemRecord
  <2>4. Numbered'
    <3>1. modem.issued \in Nat /\ modem.line \in Seq(Nat)
      BY <1>1 DEF ModemRecord
    <3>2. \A i \in DOMAIN modem'.line : modem'.line[i] \in 1 .. modem'.issued
      BY <1>1, <2>2, <3>1 DEF Numbered
    <3>3. modem'.issued = modem.issued + 1
      BY <2>2
    <3>4. ASSUME NEW d \in Callers
          PROVE  /\ call'[d].id <= modem'.issued
                 /\ call'[d].pc = "write" => call'[d].id >= 1
      <4>1. CASE d = c
        BY <2>1, <3>1, <3>3, <4>1, CallBegins
      <4>2. CASE d # c
        <5>1. call'[d].id = call[d].id /\ call'[d].pc = call[d].pc
          BY <2>1, <4>2, CallBegins
        <5>2. call[d].id \in Nat
          BY <1>1 DEF CallRecord
        <5> QED
          BY <1>1, <3>1, <3>3, <5>1, <5>2 DEF Numbered
      <4> QED
        BY <4>1, <4>2
    <3> QED
      BY <3>2, <3>4 DEF Numbered
  <2>5. WriterHolds'
    BY <1>1, <1>2, <1>3, <2>1, <2>2, CallBegins
    DEF ModemTyped, BeginLoRaWAN, WriterHolds, ModemRecord
  <2> QED
    BY <2>1, <2>3, <2>4, <2>5, CallBegins DEF ModemTyped
<1>4. ASSUME NEW c \in Callers, SendMyriota(c)
      PROVE  ModemTyped'
  <2>1. call' = Called(c, "wait") /\ call[c].pc = "idle"
    BY <1>4 DEF SendMyriota
  <2>2. modem' = [ready |-> FALSE, response |-> 0, reading |-> modem.reading,
                  writer |-> modem.writer,
                  line |-> Append(modem.line, modem.issued + 1),
                  issued |-> modem.issued + 1]
    BY <1>1, <1>4 DEF SendMyriota, PreparedFor, ModemRecord
  <2>3. modem' \in ModemRecord
    BY <1>1, <2>2 DEF ModemRecord
  <2>4. Numbered'
    <3>1. modem.issued \in Nat /\ modem.line \in Seq(Nat)
      BY <1>1 DEF ModemRecord
    <3>2. \A i \in DOMAIN modem'.line : modem'.line[i] \in 1 .. modem'.issued
      BY <1>1, <2>2, <3>1 DEF Numbered
    <3>3. modem'.issued = modem.issued + 1
      BY <2>2
    <3>4. ASSUME NEW d \in Callers
          PROVE  /\ call'[d].id <= modem'.issued
                 /\ call'[d].pc = "write" => call'[d].id >= 1
      <4>1. CASE d = c
        BY <2>1, <3>1, <3>3, <4>1, CallBegins
      <4>2. CASE d # c
        <5>1. call'[d].id = call[d].id /\ call'[d].pc = call[d].pc
          BY <2>1, <4>2, CallBegins
        <5>2. call[d].id \in Nat
          BY <1>1 DEF CallRecord
        <5> QED
          BY <1>1, <3>1, <3>3, <5>1, <5>2 DEF Numbered
      <4> QED
        BY <4>1, <4>2
    <3> QED
      BY <3>2, <3>4 DEF Numbered
  <2>5. WriterHolds'
    BY <1>1, <2>1, <2>2, CallBegins DEF ModemTyped, WriterHolds, ModemRecord
  <2> QED
    BY <2>1, <2>3, <2>4, <2>5, CallBegins DEF ModemTyped
<1>5. ASSUME NEW c \in Callers, WriteCommand(c)
      PROVE  ModemTyped'
  <2>1. /\ modem' = [modem EXCEPT !.line = Append(modem.line, call[c].id),
                                  !.writer = NoCaller]
        /\ call' = [call EXCEPT ![c] = [call[c] EXCEPT !.pc = "written"]]
        /\ call[c].pc = "write"
    BY <1>1, <1>5 DEF WriteCommand, ModemRecord, CallRecord
  <2>2. modem' \in ModemRecord /\ call' \in [Callers -> CallRecord]
    <3>1. Append(modem.line, call[c].id) \in Seq(Nat)
      BY <1>1 DEF ModemRecord, CallRecord
    <3>2. [call[c] EXCEPT !.pc = "written"] \in CallRecord
      BY <1>1 DEF CallRecord, CallStates
    <3> QED
      BY <1>1, <2>1, <3>1, <3>2 DEF ModemRecord
  <2>3. call[c].id \in 1 .. modem.issued
    BY <1>1, <2>1 DEF Numbered, CallRecord, ModemRecord
  <2>4. Numbered'
    BY <1>1, <2>1, <2>3 DEF Numbered, ModemRecord, CallRecord
  <2>5. WriterHolds'
    BY <1>1, <1>2, <2>1 DEF WriterHolds, ModemRecord, CallRecord
  <2> QED
    BY <2>2, <2>4, <2>5 DEF ModemTyped
<1>6. ASSUME NEW c \in Callers, StartWaiting(c)
      PROVE  ModemTyped'
  <2>1. /\ call' = [call EXCEPT ![c] = [call[c] EXCEPT !.pc = "wait"]]
        /\ call[c].pc = "written" /\ UNCHANGED modem
    BY <1>1, <1>6 DEF StartWaiting, CallRecord
  <2>2. call' \in [Callers -> CallRecord]
    BY <1>1, <2>1 DEF CallRecord, CallStates
  <2> QED
    BY <1>1, <2>1, <2>2 DEF ModemTyped, Numbered, WriterHolds, CallRecord
<1>12. ASSUME NEW c \in Callers, WriteFails(c)
       PROVE  ModemTyped'
  <2>1. /\ modem' = [modem EXCEPT !.writer = NoCaller]
        /\ call' = [call EXCEPT ![c] = NoCall] /\ call[c].pc = "write"
    BY <1>12 DEF WriteFails, Leave
  <2>2. modem' \in ModemRecord /\ call' \in [Callers -> CallRecord]
    BY <1>1, <1>2, <2>1 DEF ModemRecord
  <2>3. Numbered'
    BY <1>1, <2>1 DEF Numbered, NoCall, ModemRecord
  <2>4. WriterHolds'
    BY <1>1, <1>2, <2>1 DEF WriterHolds, NoCall, ModemRecord, CallRecord
  <2> QED
    BY <2>2, <2>3, <2>4 DEF ModemTyped
<1>13. ASSUME NEW c \in Callers, SendMyriotaFails(c)
       PROVE  ModemTyped'
  <2>1. modem.issued \in Nat /\ modem.issued + 1 \in Nat
    BY <1>1 DEF ModemRecord
  <2>2. modem' \in ModemRecord
    <3>1. modem' = [ready |-> FALSE, response |-> 0, reading |-> modem.reading,
                    writer |-> modem.writer, line |-> modem.line,
                    issued |-> modem.issued + 1]
      BY <1>13, CallFails
    <3> QED
      BY <1>1, <2>1, <3>1 DEF ModemRecord
  <2>3. modem'.line = modem.line /\ modem'.issued = modem.issued + 1
        /\ modem'.writer = modem.writer
    BY <1>13, CallFails
  <2>4. \A d \in Callers : call[d].id \in Nat /\ call[d].id <= modem.issued
    BY <1>1 DEF CallRecord, Numbered
  <2>5. \A d \in Callers : /\ call'[d].id <= modem'.issued
                           /\ call'[d].pc = call[d].pc
                           /\ call'[d].pc = "write" => call'[d].id >= 1
    BY <1>1, <1>13, <2>1, <2>3, <2>4, CallFails DEF NoCall, Numbered
  <2>6. Numbered'
    BY <1>1, <2>1, <2>3, <2>5 DEF Numbered
  <2>7. WriterHolds'
    BY <1>1, <2>3, <2>5 DEF WriterHolds
  <2> QED
    BY <1>13, <2>2, <2>6, <2>7, CallFails DEF ModemTyped
<1>7. ASSUME NEW c \in Callers, ReturnResponse(c) \/ ReturnTimeout(c)
      PROVE  ModemTyped'
  <2>1. call' = [call EXCEPT ![c] = NoCall] /\ UNCHANGED modem
        /\ call[c].pc = "wait"
    BY <1>7 DEF ReturnResponse, ReturnTimeout, Answered, Leave
  <2> QED
    BY <1>1, <1>2, <2>1 DEF ModemTyped, Numbered, WriterHolds, NoCall,
                            ModemRecord
<1>8. CASE ReaderTakesStatus
  <2>1. /\ modem' = [modem EXCEPT !.ready = TRUE, !.response = Head(modem.line),
                                  !.line = Tail(modem.line)]
        /\ modem.line # <<>>
    BY <1>1, <1>8 DEF ReaderTakesStatus, ModemRecord
  <2>2. modem' \in ModemRecord
    <3>1. Head(modem.line) \in Nat /\ Tail(modem.line) \in Seq(Nat)
      BY <1>1, <2>1 DEF ModemRecord
    <3> QED
      BY <1>1, <2>1, <3>1 DEF ModemRecord
  <2>3. ASSUME NEW c \in Callers
        PROVE  /\ call'[c] \in CallRecord
               /\ call'[c].pc = call[c].pc /\ call'[c].id = call[c].id
    BY <1>1, <1>8 DEF ReaderTakesStatus, CallRecord
  <2>4. call' \in [Callers -> CallRecord]
    BY <1>8, <2>3 DEF ReaderTakesStatus
  <2>5. modem'.issued = modem.issued /\ modem'.line = Tail(modem.line)
        /\ modem'.writer = modem.writer
    BY <1>1, <2>1 DEF ModemRecord
  <2>6. \A i \in DOMAIN modem'.line : modem'.line[i] \in 1 .. modem'.issued
    BY <1>1, <2>1, <2>5 DEF Numbered, ModemRecord
  <2>7. Numbered' /\ WriterHolds'
    BY <1>1, <2>3, <2>5, <2>6 DEF Numbered, WriterHolds
  <2> QED
    BY <2>2, <2>4, <2>7 DEF ModemTyped
<1>9. CASE ModemLoses
  <2>1. /\ modem' = [modem EXCEPT !.line = Tail(modem.line)]
        /\ modem.line # <<>> /\ UNCHANGED call
    BY <1>1, <1>9 DEF ModemLoses, ModemRecord
  <2>2. modem' \in ModemRecord
    <3>1. Tail(modem.line) \in Seq(Nat)
      BY <1>1, <2>1 DEF ModemRecord
    <3> QED
      BY <1>1, <2>1, <3>1 DEF ModemRecord
  <2>3. \A i \in DOMAIN modem'.line : modem'.line[i] \in 1 .. modem'.issued
    BY <1>1, <2>1 DEF Numbered, ModemRecord
  <2> QED
    BY <1>1, <2>1, <2>2, <2>3 DEF ModemTyped, Numbered, WriterHolds,
                                  ModemRecord
<1>10. CASE StopReader
  BY <1>1, <1>10 DEF StopReader, ModemTyped, Numbered, WriterHolds, ModemRecord
<1>11. CASE UNCHANGED modemVars
  BY <1>11 DEF modemVars, ModemTyped, Numbered, WriterHolds
<1> QED
  BY <1>3, <1>4, <1>5, <1>6, <1>7, <1>8, <1>9, <1>10, <1>11, <1>12, <1>13
  DEF ModemStep, Returning

(* No answer is left in the flag for a call from before it began.          *)
LEMMA HeardStep ==
    ASSUME ModemTyped, HeardOfIt, ModemStep
    PROVE  HeardOfIt'
<1>1. modem \in ModemRecord /\ call \in [Callers -> CallRecord]
  BY DEF ModemTyped
<1>2. ASSUME NEW c \in Callers,
             BeginLoRaWAN(c) \/ SendMyriota(c) \/ SendMyriotaFails(c)
      PROVE  HeardOfIt'
  <2>1. modem'.ready = FALSE
    BY <1>1, <1>2 DEF BeginLoRaWAN, SendMyriota, SendMyriotaFails, PreparedFor,
                      ModemRecord
  <2> QED
    BY <2>1 DEF HeardOfIt
<1>3. ASSUME NEW c \in Callers, Returning(c)
      PROVE  HeardOfIt'
  <2>1. modem'.ready = modem.ready
    BY <1>1, <1>3 DEF Returning, WriteCommand, WriteFails, StartWaiting,
                      ReturnResponse, ReturnTimeout, Leave, ModemRecord
  <2>2. ASSUME NEW d \in Callers, call'[d].pc # "idle"
        PROVE  call[d].pc # "idle" /\ call'[d].heard = call[d].heard
    BY <1>1, <1>3, <2>2
    DEF Returning, WriteCommand, WriteFails, StartWaiting, ReturnResponse,
        ReturnTimeout, Answered, Leave, NoCall, CallRecord
  <2> QED
    BY <2>1, <2>2 DEF HeardOfIt
<1>4. CASE ReaderTakesStatus
  <2>1. ASSUME NEW c \in Callers, call'[c].pc # "idle"
        PROVE  call'[c].heard
    BY <1>1, <1>4, <2>1 DEF ReaderTakesStatus, Calling, CallRecord
  <2> QED
    BY <2>1 DEF HeardOfIt
<1>5. CASE ModemLoses \/ StopReader \/ UNCHANGED modemVars
  <2>1. modem'.ready = modem.ready /\ UNCHANGED call
    BY <1>1, <1>5 DEF ModemLoses, StopReader, modemVars, ModemRecord
  <2> QED
    BY <2>1 DEF HeardOfIt
<1> QED
  BY <1>2, <1>3, <1>4, <1>5 DEF ModemStep

(* A call that nobody overlaps keeps the line to itself.                   *)
LEMMA UndividedStep ==
    ASSUME ModemTyped, Undivided, ModemStep
    PROVE  Undivided'
<1>1. modem \in ModemRecord /\ call \in [Callers -> CallRecord]
  BY DEF ModemTyped
<1> SUFFICES ASSUME NEW c \in Callers, call'[c].pc # "idle", call'[c].alone
             PROVE  AloneWith(c)'
  BY DEF Undivided
<1>2. ASSUME NEW b \in Callers, BeginLoRaWAN(b)
      PROVE  AloneWith(c)'
  <2>1. call' = Called(b, "write") /\ modem'.line = modem.line
    BY <1>1, <1>2 DEF BeginLoRaWAN, PreparedFor, ModemRecord
  <2>2. c = b
    BY <2>1, CallBegins
  <2> QED
    BY <2>1, <2>2, CallBegins DEF AloneWith
<1>3. ASSUME NEW b \in Callers, SendMyriota(b)
      PROVE  AloneWith(c)'
  <2>1. /\ call' = Called(b, "wait")
        /\ modem'.line = Append(modem.line, modem.issued + 1)
    BY <1>1, <1>3 DEF SendMyriota, PreparedFor, ModemRecord
  <2>2. c = b
    BY <2>1, CallBegins
  <2>3. modem.line = <<>> /\ call'[c].id = modem.issued + 1
    BY <2>1, <2>2, CallBegins
  <2>4. modem'.line = <<call'[c].id>>
    BY <2>1, <2>3
  <2>5. call'[c].pc = "wait" /\ ~call'[c].answered
    BY <2>1, <2>2, CallBegins
  <2>6. \A d \in Callers \ {c} : call'[d].pc = "idle"
    BY <2>1, <2>2, CallBegins
  <2> QED
    BY <2>4, <2>5, <2>6 DEF AloneWith
<1>4. ASSUME NEW b \in Callers, WriteCommand(b)
      PROVE  AloneWith(c)'
  <2>1. /\ modem'.line = Append(modem.line, call[b].id)
        /\ modem'.ready = modem.ready /\ modem'.response = modem.response
        /\ call' = [call EXCEPT ![b] = [call[b] EXCEPT !.pc = "written"]]
        /\ call[b].pc = "write"
    BY <1>1, <1>4 DEF WriteCommand, ModemRecord, CallRecord
  <2>2. call[c].pc # "idle" /\ call[c].alone
    BY <1>1, <2>1 DEF CallRecord
  <2>3. AloneWith(c)
    BY <2>2 DEF Undivided
  <2>4. c = b
    BY <2>1, <2>3 DEF AloneWith
  <2>5. modem.line = <<>> /\ ~call[c].answered
    BY <2>1, <2>3, <2>4 DEF AloneWith
  <2>6. /\ call'[c].id = call[c].id /\ call'[c].pc = "written"
        /\ call'[c].answered = call[c].answered
    BY <1>1, <2>1, <2>4 DEF CallRecord
  <2>7. modem'.line = <<call'[c].id>>
    BY <2>1, <2>4, <2>5, <2>6
  <2>8. \A d \in Callers \ {c} : call'[d].pc = "idle"
    BY <1>1, <2>1, <2>3, <2>4 DEF AloneWith
  <2> QED
    BY <2>5, <2>6, <2>7, <2>8 DEF AloneWith
<1>5. ASSUME NEW b \in Callers, StartWaiting(b)
      PROVE  AloneWith(c)'
  <2>1. /\ call' = [call EXCEPT ![b] = [call[b] EXCEPT !.pc = "wait"]]
        /\ call[b].pc = "written" /\ UNCHANGED modem
    BY <1>1, <1>5 DEF StartWaiting, CallRecord
  <2>2. call[c].pc # "idle" /\ call[c].alone
    BY <1>1, <2>1 DEF CallRecord
  <2>3. AloneWith(c)
    BY <2>2 DEF Undivided
  <2>4. c = b
    BY <2>1, <2>3 DEF AloneWith
  <2>5. /\ call'[c].id = call[c].id /\ call'[c].pc = "wait"
        /\ call'[c].answered = call[c].answered
    BY <1>1, <2>1, <2>4 DEF CallRecord
  <2>6. \A d \in Callers \ {c} : call'[d].pc = "idle"
    BY <1>1, <2>1, <2>3, <2>4 DEF AloneWith
  <2> QED
    BY <2>1, <2>3, <2>5, <2>6 DEF AloneWith
<1>6. ASSUME NEW b \in Callers,
             WriteFails(b) \/ ReturnResponse(b) \/ ReturnTimeout(b)
      PROVE  AloneWith(c)'
  <2>1. /\ call' = [call EXCEPT ![b] = NoCall] /\ modem'.line = modem.line
        /\ modem'.ready = modem.ready /\ modem'.response = modem.response
    BY <1>1, <1>6 DEF WriteFails, ReturnResponse, ReturnTimeout, Leave,
                      ModemRecord
  <2>2. c # b /\ call'[c] = call[c]
    BY <1>1, <2>1 DEF NoCall
  <2>3. AloneWith(c)
    BY <2>2 DEF Undivided
  <2> QED
    BY <1>1, <2>1, <2>2, <2>3 DEF AloneWith, NoCall
<1>7. CASE ReaderTakesStatus
  <2>1. /\ modem.line # <<>> /\ modem'.ready = TRUE
        /\ modem'.response = Head(modem.line)
        /\ modem'.line = Tail(modem.line)
    BY <1>1, <1>7 DEF ReaderTakesStatus, ModemRecord
  <2>2. \A d \in Callers : /\ call'[d].pc = call[d].pc
                           /\ call'[d].id = call[d].id
                           /\ call'[d].alone = call[d].alone
    BY <1>1, <1>7 DEF ReaderTakesStatus, CallRecord
  <2>3. AloneWith(c)
    BY <2>2 DEF Undivided
  <2>4. modem.line = <<call[c].id>> /\ call[c].pc # "write"
    BY <2>1, <2>3 DEF AloneWith
  <2>5. modem'.line = <<>> /\ modem'.response = call'[c].id
    BY <2>1, <2>2, <2>4
  <2> QED
    BY <2>1, <2>2, <2>3, <2>4, <2>5 DEF AloneWith
<1>8. CASE ModemLoses
  <2>1. /\ modem.line # <<>> /\ UNCHANGED call
        /\ modem'.line = Tail(modem.line)
    BY <1>1, <1>8 DEF ModemLoses, ModemRecord
  <2>2. AloneWith(c)
    BY <2>1 DEF Undivided
  <2>3. modem.line = <<call[c].id>>
    BY <2>1, <2>2 DEF AloneWith
  <2>4. modem'.line = <<>>
    BY <2>1, <2>3
  <2> QED
    BY <2>1, <2>2, <2>4 DEF AloneWith
<1>10. ASSUME NEW b \in Callers, SendMyriotaFails(b)
       PROVE  AloneWith(c)'
  BY <1>10, CallFails DEF NoCall
<1>9. CASE StopReader \/ UNCHANGED modemVars
  <2>1. /\ UNCHANGED call /\ modem'.line = modem.line
        /\ modem'.ready = modem.ready /\ modem'.response = modem.response
    BY <1>1, <1>9 DEF StopReader, modemVars, ModemRecord
  <2> QED
    BY <2>1 DEF Undivided, AloneWith
<1> QED
  BY <1>2, <1>3, <1>4, <1>5, <1>6, <1>7, <1>8, <1>9, <1>10
  DEF ModemStep, Returning

LEMMA ModemInitially == Init => ModemInv
<1> SUFFICES ASSUME Init PROVE ModemInv
  OBVIOUS
<1>1. /\ modem = [ready |-> FALSE, response |-> 0, writer |-> NoCaller,
                  reading |-> TRUE, line |-> <<>>, issued |-> 0]
      /\ call = [c \in Callers |-> NoCall]
  BY DEF Init, ModemInit
<1>2. NoCaller \notin Callers
  BY ApplicationAssumption DEF ApplicationAssumption
<1>3. modem \in ModemRecord /\ call \in [Callers -> CallRecord]
  BY <1>1 DEF ModemRecord, CallRecord, CallStates, NoCall
<1>4. Numbered
  BY <1>1 DEF Numbered, NoCall
<1> QED
  BY <1>1, <1>2, <1>3, <1>4
  DEF ModemInv, ModemTyped, WriterHolds, HeardOfIt, Undivided, NoCall

LEMMA ModemInvariance == Spec => []ModemInv
<1>1. ModemInv /\ [Next]_vars => ModemInv'
  BY ModemSteps, ModemTypedStep, HeardStep, UndividedStep DEF ModemInv
<1> QED
  BY <1>1, ModemInitially, PTL DEF Spec

(* No answer is left for a call from before it began: what it returns was  *)
(* read after its reset of the flag, with any number of threads in         *)
(* send_command().  Whether the command was written by then it says not.   *)
THEOREM FreshAnswers == Spec => []AnswersFresh
<1>1. ModemInv => AnswersFresh
  BY DEF ModemInv, HeardOfIt, AnswersFresh, Answered
<1> QED
  BY <1>1, ModemInvariance, PTL

(* A thread alone in send_command(), with no command outstanding from      *)
(* before, returns the answer of its own command if that came in time.     *)
THEOREM OwnAnswers == Spec => []AloneGetsOwn
<1>1. ModemInv => AloneGetsOwn
  BY DEF ModemInv, Undivided, AloneWith, AloneGetsOwn
<1> QED
  BY <1>1, ModemInvariance, PTL

-----------------------------------------------------------------------------
(* The backhaul core and the orchestrator.                                 *)

BackhaulRecord ==
    [running : BOOLEAN, stopfd : BOOLEAN, open : BOOLEAN,
     rx : RxStates, frame : Seq(Frames),
     tx : TxStates, msg : Seq(Packets), queue : Seq(Packets)]

NetRecord == [in : Seq(Frames), out : Seq(Packets), refused : Seq(Packets)]

(* A thread has a frame, or a packet, in hand only while it hands it over. *)
BackhaulTyped ==
    /\ bh \in BackhaulRecord
    /\ net \in NetRecord
    /\ crashed \in BOOLEAN
    /\ IF bh.rx = "forward" THEN Len(bh.frame) = 1 ELSE bh.frame = <<>>
    /\ IF bh.tx = "send" THEN Len(bh.msg) = 1 ELSE bh.msg = <<>>
    /\ bh.rx = "recv" => net.in # <<>>

(* The places of the main thread before the threads of the backhaul run.   *)
Opening == {"registerBackhaul", "registerSchc", "startBackhaul"}

Unstarted == mainPc \in Opening => bh.rx = "none" /\ bh.tx = "none"

BackhaulInv == BackhaulTyped /\ Unstarted

(* A step that leaves the backhaul alone, if it does not end the program.  *)
Elsewhere ==
    /\ UNCHANGED <<bh, net>>
    /\ crashed' \in {crashed, TRUE}
    /\ mainPc' \in Opening => mainPc \in Opening

BackhaulStarts ==
    mainPc = "startBackhaul" /\ mainPc' = "startStack" /\ BackhaulStart

BackhaulStops ==
    /\ StopRunning \/ StopSignal \/ StopNotifyTx \/ StopClose
    /\ mainPc' \notin Opening

BackhaulStep ==
    \/ BackhaulRx \/ BackhaulRxFails \/ BackhaulTx
    \/ InterfaceReceives \/ SessionHandsOver
    \/ BackhaulStarts \/ BackhaulStops
    \/ Elsewhere

(* A step of the daemon, as the backhaul sees it.                          *)
LEMMA BackhaulSteps == [Next]_vars => BackhaulStep
<1> SUFFICES ASSUME [Next]_vars PROVE BackhaulStep
  OBVIOUS
<1>1. CASE UNCHANGED vars
  BY <1>1 DEF vars, BackhaulStep, Elsewhere
<1>2. CASE BackhaulRx \/ BackhaulRxFails \/ BackhaulTx
  BY <1>2 DEF BackhaulStep
<1>3. CASE Outside
  BY <1>3 DEF Outside, SessionSends, BrokerBrings, ModemBringsBadLine, Throw,
              backhaulVars, BackhaulStep, Elsewhere
<1>4. CASE SchedulerRuns \/ ClockRuns \/ ModemRuns
  BY <1>4 DEF SchedulerRuns, ClockRuns, OnlyDelay, ModemRuns, backhaulVars,
              BackhaulStep, Elsewhere
<1>5. CASE \E c \in Callers : CallReturns(c)
  BY <1>5 DEF CallReturns, backhaulVars, BackhaulStep, Elsewhere
<1>6. CASE MainRuns
  <2>1. CASE Registers
    BY <2>1 DEF Registers, Register, MainGoes, backhaulVars, Opening,
                BackhaulStep, Elsewhere
  <2>2. CASE Starts
    BY <2>2 DEF Starts, OnlyMain, OnlyStack, MainGoes, backhaulVars, Opening,
                BackhaulStep, BackhaulStarts, Elsewhere
  <2>3. CASE StopsBackhaul
    BY <2>3 DEF StopsBackhaul, StopReturns, OnlyMain, MainGoes, backhaulVars,
                Opening, BackhaulStep, BackhaulStops, Elsewhere
  <2>4. CASE StopsCore
    BY <2>4 DEF StopsCore, StopReturns, OnlyMain, MainGoes, backhaulVars,
                Opening, BackhaulStep, Elsewhere
  <2>5. CASE DestroysStack
    BY <2>5 DEF DestroysStack, OnlyMain, OnlyStack, MainGoes, backhaulVars,
                Opening, BackhaulStep, Elsewhere
  <2> QED
    BY <1>6, <2>1, <2>2, <2>3, <2>4, <2>5 DEF MainRuns
<1>7. CASE Signal \/ StopFails
  BY <1>7 DEF Signal, StopFails, Throw, OnlyMain, MainGoes, backhaulVars,
              Opening, BackhaulStep, Elsewhere
<1> QED
  BY <1>1, <1>2, <1>3, <1>4, <1>5, <1>6, <1>7 DEF Next

(* What happens from outside is counted.                                   *)
Counted == events \in Nat

LEMMA CountedStep == Counted /\ [Next]_vars => Counted'
<1> SUFFICES ASSUME Counted, [Next]_vars PROVE Counted'
  OBVIOUS
<1>1. CASE UNCHANGED events
  BY <1>1 DEF Counted
<1>2. CASE Event
  BY <1>2 DEF Counted, Event
<1>3. BackhaulRx \/ BackhaulRxFails \/ BackhaulTx \/ Outside \/ SchedulerRuns
        \/ ClockRuns \/ ModemRuns \/ (\E c \in Callers : CallReturns(c))
        \/ MainRuns \/ StopFails
      => UNCHANGED events \/ Event
  BY DEF BackhaulRx, BackhaulRxFails, BackhaulTx, OnlyBackhaul, Outside,
         InterfaceReceives, SessionHandsOver, SessionSends, BrokerBrings,
         ModemBringsBadLine, SchedulerRuns, ClockRuns, OnlyDelay, ModemRuns,
         CallReturns, MainRuns, StopFails
<1> QED
  BY <1>1, <1>2, <1>3 DEF Next, vars

(* A thread of the backhaul knows what it has in hand.                     *)
LEMMA BackhaulTypedStep ==
    ASSUME BackhaulTyped, Unstarted, Counted, BackhaulStep
    PROVE  BackhaulTyped'
<1>1. /\ bh \in BackhaulRecord
      /\ net \in NetRecord
      /\ crashed \in BOOLEAN
      /\ IF bh.rx = "forward" THEN Len(bh.frame) = 1 ELSE bh.frame = <<>>
      /\ IF bh.tx = "send" THEN Len(bh.msg) = 1 ELSE bh.msg = <<>>
      /\ bh.rx = "recv" => net.in # <<>>
  BY DEF BackhaulTyped
<1>2. \A pc \in TxStates : TxNotified(pc) \in TxStates
                           /\ (TxNotified(pc) = "send" <=> pc = "send")
  BY DEF TxNotified, TxStates
<1> USE DEF BackhaulTyped, BackhaulRecord, NetRecord
<1>3. CASE RxPoll
  BY <1>1, <1>3 DEF RxPoll, RxStates
<1>4. CASE RxRecvStopped
  BY <1>1, <1>4 DEF RxRecvStopped, RxStates
<1>5. CASE RxDrop(conf.tunnel)
  <2>1. /\ bh' = [bh EXCEPT !.rx = "poll"] /\ bh.rx = "recv"
        /\ net' = [net EXCEPT !.in = Tail(net.in)] /\ crashed' = crashed
    BY <1>1, <1>5 DEF RxDrop
  <2>2. Tail(net.in) \in Seq(Frames)
    BY <1>1, <2>1
  <2> QED
    BY <1>1, <2>1, <2>2 DEF RxStates
<1>6. CASE RxTake(conf.tunnel)
  <2>1. /\ bh' = [bh EXCEPT !.rx = "forward", !.frame = <<Head(net.in)>>]
        /\ net' = [net EXCEPT !.in = Tail(net.in)] /\ crashed' = crashed
        /\ bh.rx = "recv"
    BY <1>1, <1>6 DEF RxTake
  <2>2. Tail(net.in) \in Seq(Frames) /\ <<Head(net.in)>> \in Seq(Frames)
        /\ Len(<<Head(net.in)>>) = 1
    BY <1>1, <2>1
  <2> QED
    BY <1>1, <2>1, <2>2 DEF RxStates
<1>7. CASE RxThrow \/ (Throw /\ UNCHANGED <<bh, net>>)
  <2>1. UNCHANGED <<bh, net>> /\ crashed' = TRUE
    BY <1>7 DEF RxThrow, Throw
  <2>2. crashed' \in BOOLEAN
    BY <2>1
  <2> QED
    BY <1>1, <2>1, <2>2
<1>8. CASE RxForward
  <2>1. <<>> \in Seq(Frames) /\ "poll" \in RxStates
    BY DEF RxStates
  <2>2. bh' = [bh EXCEPT !.rx = "poll", !.frame = <<>>] /\ UNCHANGED <<net, crashed>>
    BY <1>8 DEF RxForward
  <2> QED
    BY <1>1, <2>1, <2>2
<1>9. CASE BackhaulTx
  <2>1. CASE TxTop
    BY <1>1, <2>1 DEF TxTop, TxStates
  <2>2. CASE TxTake
    <3>1. /\ bh' = [bh EXCEPT !.tx = "send", !.msg = <<Head(bh.queue)>>,
                              !.queue = Tail(bh.queue)]
          /\ bh.queue # <<>> /\ UNCHANGED <<net, crashed>>
      BY <1>1, <2>2 DEF TxTake
    <3>2. Tail(bh.queue) \in Seq(Packets) /\ <<Head(bh.queue)>> \in Seq(Packets)
          /\ Len(<<Head(bh.queue)>>) = 1
      BY <1>1, <3>1
    <3> QED
      BY <1>1, <3>1, <3>2 DEF TxStates
  <2>3. CASE TxFindNothing
    BY <1>1, <2>3 DEF TxFindNothing, TxStates
  <2>4. CASE TxSleep
    BY <1>1, <2>4 DEF TxSleep, TxStates
  <2>5. CASE TxSend
    <3>1. /\ \/ net' = [net EXCEPT !.out = net.out \o bh.msg]
             \/ net' = [net EXCEPT !.refused = net.refused \o bh.msg]
          /\ bh' = [bh EXCEPT !.tx = "top", !.msg = <<>>]
          /\ UNCHANGED crashed
      BY <1>1, <2>5 DEF TxSend
    <3>2. /\ net.out \o bh.msg \in Seq(Packets)
          /\ net.refused \o bh.msg \in Seq(Packets)
      BY <1>1
    <3>3. net' \in NetRecord /\ net'.in = net.in
      BY <1>1, <3>1, <3>2
    <3>4. <<>> \in Seq(Packets) /\ "top" \in TxStates
      BY DEF TxStates
    <3> QED
      BY <1>1, <3>1, <3>3, <3>4
  <2> QED
    BY <1>9, <2>1, <2>2, <2>3, <2>4, <2>5 DEF BackhaulTx
<1>10. CASE BackhaulRx
  BY <1>3, <1>4, <1>5, <1>6, <1>7, <1>8, <1>10 DEF BackhaulRx, HandOver, Throw
<1>16. CASE BackhaulRxFails
  BY <1>1, <1>16 DEF BackhaulRxFails, RxFails, RxStates
<1>11. CASE InterfaceReceives
  <2>1. PICK f \in Frames : FrameArrives(f)
    BY <1>11 DEF InterfaceReceives
  <2>2. net' = [net EXCEPT !.in = Append(net.in, f)] /\ UNCHANGED <<bh, crashed>>
    BY <1>1, <2>1 DEF FrameArrives
  <2>3. net.in \in Seq(Frames)
    BY <1>1
  <2>4. Append(net.in, f) \in Seq(Frames) /\ Len(Append(net.in, f)) # 0
    BY <2>3
  <2>5. net'.in = Append(net.in, f)
    BY <1>1, <2>2
  <2>6. net'.in # <<>>
    <3>1. Len(net'.in) # 0
      BY <2>4, <2>5
    <3>2. Len(<<>>) = 0
      OBVIOUS
    <3> QED
      BY <3>1, <3>2, Zenon
  <2>7. net' \in NetRecord
    BY <1>1, <2>2, <2>4
  <2> QED
    BY <1>1, <2>2, <2>6, <2>7
<1>12. CASE SessionHandsOver
  <2>1. CASE Throw
    BY <1>1, <2>1 DEF Throw
  <2>2. CASE BackhaulEnqueue(events + 1)
    <3>1. events + 1 \in Packets
      BY <1>12, ApplicationAssumption
      DEF SessionHandsOver, Event, Counted, ApplicationAssumption
    <3>2. /\ bh' = [bh EXCEPT !.queue = Append(bh.queue, events + 1),
                              !.tx = TxNotified(bh.tx)]
          /\ UNCHANGED <<net, crashed>>
      BY <1>1, <2>2 DEF BackhaulEnqueue
    <3>3. Append(bh.queue, events + 1) \in Seq(Packets)
      BY <1>1, <3>1
    <3> QED
      BY <1>1, <1>2, <3>2, <3>3
  <2> QED
    BY <1>12, <2>1, <2>2 DEF SessionHandsOver
<1>13. CASE Elsewhere
  <2>1. crashed' \in BOOLEAN
    BY <1>1, <1>13 DEF Elsewhere
  <2> QED
    BY <1>1, <1>13, <2>1 DEF Elsewhere
<1>14. CASE BackhaulStarts
  <2>1. bh.rx = "none" /\ bh.tx = "none"
    BY <1>14 DEF BackhaulStarts, Unstarted, Opening
  <2> QED
    BY <1>1, <1>14, <2>1 DEF BackhaulStarts, BackhaulStart, RxStates, TxStates
<1>15. CASE BackhaulStops
  <2>1. StopRunning => BackhaulTyped'
    BY <1>1 DEF StopRunning
  <2>2. StopSignal => BackhaulTyped'
    BY <1>1 DEF StopSignal
  <2>3. StopNotifyTx => BackhaulTyped'
    BY <1>1, <1>2 DEF StopNotifyTx
  <2>4. StopClose => BackhaulTyped'
    BY <1>1 DEF StopClose
  <2> QED
    BY <1>15, <2>1, <2>2, <2>3, <2>4 DEF BackhaulStops
<1> QED
  BY <1>9, <1>10, <1>11, <1>12, <1>13, <1>14, <1>15, <1>16 DEF BackhaulStep

(* Nothing moves in the backhaul before it is started.                     *)
LEMMA UnstartedStep ==
    ASSUME BackhaulTyped, Unstarted, BackhaulStep
    PROVE  Unstarted'
<1> SUFFICES ASSUME mainPc' \in Opening PROVE bh'.rx = "none" /\ bh'.tx = "none"
  BY DEF Unstarted
<1>1. BackhaulRx \/ BackhaulRxFails => bh.rx # "none" /\ UNCHANGED mainPc
  BY DEF BackhaulRx, BackhaulRxFails, OnlyBackhaul, RxPoll, RxRecvStopped,
         RxThrow, HandOver, RxDrop, RxTake, RxFails
<1>2. BackhaulTx => bh.tx # "none" /\ UNCHANGED mainPc
  BY DEF BackhaulTx, OnlyBackhaul, TxTop, TxTake, TxFindNothing, TxSleep, TxSend
<1>3. CASE InterfaceReceives
  BY <1>3 DEF InterfaceReceives, FrameArrives, Unstarted
<1>4. SessionHandsOver => mainPc' \notin Opening
  BY DEF SessionHandsOver, SessionsLive, Opening
<1>5. BackhaulStarts \/ BackhaulStops => mainPc' \notin Opening
  BY DEF BackhaulStarts, BackhaulStops, Opening
<1>6. CASE Elsewhere
  BY <1>6 DEF Elsewhere, Unstarted
<1> QED
  BY <1>1, <1>2, <1>3, <1>4, <1>5, <1>6 DEF BackhaulStep, Unstarted

LEMMA BackhaulInvariance == Spec => [](BackhaulInv /\ Counted)
<1>1. Init => BackhaulInv /\ Counted
  <2> SUFFICES ASSUME Init PROVE BackhaulInv /\ Counted
    OBVIOUS
  <2>1. /\ bh = [running |-> FALSE, stopfd |-> FALSE, open |-> FALSE,
                 rx |-> "none", frame |-> <<>>,
                 tx |-> "none", msg |-> <<>>, queue |-> <<>>]
        /\ net = [in |-> <<>>, out |-> <<>>, refused |-> <<>>]
        /\ crashed = FALSE /\ mainPc = "registerBackhaul" /\ events = 0
    BY DEF Init, BackhaulInit
  <2>2. <<>> \in Seq(Frames) /\ <<>> \in Seq(Packets)
    OBVIOUS
  <2>3. BackhaulTyped
    BY <2>1, <2>2 DEF BackhaulTyped, BackhaulRecord, NetRecord, RxStates,
                      TxStates
  <2> QED
    BY <2>1, <2>3 DEF BackhaulInv, Unstarted, Counted
<1>2. BackhaulInv /\ Counted /\ [Next]_vars => (BackhaulInv /\ Counted)'
  BY BackhaulSteps, BackhaulTypedStep, UnstartedStep, CountedStep
  DEF BackhaulInv
<1> QED
  BY <1>1, <1>2, PTL DEF Spec

-----------------------------------------------------------------------------
(* The queues between the threads keep the order.                          *)

(* Of what is in hand, m, and what is queued, q, the front is taken;       *)
LEMMA Taken ==
    ASSUME NEW S, NEW q \in Seq(S), q # <<>>
    PROVE  <<Head(q)>> \o Tail(q) = <<>> \o q
  OBVIOUS

(* what is in hand is passed on;                                           *)
LEMMA PassedOn ==
    ASSUME NEW S, NEW m \in Seq(S), NEW q \in Seq(S), NEW o \in Seq(S),
           Len(m) = 1
    PROVE  /\ m \o q # <<>>
           /\ <<>> \o q = Tail(m \o q)
           /\ o \o m = Append(o, Head(m \o q))
<1>1. m \o q \in Seq(S) /\ Len(m \o q) = 1 + Len(q)
  BY ConcatProperties
<1>2. m \o q # <<>>
  BY <1>1
<1>3. Tail(m \o q) = q
  BY <1>1, <1>2, SeqEqual
<1>4. Head(m \o q) = m[1] /\ m[1] \in S
  BY <1>1
<1>5. m = <<m[1]>>
  OBVIOUS
<1>6. Append(o, m[1]) = o \o <<m[1]>>
  BY <1>4, AppendIsConcat
<1> QED
  BY <1>2, <1>3, <1>4, <1>5, <1>6

(* and what is queued is lost.                                             *)
LEMMA Lost ==
    ASSUME NEW S, NEW m \in Seq(S), NEW q \in Seq(S)
    PROVE  /\ m \o <<>> = SubSeq(m \o q, 1, Len(m))
           /\ Len(m) \in 0 .. Len(m \o q)
<1>1. m \o q \in Seq(S) /\ Len(m \o q) = Len(m) + Len(q)
  BY ConcatProperties
<1> QED
  BY <1>1

(* The queue of the backhaul moves as a relay does.                        *)
LEMMA OutgoingStep ==
    ASSUME BackhaulTyped, Unstarted, Counted, BackhaulStep,
           ~crashed \/ UNCHANGED vars
    PROVE  [Outgoing!Next]_(Outgoing!vars)
<1> DEFINE closing == crashed \/ BackhaulStopping
<1>1. /\ bh \in BackhaulRecord
      /\ net \in NetRecord
      /\ IF bh.tx = "send" THEN Len(bh.msg) = 1 ELSE bh.msg = <<>>
  BY DEF BackhaulTyped
<1>2. /\ bh.msg \in Seq(Packets) /\ bh.queue \in Seq(Packets)
      /\ net.out \in Seq(Packets) /\ net.refused \in Seq(Packets)
  BY <1>1 DEF BackhaulRecord, NetRecord
<1>3. ASSUME bh'.msg \o bh'.queue = bh.msg \o bh.queue, net'.out = net.out,
             net'.refused = net.refused, closing => closing'
      PROVE  [Outgoing!Next]_(Outgoing!vars)
  <2>1. CASE closing'
    BY <1>3, <2>1 DEF Outgoing!Next, Outgoing!Close
  <2>2. CASE ~closing'
    BY <1>3, <2>2 DEF Outgoing!vars
  <2> QED
    BY <2>1, <2>2
<1>4. CASE UNCHANGED vars
  BY <1>4 DEF vars, Outgoing!vars, BackhaulStopping, backhaulVars
<1> SUFFICES ASSUME ~crashed PROVE [Outgoing!Next]_(Outgoing!vars)
  BY <1>4
<1>5. CASE BackhaulRx \/ BackhaulRxFails
  <2>1. /\ bh'.msg = bh.msg /\ bh'.queue = bh.queue
        /\ net'.out = net.out /\ net'.refused = net.refused
        /\ bh'.running = bh.running /\ bh'.rx # "none"
    BY <1>1, <1>5
    DEF BackhaulRx, BackhaulRxFails, RxPoll, RxFails, RxRecvStopped, RxThrow,
        HandOver, RxForward, Throw, RxDrop, RxTake, BackhaulRecord, NetRecord
  <2> QED
    BY <1>3, <2>1 DEF BackhaulStopping
<1>6. CASE BackhaulTx
  <2>1. bh'.rx = bh.rx /\ bh'.running = bh.running /\ UNCHANGED crashed
    BY <1>1, <1>6 DEF BackhaulTx, TxTop, TxTake, TxFindNothing, TxSleep, TxSend,
                      BackhaulRecord
  <2>2. closing' = closing
    BY <2>1 DEF BackhaulStopping
  <2>3. CASE TxTop \/ TxFindNothing \/ TxSleep
    <3>1. bh'.msg = bh.msg /\ bh'.queue = bh.queue /\ UNCHANGED net
      BY <1>1, <2>3 DEF TxTop, TxFindNothing, TxSleep, BackhaulRecord
    <3> QED
      BY <1>3, <2>2, <3>1
  <2>4. CASE TxTake
    <3>1. /\ bh'.msg = <<Head(bh.queue)>> /\ bh'.queue = Tail(bh.queue)
          /\ UNCHANGED net /\ bh.queue # <<>> /\ bh.msg = <<>>
      BY <1>1, <2>4 DEF TxTake, BackhaulRecord
    <3>2. bh'.msg \o bh'.queue = bh.msg \o bh.queue
      BY <1>2, <3>1, Taken
    <3> QED
      BY <1>3, <2>2, <3>1, <3>2
  <2>5. CASE TxSend
    <3>1. /\ bh'.msg = <<>> /\ bh'.queue = bh.queue /\ Len(bh.msg) = 1
          /\ \/ net' = [net EXCEPT !.out = net.out \o bh.msg]
             \/ net' = [net EXCEPT !.refused = net.refused \o bh.msg]
      BY <1>1, <2>5 DEF TxSend, BackhaulRecord
    <3>2. /\ bh.msg \o bh.queue # <<>>
          /\ <<>> \o bh.queue = Tail(bh.msg \o bh.queue)
          /\ net.out \o bh.msg = Append(net.out, Head(bh.msg \o bh.queue))
          /\ net.refused \o bh.msg
               = Append(net.refused, Head(bh.msg \o bh.queue))
      <4>1. Len(bh.msg) = 1
        BY <3>1
      <4>2. /\ bh.msg \o bh.queue # <<>>
            /\ <<>> \o bh.queue = Tail(bh.msg \o bh.queue)
            /\ net.out \o bh.msg = Append(net.out, Head(bh.msg \o bh.queue))
        BY <1>2, <4>1, PassedOn
      <4>3. net.refused \o bh.msg
               = Append(net.refused, Head(bh.msg \o bh.queue))
        BY <1>2, <4>1, PassedOn
      <4> QED
        BY <4>2, <4>3
    <3>3. bh'.msg \o bh'.queue = Tail(bh.msg \o bh.queue)
      BY <3>1, <3>2
    <3>4. CASE net' = [net EXCEPT !.out = net.out \o bh.msg]
      <4>1. net'.out = net.out \o bh.msg /\ net'.refused = net.refused
        BY <1>1, <3>4 DEF NetRecord
      <4>2. Outgoing!Pass
        BY <2>2, <3>2, <3>3, <4>1 DEF Outgoing!Pass
      <4> QED
        BY <4>2 DEF Outgoing!Next
    <3>5. CASE net' = [net EXCEPT !.refused = net.refused \o bh.msg]
      <4>1. net'.refused = net.refused \o bh.msg /\ net'.out = net.out
        BY <1>1, <3>5 DEF NetRecord
      <4>2. Outgoing!Refuse
        BY <2>2, <3>2, <3>3, <4>1 DEF Outgoing!Refuse
      <4> QED
        BY <4>2 DEF Outgoing!Next
    <3> QED
      BY <3>1, <3>4, <3>5
  <2> QED
    BY <1>6, <2>3, <2>4, <2>5 DEF BackhaulTx
<1>7. CASE InterfaceReceives
  <2>1. /\ UNCHANGED <<bh, crashed>>
        /\ net'.out = net.out /\ net'.refused = net.refused
    BY <1>1, <1>7 DEF InterfaceReceives, FrameArrives, NetRecord
  <2> QED
    BY <1>3, <2>1 DEF BackhaulStopping
<1>8. CASE SessionHandsOver /\ Throw
  BY <1>3, <1>8 DEF Throw
<1>9. CASE SessionHandsOver /\ BackhaulEnqueue(events + 1)
  <2>1. events + 1 \in Packets
    BY <1>9, ApplicationAssumption
    DEF SessionHandsOver, Event, Counted, ApplicationAssumption
  <2>2. /\ bh'.msg = bh.msg /\ bh'.queue = Append(bh.queue, events + 1)
        /\ bh'.rx = bh.rx /\ bh'.running = bh.running
        /\ UNCHANGED <<net, crashed>>
    BY <1>1, <1>9 DEF BackhaulEnqueue, BackhaulRecord
  <2>3. bh'.msg \o bh'.queue = Append(bh.msg \o bh.queue, events + 1)
    <3> DEFINE m == bh.msg
    <3> DEFINE q == bh.queue
    <3>1. m \in Seq(Packets) /\ q \in Seq(Packets)
      BY <1>2
    <3> HIDE DEF m, q
    <3>2. \A p \in Packets : m \o Append(q, p) = Append(m \o q, p)
      BY <3>1
    <3> QED
      BY <2>1, <2>2, <3>2, Zenon DEF m, q
  <2>4. closing' = closing
    BY <2>2 DEF BackhaulStopping
  <2>5. Outgoing!Accept
    BY <2>1, <2>2, <2>3, <2>4 DEF Outgoing!Accept
  <2> QED
    BY <2>5 DEF Outgoing!Next
<1>10. CASE BackhaulStarts
  <2>1. /\ bh'.msg = bh.msg /\ bh'.queue = bh.queue /\ UNCHANGED net
        /\ bh.rx = "none"
    BY <1>1, <1>10 DEF BackhaulStarts, BackhaulStart, Unstarted, Opening,
                       BackhaulRecord
  <2> QED
    BY <1>3, <2>1 DEF BackhaulStopping
<1>11. CASE BackhaulStops
  <2>1. /\ bh'.msg = bh.msg /\ bh'.queue = bh.queue /\ UNCHANGED net
        /\ bh'.rx = bh.rx /\ (~bh.running => ~bh'.running)
    BY <1>1, <1>11 DEF BackhaulStops, StopRunning, StopSignal, StopNotifyTx,
                       StopClose, BackhaulRecord
  <2> QED
    BY <1>3, <2>1 DEF BackhaulStopping
<1>12. CASE Elsewhere
  BY <1>3, <1>12 DEF Elsewhere, BackhaulStopping
<1> QED
  BY <1>5, <1>6, <1>7, <1>8, <1>9, <1>10, <1>11, <1>12
  DEF BackhaulStep, SessionHandsOver

(* What the sessions hand over leaves by the interface in order, each      *)
(* once, or its send() fails and this is logged; nothing is lost           *)
(* otherwise, before stop() or after.                                      *)
THEOREM PacketsInOrder == Spec => Outgoing!InOrder
<1>1. Init => Outgoing!Init
  BY DEF Init, BackhaulInit, Outgoing!Init, BackhaulStopping
<1>2. [Next]_vars => ~crashed \/ UNCHANGED vars
  BY DEF Next
<1>3. BackhaulInv /\ Counted /\ [Next]_vars => [Outgoing!Next]_(Outgoing!vars)
  BY <1>2, BackhaulSteps, OutgoingStep DEF BackhaulInv
<1> QED
  BY <1>1, <1>3, BackhaulInvariance, PTL DEF Spec, Outgoing!InOrder

-----------------------------------------------------------------------------
(* The delay queue.                                                        *)

DelayRecord ==
    [running : BOOLEAN, queue : Seq(Uplinks), due : Nat,
     pc : SchedulerStates, msg : Seq(Uplinks), core : Seq(Uplinks)]

(* The scheduler has a message in hand only while it delivers it, and the  *)
(* queue is cleared only after the scheduler was told to stop.             *)
DelayInv ==
    /\ delay \in DelayRecord
    /\ delay.due <= Len(delay.queue)
    /\ IF delay.pc = "deliver" THEN Len(delay.msg) = 1 ELSE delay.msg = <<>>
    /\ mainPc = "stackClear" => ~delay.running

DelayStep ==
    \/ /\ events + 1 \in Uplinks
       /\ UplinkArrives(events + 1)
       /\ UNCHANGED <<mainPc, crashed>>
    \/ (Scheduler \/ TimePasses) /\ UNCHANGED <<mainPc, crashed>>
    \/ MainGoes("stackFlag", "stackClear") /\ StopScheduler
    \/ MainGoes("stackClear", "joinScheduler") /\ clear_delay_queue
    \/ /\ UNCHANGED delay /\ (crashed => crashed')
       /\ mainPc' = "stackClear" => mainPc = "stackClear"

(* A step of the daemon, as the delay queue sees it.                       *)
LEMMA DelaySteps == Counted /\ [Next]_vars => DelayStep
<1> SUFFICES ASSUME Counted, [Next]_vars PROVE DelayStep
  OBVIOUS
<1>1. CASE UNCHANGED vars
  BY <1>1 DEF vars, DelayStep
<1>2. CASE BackhaulRx \/ BackhaulRxFails \/ BackhaulTx
  <2>1. crashed => crashed'
    BY <1>2 DEF BackhaulRx, RxPoll, RxRecvStopped, RxThrow, HandOver, RxForward,
                Throw, RxDrop, RxTake, BackhaulRxFails, RxFails, BackhaulTx,
                TxTop, TxTake, TxFindNothing, TxSleep, TxSend
  <2> QED
    BY <1>2, <2>1 DEF BackhaulRx, BackhaulRxFails, BackhaulTx, OnlyBackhaul,
                      DelayStep
<1>3. CASE \/ InterfaceReceives \/ SessionHandsOver \/ SessionSends
           \/ ModemBringsBadLine
  BY <1>3 DEF InterfaceReceives, FrameArrives, SessionHandsOver,
              BackhaulEnqueue, SessionSends, ModemBringsBadLine, Throw,
              backhaulVars, DelayStep
<1>4. CASE BrokerBrings
  <2>1. events + 1 \in Uplinks
    BY <1>4, ApplicationAssumption
    DEF BrokerBrings, Event, Counted, ApplicationAssumption
  <2> QED
    BY <1>4, <2>1 DEF BrokerBrings, Throw, backhaulVars, DelayStep
<1>5. CASE SchedulerRuns \/ ClockRuns \/ ModemRuns
  BY <1>5 DEF SchedulerRuns, ClockRuns, OnlyDelay, ModemRuns, backhaulVars,
              DelayStep
<1>6. CASE \E c \in Callers : CallReturns(c)
  BY <1>6 DEF CallReturns, backhaulVars, DelayStep
<1>7. CASE MainRuns
  <2>1. CASE Registers
    BY <2>1 DEF Registers, Register, MainGoes, backhaulVars, DelayStep
  <2>2. CASE Starts
    BY <2>2 DEF Starts, BackhaulStart, OnlyMain, OnlyStack, MainGoes,
                backhaulVars, DelayStep
  <2>3. CASE StopsBackhaul
    BY <2>3 DEF StopsBackhaul, StopReturns, StopRunning, StopSignal,
                StopNotifyTx, StopClose, OnlyMain, MainGoes, backhaulVars,
                DelayStep
  <2>4. CASE StopsCore
    BY <2>4 DEF StopsCore, StopReturns, OnlyMain, MainGoes, backhaulVars,
                DelayStep
  <2>5. CASE DestroysStack
    BY <2>5 DEF DestroysStack, OnlyMain, OnlyStack, MainGoes, backhaulVars,
                DelayStep
  <2> QED
    BY <1>7, <2>1, <2>2, <2>3, <2>4, <2>5 DEF MainRuns
<1>8. CASE Signal \/ StopFails
  BY <1>8 DEF Signal, StopFails, Throw, OnlyMain, MainGoes, backhaulVars,
              DelayStep
<1> QED
  BY <1>1, <1>2, <1>3, <1>4, <1>5, <1>6, <1>7, <1>8 DEF Next, Outside

LEMMA DelayInvStep ==
    ASSUME DelayInv, DelayStep
    PROVE  DelayInv'
<1>1. /\ delay \in DelayRecord
      /\ delay.due <= Len(delay.queue)
      /\ IF delay.pc = "deliver" THEN Len(delay.msg) = 1 ELSE delay.msg = <<>>
      /\ mainPc = "stackClear" => ~delay.running
  BY DEF DelayInv
<1>2. /\ delay.queue \in Seq(Uplinks) /\ delay.msg \in Seq(Uplinks)
      /\ delay.core \in Seq(Uplinks) /\ delay.due \in Nat
      /\ <<>> \in Seq(Uplinks)
  BY <1>1 DEF DelayRecord
<1>3. \A pc \in SchedulerStates : /\ Awake(pc) \in SchedulerStates
                                  /\ Awake(pc) = "deliver" <=> pc = "deliver"
  BY DEF Awake, SchedulerStates
<1>4. ASSUME NEW u \in Uplinks, UplinkArrives(u), UNCHANGED mainPc
      PROVE  DelayInv'
  <2>1. delay' = [delay EXCEPT !.queue = Append(delay.queue, u),
                               !.pc = Awake(delay.pc)]
    BY <1>1, <1>4 DEF UplinkArrives, DelayRecord
  <2>2. /\ Append(delay.queue, u) \in Seq(Uplinks)
        /\ delay.due <= Len(Append(delay.queue, u))
    BY <1>1, <1>2
  <2> QED
    BY <1>1, <1>3, <1>4, <2>1, <2>2 DEF DelayInv, DelayRecord
<1>5. CASE TimePasses /\ UNCHANGED mainPc
  <2>1. delay' = [delay EXCEPT !.due = delay.due + 1]
        /\ delay.due < Len(delay.queue)
    BY <1>1, <1>5 DEF TimePasses, DelayRecord
  <2>2. delay.due + 1 \in Nat /\ delay.due + 1 <= Len(delay.queue)
    BY <1>2, <2>1
  <2> QED
    BY <1>1, <1>5, <2>1, <2>2 DEF DelayInv, DelayRecord
<1>6. CASE Scheduler /\ UNCHANGED mainPc
  <2>1. CASE SchedulerTop
    BY <1>1, <1>6, <2>1 DEF SchedulerTop, DelayInv, DelayRecord, SchedulerStates
  <2>2. CASE SchedulerLeave
    BY <1>1, <1>6, <2>2 DEF SchedulerLeave, DelayInv, DelayRecord,
                            SchedulerStates
  <2>3. CASE SchedulerFindNothing
    BY <1>1, <1>6, <2>3 DEF SchedulerFindNothing, DelayInv, DelayRecord,
                            SchedulerStates
  <2>4. CASE SchedulerSleep
    BY <1>1, <1>6, <2>4 DEF SchedulerSleep, DelayInv, DelayRecord,
                            SchedulerStates
  <2>5. CASE SchedulerTake
    <3>1. /\ delay' = [delay EXCEPT !.pc = "deliver",
                                    !.msg = <<Head(delay.queue)>>,
                                    !.queue = Tail(delay.queue),
                                    !.due = delay.due - 1]
          /\ delay.due > 0
      BY <1>1, <2>5 DEF SchedulerTake, DelayRecord
    <3>2. delay.queue # <<>>
      BY <1>1, <1>2, <3>1
    <3>3. /\ Tail(delay.queue) \in Seq(Uplinks)
          /\ Len(Tail(delay.queue)) = Len(delay.queue) - 1
          /\ <<Head(delay.queue)>> \in Seq(Uplinks)
          /\ Len(<<Head(delay.queue)>>) = 1
      BY <1>2, <3>2
    <3>4. delay.due - 1 \in Nat /\ delay.due - 1 <= Len(Tail(delay.queue))
      BY <1>1, <1>2, <3>1, <3>3
    <3>5. "deliver" \in SchedulerStates
      BY DEF SchedulerStates
    <3> QED
      BY <1>1, <1>6, <3>1, <3>3, <3>4, <3>5 DEF DelayInv, DelayRecord
  <2>6. CASE SchedulerRest
    BY <1>1, <1>6, <2>6 DEF SchedulerRest, DelayInv, DelayRecord,
                            SchedulerStates
  <2>7. CASE SchedulerRested
    BY <1>1, <1>6, <2>7 DEF SchedulerRested, DelayInv, DelayRecord,
                            SchedulerStates
  <2>8. CASE SchedulerDeliver
    <3>1. delay' = [delay EXCEPT !.pc = "top", !.msg = <<>>,
                                 !.core = delay.core \o delay.msg]
      BY <1>1, <2>8 DEF SchedulerDeliver, DelayRecord
    <3>2. delay.core \o delay.msg \in Seq(Uplinks) /\ "top" \in SchedulerStates
      BY <1>2 DEF SchedulerStates
    <3> QED
      BY <1>1, <1>2, <1>6, <3>1, <3>2 DEF DelayInv, DelayRecord
  <2> QED
    BY <1>6, <2>1, <2>2, <2>3, <2>4, <2>5, <2>6, <2>7, <2>8 DEF Scheduler
<1>7. CASE MainGoes("stackFlag", "stackClear") /\ StopScheduler
  BY <1>1, <1>7 DEF StopScheduler, MainGoes, DelayInv, DelayRecord
<1>8. CASE MainGoes("stackClear", "joinScheduler") /\ clear_delay_queue
  <2>1. delay' = [delay EXCEPT !.queue = <<>>, !.due = 0,
                               !.pc = Awake(delay.pc)]
    BY <1>1, <1>8 DEF clear_delay_queue, DelayRecord
  <2>2. delay' \in DelayRecord /\ delay'.due = 0 /\ delay'.queue = <<>>
    BY <1>1, <1>2, <1>3, <2>1 DEF DelayRecord
  <2>3. delay'.msg = delay.msg /\ (delay'.pc = "deliver" <=> delay.pc = "deliver")
    BY <1>1, <1>3, <2>1 DEF DelayRecord
  <2>4. delay'.due <= Len(delay'.queue)
    BY <2>2
  <2> QED
    BY <1>1, <1>8, <2>2, <2>3, <2>4 DEF MainGoes, DelayInv
<1>9. CASE UNCHANGED delay /\ (mainPc' = "stackClear" => mainPc = "stackClear")
  BY <1>1, <1>9 DEF DelayInv
<1> QED
  BY <1>4, <1>5, <1>6, <1>7, <1>8, <1>9 DEF DelayStep

LEMMA DelayInvariance == Spec => [](DelayInv /\ Counted)
<1>1. Init => DelayInv /\ Counted
  <2> SUFFICES ASSUME Init PROVE DelayInv /\ Counted
    OBVIOUS
  <2>1. /\ delay = [running |-> TRUE, queue |-> <<>>, due |-> 0, pc |-> "top",
                    msg |-> <<>>, core |-> <<>>]
        /\ mainPc = "registerBackhaul" /\ events = 0
    BY DEF Init, DelayInit
  <2>2. <<>> \in Seq(Uplinks) /\ Len(<<>>) = 0
    OBVIOUS
  <2> QED
    BY <2>1, <2>2 DEF DelayInv, DelayRecord, SchedulerStates, Counted
<1>2. DelayInv /\ Counted /\ [Next]_vars => (DelayInv /\ Counted)'
  BY DelaySteps, DelayInvStep, CountedStep
<1> QED
  BY <1>1, <1>2, PTL DEF Spec

(* The delay queue moves as a relay does.                                  *)
LEMMA DelayedStep ==
    ASSUME DelayInv, DelayStep, ~crashed \/ UNCHANGED vars
    PROVE  [Delayed!Next]_(Delayed!vars)
<1> DEFINE closing == crashed \/ ~delay.running
<1>1. /\ delay \in DelayRecord
      /\ IF delay.pc = "deliver" THEN Len(delay.msg) = 1 ELSE delay.msg = <<>>
      /\ mainPc = "stackClear" => ~delay.running
  BY DEF DelayInv
<1>2. /\ delay.queue \in Seq(Uplinks) /\ delay.msg \in Seq(Uplinks)
      /\ delay.core \in Seq(Uplinks) /\ delay.running \in BOOLEAN
      /\ delay.due \in Nat
  BY <1>1 DEF DelayRecord
<1>3. ASSUME delay'.msg \o delay'.queue = delay.msg \o delay.queue,
             delay'.core = delay.core, closing => closing'
      PROVE  [Delayed!Next]_(Delayed!vars)
  <2>1. CASE closing'
    BY <1>3, <2>1 DEF Delayed!Next, Delayed!Close
  <2>2. CASE ~closing'
    BY <1>3, <2>2 DEF Delayed!vars
  <2> QED
    BY <2>1, <2>2
<1>4. CASE UNCHANGED vars
  BY <1>4 DEF vars, Delayed!vars, backhaulVars
<1> SUFFICES ASSUME ~crashed PROVE [Delayed!Next]_(Delayed!vars)
  BY <1>4
<1>5. CASE /\ events + 1 \in Uplinks /\ UplinkArrives(events + 1)
           /\ UNCHANGED crashed
  <2>1. /\ delay'.msg = delay.msg /\ delay'.queue = Append(delay.queue, events + 1)
        /\ delay'.core = delay.core /\ delay'.running = delay.running
    BY <1>1, <1>5 DEF UplinkArrives, DelayRecord
  <2>2. delay'.msg \o delay'.queue = Append(delay.msg \o delay.queue, events + 1)
    <3> DEFINE m == delay.msg
    <3> DEFINE q == delay.queue
    <3>1. m \in Seq(Uplinks) /\ q \in Seq(Uplinks)
      BY <1>2
    <3> HIDE DEF m, q
    <3>2. \A u \in Uplinks : m \o Append(q, u) = Append(m \o q, u)
      BY <3>1
    <3> QED
      BY <1>5, <2>1, <3>2, Zenon DEF m, q
  <2>3. Delayed!Accept
    BY <1>5, <2>1, <2>2 DEF Delayed!Accept
  <2> QED
    BY <2>3 DEF Delayed!Next
<1>6. CASE TimePasses /\ UNCHANGED crashed
  <2>1. /\ delay'.msg = delay.msg /\ delay'.queue = delay.queue
        /\ delay'.core = delay.core /\ delay'.running = delay.running
    BY <1>1, <1>6 DEF TimePasses, DelayRecord
  <2> QED
    BY <1>3, <1>6, <2>1
<1>7. CASE Scheduler /\ UNCHANGED crashed
  <2>1. CASE SchedulerTop \/ SchedulerLeave \/ SchedulerFindNothing
             \/ SchedulerSleep \/ SchedulerRest \/ SchedulerRested
    <3>1. /\ delay'.msg = delay.msg /\ delay'.queue = delay.queue
          /\ delay'.core = delay.core /\ delay'.running = delay.running
      BY <1>1, <2>1 DEF SchedulerTop, SchedulerLeave, SchedulerFindNothing,
                        SchedulerSleep, SchedulerRest, SchedulerRested,
                        DelayRecord
    <3> QED
      BY <1>3, <1>7, <3>1
  <2>2. CASE SchedulerTake
    <3>1. /\ delay'.msg = <<Head(delay.queue)>>
          /\ delay'.queue = Tail(delay.queue) /\ delay.queue # <<>>
          /\ delay'.core = delay.core /\ delay'.running = delay.running
          /\ delay.msg = <<>>
      <4>1. delay.due > 0 /\ delay.due <= Len(delay.queue)
        BY <2>2 DEF SchedulerTake, DelayInv
      <4>2. delay.queue # <<>>
        BY <1>2, <4>1
      <4> QED
        BY <1>1, <2>2, <4>2 DEF SchedulerTake, DelayRecord
    <3>2. delay'.msg \o delay'.queue = delay.msg \o delay.queue
      BY <1>2, <3>1, Taken
    <3> QED
      BY <1>3, <1>7, <3>1, <3>2
  <2>3. CASE SchedulerDeliver
    <3>1. /\ delay'.msg = <<>> /\ delay'.queue = delay.queue
          /\ delay'.core = delay.core \o delay.msg
          /\ delay'.running = delay.running /\ Len(delay.msg) = 1
      BY <1>1, <2>3 DEF SchedulerDeliver, DelayRecord
    <3>2. /\ delay.msg \o delay.queue # <<>>
          /\ <<>> \o delay.queue = Tail(delay.msg \o delay.queue)
          /\ delay.core \o delay.msg
               = Append(delay.core, Head(delay.msg \o delay.queue))
      BY <1>2, <3>1, PassedOn
    <3>3. Delayed!Pass
      BY <1>7, <3>1, <3>2 DEF Delayed!Pass
    <3> QED
      BY <3>3 DEF Delayed!Next
  <2> QED
    BY <1>7, <2>1, <2>2, <2>3 DEF Scheduler
<1>8. CASE StopScheduler
  <2>1. /\ delay'.msg = delay.msg /\ delay'.queue = delay.queue
        /\ delay'.core = delay.core /\ delay'.running = FALSE
    BY <1>1, <1>8 DEF StopScheduler, DelayRecord
  <2> QED
    BY <1>3, <2>1
<1>9. CASE MainGoes("stackClear", "joinScheduler") /\ clear_delay_queue
  <2>1. /\ delay'.msg = delay.msg /\ delay'.queue = <<>>
        /\ delay'.core = delay.core /\ delay'.running = FALSE
        /\ ~delay.running
    BY <1>1, <1>9 DEF clear_delay_queue, MainGoes, DelayRecord
  <2>2. /\ delay.msg \o <<>> = SubSeq(delay.msg \o delay.queue, 1, Len(delay.msg))
        /\ Len(delay.msg) \in 0 .. Len(delay.msg \o delay.queue)
    BY <1>2, Lost
  <2>3. Delayed!Lose
    BY <2>1, <2>2 DEF Delayed!Lose
  <2> QED
    BY <2>3 DEF Delayed!Next
<1>10. CASE UNCHANGED delay /\ (crashed => crashed')
  BY <1>3, <1>10
<1> QED
  BY <1>5, <1>6, <1>7, <1>8, <1>9, <1>10 DEF DelayStep

(* What the broker brings and the stack understands reaches the SCHC core  *)
(* in order, each message once, and nothing of it is lost before the stack *)
(* is destroyed.                                                           *)
THEOREM UplinksInOrder == Spec => Delayed!InOrder
<1>1. Init => Delayed!Init
  BY DEF Init, BackhaulInit, DelayInit, Delayed!Init
<1>2. [Next]_vars => ~crashed \/ UNCHANGED vars
  BY DEF Next
<1>3. DelayInv /\ Counted /\ [Next]_vars => [Delayed!Next]_(Delayed!vars)
  BY <1>2, DelaySteps, DelayedStep
<1> QED
  BY <1>1, <1>3, DelayInvariance, PTL DEF Spec, Delayed!InOrder

-----------------------------------------------------------------------------
(* Types.                                                                  *)

(* Where the main thread is tells which cores are registered and stopped,  *)
(* and, among the destructors, which stack it is.                          *)
MainTyped ==
    /\ conf \in [stack : Stacks, tunnel : BOOLEAN]
    /\ mainPc \in MainStates
    /\ cores \subseteq {"BACKHAUL", "SCHC"}
    /\ stopped \subseteq cores
    /\ events \in 0 .. MaxEvents
    /\ mainPc # "registerBackhaul" => "BACKHAUL" \in cores
    /\ mainPc \notin {"registerBackhaul", "registerSchc"} => "SCHC" \in cores
    /\ mainPc \in Opening \cup {"startStack", "starting", "run"}
         => stopped = {}
    /\ mainPc \in Destroying => stopped = {"BACKHAUL", "SCHC"}
    /\ mainPc \in {"stackFlag", "stackClear", "joinScheduler"}
         => conf.stack = "mqtt"
    /\ mainPc \in {"stopReader", "lastCommand", "lastWait"}
         => conf.stack # "mqtt"

(* Nobody but the main thread touches what is its own.                     *)
LEMMA OnlyMainMoves ==
    [Next]_vars => \/ UNCHANGED <<conf, mainPc, cores, stopped, events>>
                   \/ Event /\ UNCHANGED <<conf, mainPc, cores, stopped>>
                   \/ MainRuns
                   \/ (Signal \/ StopFails) /\ UNCHANGED <<conf, events>>
BY DEF Next, vars, BackhaulRx, BackhaulRxFails, BackhaulTx, OnlyBackhaul,
       Outside, InterfaceReceives, SessionHandsOver, SessionSends,
       BrokerBrings, ModemBringsBadLine, SchedulerRuns, ClockRuns, OnlyDelay,
       ModemRuns, CallReturns, StopFails

LEMMA MainTypedStep == MainTyped /\ [Next]_vars => MainTyped'
<1> SUFFICES ASSUME MainTyped, [Next]_vars PROVE MainTyped'
  OBVIOUS
<1> USE DEF MainTyped, Opening, Destroying, MainStates
<1>1. CASE UNCHANGED <<conf, mainPc, cores, stopped, events>>
  BY <1>1
<1>2. CASE Event /\ UNCHANGED <<conf, mainPc, cores, stopped>>
  BY <1>2, ApplicationAssumption DEF Event, ApplicationAssumption
<1>3. CASE MainRuns
  <2>1. UNCHANGED <<conf, events>>
    BY <1>3 DEF MainRuns
  <2>2. CASE Registers
    BY <2>1, <2>2 DEF Registers, Register, MainGoes
  <2>3. CASE Starts
    BY <2>1, <2>3 DEF Starts, MainGoes, OnlyMain, OnlyStack
  <2>4. CASE StopsBackhaul
    BY <2>1, <2>4 DEF StopsBackhaul, StopReturns, MainGoes, OnlyMain
  <2>5. CASE StopsCore
    BY <2>1, <2>5 DEF StopsCore, StopReturns, MainGoes, OnlyMain
  <2>6. CASE DestroysStack
    BY <2>1, <2>6 DEF DestroysStack, MainGoes, OnlyMain, OnlyStack
  <2> QED
    BY <1>3, <2>2, <2>3, <2>4, <2>5, <2>6 DEF MainRuns
<1>4. CASE (Signal \/ StopFails) /\ UNCHANGED <<conf, events>>
  BY <1>4 DEF Signal, StopFails, MainGoes, OnlyMain
<1> QED
  BY <1>1, <1>2, <1>3, <1>4, OnlyMainMoves

LEMMA MainInvariance == Spec => []MainTyped
<1>1. Init => MainTyped
  BY ApplicationAssumption
  DEF ApplicationAssumption, Init, MainTyped, MainStates, Opening, Destroying
<1> QED
  BY <1>1, MainTypedStep, PTL DEF Spec

LEMMA ModemTypes == ModemInv => ModemTypeOK
<1> SUFFICES ASSUME ModemInv PROVE ModemTypeOK
  OBVIOUS
<1>1. modem \in ModemRecord /\ Numbered /\ WriterHolds
      /\ call \in [Callers -> CallRecord]
  BY DEF ModemInv, ModemTyped
<1>2. modem.line \in Seq(Nat)
  BY <1>1 DEF ModemRecord
<1>3. modem.line \in Seq(1 .. modem.issued)
  <2> DEFINE line == modem.line
  <2> DEFINE Issued == 1 .. modem.issued
  <2>1. line \in Seq(Nat) /\ \A i \in DOMAIN line : line[i] \in Issued
    BY <1>1, <1>2 DEF Numbered
  <2> HIDE DEF line, Issued
  <2>2. line \in Seq(Issued)
    BY <2>1
  <2> QED
    BY <2>2 DEF line, Issued
<1> QED
  BY <1>1, <1>3 DEF ModemTypeOK, ModemRecord, CallRecord, WriterHolds

LEMMA BackhaulTypes == BackhaulInv => BackhaulTypeOK
<1> SUFFICES ASSUME BackhaulInv PROVE BackhaulTypeOK
  OBVIOUS
<1>1. Len(<<>>) = 0
  OBVIOUS
<1>2. /\ bh \in BackhaulRecord /\ crashed \in BOOLEAN
      /\ net \in NetRecord
  BY DEF BackhaulInv, BackhaulTyped
<1>3. /\ IF bh.rx = "forward" THEN Len(bh.frame) = 1 ELSE bh.frame = <<>>
      /\ IF bh.tx = "send" THEN Len(bh.msg) = 1 ELSE bh.msg = <<>>
  BY DEF BackhaulInv, BackhaulTyped
<1>4. /\ (bh.rx = "forward") <=> (Len(bh.frame) = 1)
      /\ (bh.tx = "send") <=> (Len(bh.msg) = 1)
  BY <1>1, <1>3, SMT
<1> QED
  BY <1>2, <1>4 DEF BackhaulRecord, NetRecord, BackhaulTypeOK

LEMMA DelayTypes == DelayInv => DelayTypeOK
<1> SUFFICES ASSUME DelayInv PROVE DelayTypeOK
  OBVIOUS
<1>1. Len(<<>>) = 0
  OBVIOUS
<1>2. IF delay.pc = "deliver" THEN Len(delay.msg) = 1 ELSE delay.msg = <<>>
  BY DEF DelayInv
<1>3. (delay.pc = "deliver") <=> (Len(delay.msg) = 1)
  BY <1>1, <1>2, SMT
<1> QED
  BY <1>3 DEF DelayInv, DelayRecord, DelayTypeOK

(* Every variable of the daemon keeps its type, a thread has something in  *)
(* hand exactly while it hands it over, and at most one thread at a time   *)
(* writes to the modem, the one that holds the mutex.                      *)
THEOREM TypeCorrect == Spec => []TypeOK
<1>1. MainTyped /\ ModemInv /\ BackhaulInv /\ DelayInv => TypeOK
  BY ModemTypes, BackhaulTypes, DelayTypes DEF MainTyped, TypeOK
<1> QED
  BY <1>1, MainInvariance, ModemInvariance, BackhaulInvariance,
     DelayInvariance, PTL

-----------------------------------------------------------------------------
(* The end of the program.                                                 *)

(* What a join, or the return of stop(), lets the main thread rely on.     *)
Joined ==
    /\ mainPc = "joinTx" \/ "BACKHAUL" \in stopped => bh.rx = "done"
    /\ "BACKHAUL" \in stopped => bh.tx = "done"
    /\ "SCHC" \in stopped => \A c \in Workers : call[c].pc = "idle"
    /\ mainPc = "done" /\ conf.stack = "mqtt" => delay.pc = "done"
    /\ mainPc \in {"lastCommand", "lastWait", "done"} /\ conf.stack # "mqtt"
         => ~modem.reading

(* A thread of the backhaul that has ended stays so, unless started anew.  *)
LEMMA BackhaulStaysDone ==
    ASSUME BackhaulTyped, BackhaulStep, ~BackhaulStarts
    PROVE  /\ bh.rx = "done" => bh'.rx = "done"
           /\ bh.tx = "done" => bh'.tx = "done"
<1>1. bh \in BackhaulRecord
  BY DEF BackhaulTyped
<1>2. CASE BackhaulRx \/ BackhaulRxFails
  BY <1>1, <1>2
  DEF BackhaulRx, BackhaulRxFails, RxPoll, RxFails, RxRecvStopped, RxThrow,
      HandOver, RxForward, Throw, RxDrop, RxTake, BackhaulRecord
<1>3. CASE BackhaulTx
  BY <1>1, <1>3 DEF BackhaulTx, TxTop, TxTake, TxFindNothing, TxSleep, TxSend,
                    BackhaulRecord
<1>4. CASE InterfaceReceives \/ Elsewhere
  BY <1>4 DEF InterfaceReceives, FrameArrives, Elsewhere
<1>5. CASE SessionHandsOver
  BY <1>1, <1>5 DEF SessionHandsOver, Throw, BackhaulEnqueue, TxNotified,
                    BackhaulRecord
<1>6. CASE BackhaulStops
  BY <1>1, <1>6 DEF BackhaulStops, StopRunning, StopSignal, StopNotifyTx,
                    StopClose, TxNotified, BackhaulRecord
<1> QED
  BY <1>2, <1>3, <1>4, <1>5, <1>6 DEF BackhaulStep

(* The scheduler ends for good, and so does the reader.                    *)
LEMMA StackStaysDone ==
    ASSUME ModemTyped, DelayInv, ModemStep, DelayStep
    PROVE  /\ delay.pc = "done" => delay'.pc = "done"
           /\ ~modem.reading => ~modem'.reading
<1>1. modem \in ModemRecord /\ delay \in DelayRecord
  BY DEF ModemTyped, DelayInv
<1>2. delay.pc = "done" => delay'.pc = "done"
  BY <1>1
  DEF DelayStep, UplinkArrives, Scheduler, SchedulerTop, SchedulerLeave,
      SchedulerFindNothing, SchedulerSleep, SchedulerTake, SchedulerRest,
      SchedulerRested, SchedulerDeliver, TimePasses, StopScheduler,
      clear_delay_queue, Awake, DelayRecord
<1>3. ~modem.reading => ~modem'.reading
  BY <1>1
  DEF ModemStep, BeginLoRaWAN, SendMyriota, SendMyriotaFails, PreparedFor,
      Returning, WriteCommand, WriteFails, StartWaiting, ReturnResponse,
      ReturnTimeout, Leave, ReaderTakesStatus, ModemLoses, StopReader,
      modemVars, ModemRecord
<1> QED
  BY <1>2, <1>3

(* A session begins to send only while there are sessions.                 *)
LEMMA WorkersStayIdle ==
    ASSUME ModemTyped, [Next]_vars, ~SessionsLive,
           NEW c \in Workers, call[c].pc = "idle"
    PROVE  call'[c].pc = "idle"
<1>1. /\ modem \in ModemRecord /\ call \in [Callers -> CallRecord]
      /\ main \in Callers /\ c \in Callers /\ c # main
  BY ApplicationAssumption DEF ModemTyped, Workers, ApplicationAssumption
<1>2. CASE UNCHANGED modemVars
  BY <1>2 DEF modemVars
<1>3. ASSUME BeginLoRaWAN(main) \/ SendMyriota(main) \/ SendMyriotaFails(main)
      PROVE  call'[c].pc = "idle"
  BY <1>1, <1>3, CallBegins, CallFails DEF BeginLoRaWAN, SendMyriota
<1>4. ASSUME NEW d \in Callers, Returning(d)
      PROVE  call'[c].pc = "idle"
  BY <1>1, <1>4 DEF Returning, WriteCommand, WriteFails, StartWaiting,
                    ReturnResponse, ReturnTimeout, Answered, Leave, NoCall,
                    CallRecord
<1>5. CASE ReaderTakesStatus \/ ModemLoses \/ StopReader
  <2>1. CASE ReaderTakesStatus
    <3>1. call[c] \in CallRecord
      BY <1>1
    <3>2. call'[c].pc = call[c].pc
      BY <1>1, <2>1, <3>1 DEF ReaderTakesStatus, CallRecord
    <3> QED
      BY <3>2
  <2> QED
    BY <1>5, <2>1 DEF ModemLoses, StopReader
<1>6. \/ UNCHANGED modemVars
      \/ BeginLoRaWAN(main) \/ SendMyriota(main) \/ SendMyriotaFails(main)
      \/ \E d \in Callers : Returning(d)
      \/ ReaderTakesStatus \/ ModemLoses \/ StopReader
  <2>1. CASE Outside
    BY <2>1 DEF Outside, InterfaceReceives, SessionHandsOver, SessionSends,
                BrokerBrings, ModemBringsBadLine
  <2>2. CASE MainRuns
    BY <2>2 DEF MainRuns, Registers, Register, Starts, StopsBackhaul,
                StopsCore, StopReturns, DestroysStack, OnlyMain, OnlyStack
  <2>3. CASE ModemRuns \/ \E d \in Callers : CallReturns(d)
    BY <2>3 DEF ModemRuns, CallReturns
  <2>4. CASE \/ BackhaulRx \/ BackhaulRxFails \/ BackhaulTx \/ SchedulerRuns
             \/ ClockRuns \/ Signal \/ StopFails
    BY <2>4 DEF BackhaulRx, BackhaulRxFails, BackhaulTx, OnlyBackhaul,
                SchedulerRuns, ClockRuns, OnlyDelay, Signal, StopFails,
                OnlyMain
  <2>5. CASE UNCHANGED vars
    BY <2>5 DEF vars, modemVars
  <2> QED
    BY <2>1, <2>2, <2>3, <2>4, <2>5 DEF Next
<1> QED
  BY <1>2, <1>3, <1>4, <1>5, <1>6

(* Where the main thread gets to, of the places Joined speaks of.          *)
MainLeaves ==
    /\ mainPc' = "joinTx" => mainPc = "joinTx" \/ bh.rx = "done"
    /\ "BACKHAUL" \in stopped' =>
         \/ "BACKHAUL" \in stopped
         \/ mainPc = "joinTx" /\ bh.tx = "done"
    /\ "SCHC" \in stopped' =>
         \/ "SCHC" \in stopped
         \/ mainPc = "stopCore" /\ \A c \in Workers : call[c].pc = "idle"
    /\ mainPc' = "done" /\ conf.stack = "mqtt" =>
         mainPc = "done" \/ delay.pc = "done"
    /\ mainPc' \in {"lastCommand", "lastWait", "done"} /\ conf.stack # "mqtt"
         => \/ mainPc \in {"lastCommand", "lastWait", "done"}
            \/ StopReader

LEMMA MainLeavesJoined == MainTyped /\ [Next]_vars => MainLeaves
<1> SUFFICES ASSUME MainTyped, [Next]_vars PROVE MainLeaves
  OBVIOUS
<1>1. CASE UNCHANGED <<mainPc, stopped>>
  BY <1>1 DEF MainLeaves
<1>2. CASE MainRuns
  <2>1. CASE Registers
    BY <2>1 DEF Registers, Register, MainGoes, MainLeaves
  <2>2. CASE Starts
    BY <2>2 DEF Starts, MainGoes, OnlyMain, OnlyStack, MainLeaves
  <2>3. CASE StopsBackhaul
    BY <2>3 DEF StopsBackhaul, StopReturns, MainGoes, OnlyMain, MainLeaves
  <2>4. CASE StopsCore
    BY <2>4 DEF StopsCore, StopReturns, MainGoes, OnlyMain, MainLeaves
  <2>5. CASE DestroysStack
    BY <2>5 DEF DestroysStack, MainGoes, OnlyMain, OnlyStack, MainLeaves,
                MainTyped
  <2> QED
    BY <1>2, <2>1, <2>2, <2>3, <2>4, <2>5 DEF MainRuns
<1>3. CASE Signal \/ StopFails
  BY <1>3 DEF Signal, StopFails, MainGoes, OnlyMain, MainLeaves
<1> QED
  BY <1>1, <1>2, <1>3, OnlyMainMoves

LEMMA JoinedStep ==
    ASSUME MainTyped, ModemTyped, BackhaulInv, DelayInv, Counted, Joined,
           [Next]_vars
    PROVE  Joined'
<1>1. MainLeaves /\ BackhaulStep /\ ModemStep /\ DelayStep
  BY MainLeavesJoined, BackhaulSteps, ModemSteps, DelaySteps
<1>2. UNCHANGED conf
  BY OnlyMainMoves DEF MainRuns
<1>3. BackhaulStarts => stopped' = {} /\ mainPc' # "joinTx"
  BY OnlyMainMoves
  DEF BackhaulStarts, MainTyped, Opening, MainRuns, Registers, Register,
      Starts, StopsBackhaul, StopReturns, StopsCore, DestroysStack, Signal,
      StopFails, MainGoes, OnlyMain, OnlyStack
<1>4. ~BackhaulStarts => /\ bh.rx = "done" => bh'.rx = "done"
                         /\ bh.tx = "done" => bh'.tx = "done"
  BY <1>1, BackhaulStaysDone DEF BackhaulInv
<1>5. /\ mainPc' = "joinTx" \/ "BACKHAUL" \in stopped' => bh'.rx = "done"
      /\ "BACKHAUL" \in stopped' => bh'.tx = "done"
  BY <1>1, <1>3, <1>4 DEF Joined, MainLeaves
<1>6. "SCHC" \in stopped' => \A c \in Workers : call'[c].pc = "idle"
  <2>1. CASE "SCHC" \in stopped
    BY <2>1, WorkersStayIdle DEF Joined, SessionsLive
  <2>2. CASE "SCHC" \in stopped' /\ "SCHC" \notin stopped
    <3>1. mainPc = "stopCore" /\ \A c \in Workers : call[c].pc = "idle"
      BY <1>1, <2>2 DEF MainLeaves
    <3>2. UNCHANGED call
      BY <2>2, <3>1, OnlyMainMoves
      DEF MainRuns, Registers, Register, Starts, StopsBackhaul, StopReturns,
          StopsCore, DestroysStack, Signal, StopFails, MainGoes, OnlyMain,
          OnlyStack, modemVars
    <3> QED
      BY <3>1, <3>2
  <2> QED
    BY <2>1, <2>2
<1>7. mainPc' = "done" /\ conf'.stack = "mqtt" => delay'.pc = "done"
  BY <1>1, <1>2, StackStaysDone DEF Joined, MainLeaves
<1>8. mainPc' \in {"lastCommand", "lastWait", "done"} /\ conf'.stack # "mqtt"
        => ~modem'.reading
  <2>1. StopReader => ~modem'.reading
    BY DEF StopReader, ModemTyped, ModemRecord
  <2> QED
    BY <1>1, <1>2, <2>1, StackStaysDone DEF Joined, MainLeaves
<1> QED
  BY <1>5, <1>6, <1>7, <1>8 DEF Joined

(* When the destructors begin, nobody is left who calls into the backhaul  *)
(* or the stack but the scheduler or the reader of the stack itself, and   *)
(* main() does not end before that one has.                                *)
THEOREM DestroyedWhenJoined == Spec => []JoinedBeforeDestroyed
<1>1. Init => Joined
  BY DEF Init, Joined
<1>2. MainTyped /\ ModemInv /\ BackhaulInv /\ DelayInv /\ Counted /\ Joined
        /\ [Next]_vars => Joined'
  BY JoinedStep DEF ModemInv
<1>3. MainTyped /\ Joined => JoinedBeforeDestroyed
  BY DEF MainTyped, Joined, JoinedBeforeDestroyed
<1> QED
  BY <1>1, <1>2, <1>3, MainInvariance, ModemInvariance, BackhaulInvariance,
     DelayInvariance, PTL DEF Spec

=============================================================================
