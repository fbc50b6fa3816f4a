----------------------------- MODULE SerialModem -----------------------------
(***************************************************************************)
(* Commands to the modem of a node, as SCHCLoRaWANStack.cpp and            *)
(* SCHCMyriotaStack.cpp exchange them: the threads of the sessions call    *)
(* send_command(), and one reader thread puts every status line of the     *)
(* modem in the one _cmd_response that all of them wait for.               *)
(***************************************************************************)
EXTENDS Integers, Sequences

CONSTANTS
    Callers,    \* the threads that may call send_command()
    NoCaller

VARIABLES
    modem,      \* the stack, and the commands the modem has not answered
    call        \* each thread in send_command()

modemVars == <<modem, call>>

CallStates == {"idle", "write", "written", "wait"}

(* ready, response: _cmd_ready and _cmd_response.  writer: who holds       *)
(* _serial_write_mtx.  reading: _keep_reading.  line: the commands         *)
(* written, in order; issued numbers them.                                 *)
(* Of a call, id: the number of its command; not in the code, heard:       *)
(* whether a status line came during the call, answered: its own; alone:   *)
(* no other call overlapped it and no earlier command was unanswered.      *)
ModemTypeOK ==
    /\ modem \in [ready : BOOLEAN, response : Nat, reading : BOOLEAN,
                  writer : Callers \cup {NoCaller},
                  line : Seq(1 .. modem.issued), issued : Nat]
    /\ call \in [Callers -> [pc : CallStates, id : Nat, heard : BOOLEAN,
                             answered : BOOLEAN, alone : BOOLEAN]]
    /\ \A c \in Callers : (call[c].pc = "write") <=> (modem.writer = c)

NoCall == [pc |-> "idle", id |-> 0, heard |-> FALSE, answered |-> FALSE,
           alone |-> FALSE]

ModemInit ==
    /\ modem = [ready |-> FALSE, response |-> 0, writer |-> NoCaller,
                reading |-> TRUE, line |-> <<>>, issued |-> 0]
    /\ call = [c \in Callers |-> NoCall]

Calling == {c \in Callers : call[c].pc # "idle"}

(* Mutant: the flag of the command before is left standing.                *)
UnpreparedFor(c) == [modem EXCEPT !.issued = @ + 1]

(* _cmd_ready and _cmd_response are reset.                                 *)
PreparedFor(c) ==
    [modem EXCEPT !.ready = FALSE, !.response = 0, !.issued = @ + 1]

Called(c, pc) ==
    [d \in Callers |->
        IF d = c
          THEN [NoCall EXCEPT
                  !.pc = pc, !.id = modem.issued + 1,
                  !.alone = Calling = {} /\ modem.line = <<>>]
          ELSE [call[d] EXCEPT !.alone = FALSE]]

(* Mutant: _serial_write_mtx is not taken.                                 *)
BeginUnlocked(c) ==
    /\ call[c].pc = "idle"
    /\ modem' = [PreparedFor(c) EXCEPT !.writer = c]
    /\ call' = Called(c, "write")

(* LoRaWAN: _serial_write_mtx is held from before the reset until the      *)
(* command is written, and _cmd_mtx only while resetting and waiting.      *)
BeginLoRaWAN(c) ==
    /\ call[c].pc = "idle"
    /\ modem.writer = NoCaller
    /\ modem' = [PreparedFor(c) EXCEPT !.writer = c]
    /\ call' = Called(c, "write")

WriteCommand(c) ==
    /\ call[c].pc = "write"
    /\ modem' = [modem EXCEPT !.line = Append(@, call[c].id),
                              !.writer = NoCaller]
    /\ call' = [call EXCEPT ![c].pc = "written"]

Leave(c, m) ==
    /\ call' = [call EXCEPT ![c] = NoCall]
    /\ modem' = m

(* ERROR_WRITE, with nothing written.                                      *)
WriteFails(c) ==
    /\ call[c].pc = "write"
    /\ Leave(c, [modem EXCEPT !.writer = NoCaller])

(* Mutant: the flag is reset on the way to the wait.                       *)
StartWaitingReset(c) ==
    /\ call[c].pc = "written"
    /\ call' = [call EXCEPT ![c].pc = "wait"]
    /\ modem' = [modem EXCEPT !.ready = FALSE]

StartWaiting(c) ==
    /\ call[c].pc = "written"
    /\ call' = [call EXCEPT ![c].pc = "wait"]
    /\ UNCHANGED modem

(* Myriota: _cmd_mtx is held from the reset into the wait, so that neither *)
(* the reader nor another caller gets in between.                          *)
SendMyriota(c) ==
    /\ call[c].pc = "idle"
    /\ modem' = [PreparedFor(c) EXCEPT !.line = Append(@, modem.issued + 1)]
    /\ call' = Called(c, "wait")

(* The same with a failing write: the call is over, and the answer another *)
(* call waits for may have been cleared.                                   *)
SendMyriotaFails(c) ==
    /\ call[c].pc = "idle"
    /\ modem' = PreparedFor(c)
    /\ call' = [Called(c, "idle") EXCEPT ![c] = NoCall]

-----------------------------------------------------------------------------
(* The modem answers the commands in order, and late if it likes; the      *)
(* reader takes its status line.                                           *)
ReaderTakesStatus ==
    /\ modem.reading
    /\ modem.line # <<>>
    /\ modem' = [modem EXCEPT !.ready = TRUE, !.response = Head(modem.line),
                              !.line = Tail(@)]
    /\ call' = [c \in Callers |->
                  IF c \in Calling
                    THEN [call[c] EXCEPT
                            !.heard = TRUE,
                            !.answered = @ \/ call[c].id = Head(modem.line)]
                    ELSE call[c]]

(* A command without an answer: its echo or status was garbled.            *)
ModemLoses ==
    /\ modem.line # <<>>
    /\ modem' = [modem EXCEPT !.line = Tail(@)]
    /\ UNCHANGED call

(* wait_for() with its predicate: notified or out of time, the flag        *)
(* decides.  _cmd_ready stays set.                                         *)
Answered(c) == call[c].pc = "wait" /\ modem.ready

ReturnResponse(c) == Answered(c) /\ Leave(c, modem)

ReturnTimeout(c) == call[c].pc = "wait" /\ ~modem.ready /\ Leave(c, modem)

Returning(c) ==
    \/ WriteCommand(c) \/ WriteFails(c) \/ StartWaiting(c)
    \/ ReturnResponse(c) \/ ReturnTimeout(c)

(* The destructor ends the reader and joins it.                            *)
StopReader ==
    /\ modem' = [modem EXCEPT !.reading = FALSE]
    /\ UNCHANGED call

-----------------------------------------------------------------------------
(* What a call is about to return was read from the modem after it began,  *)
(* that is after its reset of _cmd_ready: no answer is left for it from    *)
(* before, however other calls overlap it.  On LoRaWAN it may still have   *)
(* been read before the command of the call was written.                   *)
AnswersFresh == \A c \in Callers : Answered(c) => call[c].heard

(* A call that no other overlaps, and that does not follow a command still *)
(* unanswered, returns the answer of its own command if it came in time.   *)
AloneGetsOwn ==
    \A c \in Callers :
        call[c].pc = "wait" /\ call[c].alone /\ call[c].answered =>
            modem.ready /\ modem.response = call[c].id

=============================================================================
