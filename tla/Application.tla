----------------------------- MODULE Application -----------------------------
(***************************************************************************)
(* The daemon (testing/fragmentation/main.cpp): the main thread starts the *)
(* backhaul core and the SCHC core with its stack, and at a signal stops   *)
(* them in either order; the orchestrator (Orchestrator.cpp) carries       *)
(* messages between the cores in the threads of their senders.  Of the     *)
(* SCHC core there are here only the threads of its sessions, which send   *)
(* frames through the stack and hand packets over; the rest of it is       *)
(* module SCHCCore.                                                        *)
(***************************************************************************)
EXTENDS BackhaulCore, DelayedUplinks, SerialModem, FiniteSets

CONSTANTS
    Stacks,     \* the stacks there may be
    main,       \* the main thread, among the Callers
    MaxEvents   \* bound on what happens from outside

Workers == Callers \ {main}

ASSUME ApplicationAssumption ==
    /\ Stacks \subseteq {"lorawan", "myriota", "mqtt"}
    /\ main \in Callers /\ NoCaller \notin Callers
    /\ MaxEvents \in Nat
    /\ Packets = 1 .. MaxEvents /\ Uplinks = 1 .. MaxEvents

VARIABLES
    conf,       \* the stack, and tunnel_6to4
    mainPc,     \* what the main thread does next
    cores,      \* the cores registered with the orchestrator
    stopped,    \* those of them whose stop() has returned
    events      \* how much has happened from outside

vars == <<bh, net, crashed, delay, modem, call, conf, mainPc, cores,
          stopped, events>>

(* The destructors, from the one of the stack on, and after them.          *)
Destroying == {"stackFlag", "stackClear", "joinScheduler", "stopReader",
               "lastCommand", "lastWait", "done"}

MainStates ==
    {"registerBackhaul", "registerSchc", "startBackhaul", "startStack",
     "starting", "run", "signalled", "eventfd", "notify", "close", "joinRx",
     "joinTx", "stopCore", "stuck"} \cup Destroying

TypeOK ==
    /\ BackhaulTypeOK
    /\ DelayTypeOK
    /\ ModemTypeOK
    /\ conf \in [stack : Stacks, tunnel : BOOLEAN]
    /\ mainPc \in MainStates
    /\ cores \subseteq {"BACKHAUL", "SCHC"}
    /\ stopped \subseteq cores
    /\ events \in 0 .. MaxEvents

Init ==
    /\ BackhaulInit
    /\ DelayInit
    /\ ModemInit
    /\ conf \in [stack : Stacks, tunnel : BOOLEAN]
    /\ mainPc = "registerBackhaul"
    /\ cores = {}
    /\ stopped = {}
    /\ events = 0

-----------------------------------------------------------------------------
(* The orchestrator: a message of one core goes to the other, in the       *)
(* thread that has it, and not a core that is not registered.              *)
selectDestination(ingress) == IF ingress = "BACKHAUL" THEN "SCHC" ELSE "BACKHAUL"
CanForward(ingress) == selectDestination(ingress) \in cores

Throw == crashed' = TRUE /\ UNCHANGED <<bh, net>>

HandOver ==
    /\ bh.rx = "forward"
    /\ bh.frame # <<"runt">>
    /\ IF CanForward("BACKHAUL") THEN RxForward ELSE Throw

OnlyBackhaul == UNCHANGED <<delay, modemVars, conf, mainPc, cores, stopped,
                            events>>

BackhaulRx ==
    /\ \/ RxPoll \/ RxRecvStopped \/ RxThrow \/ HandOver
       \/ RxDrop(conf.tunnel) \/ RxTake(conf.tunnel)
    /\ OnlyBackhaul

BackhaulRxFails == RxFails /\ OnlyBackhaul

BackhaulTx ==
    /\ TxTop \/ TxTake \/ TxFindNothing \/ TxSleep \/ TxSend
    /\ OnlyBackhaul

-----------------------------------------------------------------------------
(* What comes from outside, each of them numbered.                         *)
Event == events < MaxEvents /\ events' = events + 1

(* There are sessions from the end of start() until stop() has joined      *)
(* their threads.                                                          *)
SessionsLive ==
    /\ mainPc \in {"run", "signalled", "eventfd", "notify", "close", "joinRx",
                   "joinTx", "stopCore", "stuck"}
    /\ "SCHC" \notin stopped

StackLives ==
    mainPc \notin {"registerBackhaul", "registerSchc", "startBackhaul",
                   "startStack", "done"}

InterfaceReceives ==
    /\ Event
    /\ \E f \in Frames : FrameArrives(f)
    /\ UNCHANGED <<delay, modemVars, conf, mainPc, cores, stopped>>

(* A session has put a packet together.                                    *)
SessionHandsOver ==
    /\ Event
    /\ SessionsLive
    /\ IF CanForward("SCHC") THEN BackhaulEnqueue(events + 1) ELSE Throw
    /\ UNCHANGED <<delay, modemVars, conf, mainPc, cores, stopped>>

(* A session calls send_frame().                                           *)
SessionSends ==
    /\ Event
    /\ SessionsLive
    /\ \E c \in Workers :
         \/ conf.stack = "lorawan" /\ BeginLoRaWAN(c)
         \/ conf.stack = "myriota" /\ (SendMyriota(c) \/ SendMyriotaFails(c))
    /\ UNCHANGED <<backhaulVars, delay, conf, mainPc, cores, stopped>>

(* The MQTT client calls back until the stack is gone.  A message without  *)
(* a payload or port is ignored; the exceptions of the JSON library, about *)
(* text that is no JSON or a field of another type, nobody catches.        *)
BrokerBrings ==
    /\ Event
    /\ conf.stack = "mqtt"
    /\ StackLives
    /\ \/ UplinkArrives(events + 1) /\ UNCHANGED backhaulVars
       \/ UNCHANGED <<delay, backhaulVars>>
       \/ Throw /\ UNCHANGED delay
    /\ UNCHANGED <<modemVars, conf, mainPc, cores, stopped>>

(* Nor, in the reader thread, those of a downlink with no rule id or with  *)
(* something else than numbers in its line.                                *)
ModemBringsBadLine ==
    /\ Event
    /\ conf.stack = "lorawan"
    /\ StackLives /\ modem.reading
    /\ Throw
    /\ UNCHANGED <<delay, modemVars, conf, mainPc, cores, stopped>>

OnlyDelay == UNCHANGED <<backhaulVars, modemVars, conf, mainPc, cores,
                         stopped, events>>

SchedulerRuns ==
    /\ conf.stack = "mqtt"
    /\ StackLives
    /\ Scheduler
    /\ OnlyDelay

ClockRuns == TimePasses /\ OnlyDelay

CallReturns(c) ==
    /\ Returning(c)
    /\ UNCHANGED <<backhaulVars, delay, conf, mainPc, cores, stopped, events>>

ModemRuns ==
    /\ ReaderTakesStatus \/ ModemLoses
    /\ UNCHANGED <<backhaulVars, delay, conf, mainPc, cores, stopped, events>>

-----------------------------------------------------------------------------
(* The main thread.                                                        *)

MainGoes(from, to) == mainPc = from /\ mainPc' = to

OnlyMain == UNCHANGED <<backhaulVars, delay, modemVars, cores, stopped>>
OnlyStack == UNCHANGED <<backhaulVars, cores, stopped>>

Register(from, core, to) ==
    /\ MainGoes(from, to)
    /\ cores' = cores \cup {core}
    /\ UNCHANGED <<backhaulVars, delay, modemVars, stopped>>

Registers ==
    \/ Register("registerBackhaul", "BACKHAUL", "registerSchc")
    \/ Register("registerSchc", "SCHC", "startBackhaul")

(* The constructor of a stack and init() send the modem its settings, of   *)
(* which one stands for all.                                               *)
Starts ==
    \/ /\ MainGoes("startBackhaul", "startStack")
       /\ BackhaulStart
       /\ UNCHANGED <<delay, modemVars, cores, stopped>>
    \/ /\ conf.stack = "mqtt"
       /\ MainGoes("startStack", "run")
       /\ OnlyMain
    \/ /\ conf.stack = "lorawan"
       /\ MainGoes("startStack", "starting")
       /\ BeginLoRaWAN(main)
       /\ OnlyStack /\ UNCHANGED delay
    \/ /\ conf.stack = "myriota"
       /\ MainGoes("startStack", "starting")
       /\ SendMyriota(main) \/ SendMyriotaFails(main)
       /\ OnlyStack /\ UNCHANGED delay
    \/ call[main].pc = "idle" /\ MainGoes("starting", "run") /\ OnlyMain

Signal == MainGoes("run", "signalled") /\ OnlyMain

(* Orchestrator::stop() goes through a hash table: either core may be next. *)
StopReturns(from, core) ==
    /\ MainGoes(from, "signalled")
    /\ stopped' = stopped \cup {core}
    /\ UNCHANGED <<backhaulVars, delay, modemVars, cores>>

StopsBackhaul ==
    \/ /\ \/ /\ "BACKHAUL" \in cores \ stopped
             /\ MainGoes("signalled", "eventfd")
             /\ StopRunning
          \/ MainGoes("eventfd", "notify") /\ StopSignal
          \/ MainGoes("notify", "close") /\ StopNotifyTx
          \/ MainGoes("close", "joinRx") /\ StopClose
       /\ UNCHANGED <<delay, modemVars, cores, stopped>>
    \/ bh.rx = "done" /\ MainGoes("joinRx", "joinTx") /\ OnlyMain
    \/ bh.tx = "done" /\ StopReturns("joinTx", "BACKHAUL")

(* Mutant: the threads of the sessions are not waited for.                 *)
StopsCoreUnjoined ==
    \/ /\ "SCHC" \in cores \ stopped
       /\ MainGoes("signalled", "stopCore") /\ OnlyMain
    \/ StopReturns("stopCore", "SCHC")

(* SCHCCore::stop() joins the threads of the sessions, which first return  *)
(* from send_command().                                                    *)
StopsCore ==
    \/ /\ "SCHC" \in cores \ stopped
       /\ MainGoes("signalled", "stopCore") /\ OnlyMain
    \/ /\ \A c \in Workers : call[c].pc = "idle"
       /\ StopReturns("stopCore", "SCHC")

(* It may also, as module SCHCCore shows in detail, wait for ever for a    *)
(* thread that waits for it, or release a session that is at work.         *)
StopFails ==
    /\ \/ MainGoes("stopCore", "stuck") /\ UNCHANGED backhaulVars
       \/ mainPc = "stopCore" /\ Throw /\ UNCHANGED mainPc
    /\ UNCHANGED <<delay, modemVars, conf, cores, stopped, events>>

(* The destructors, from the stack of the SCHC core on.  The one of the    *)
(* LoRaWAN stack sends a command when there is no reader any more.         *)
DestroysStack ==
    \/ /\ stopped = cores
       /\ MainGoes("signalled",
                   IF conf.stack = "mqtt" THEN "stackFlag" ELSE "stopReader")
       /\ OnlyMain
    \/ /\ \/ MainGoes("stackFlag", "stackClear") /\ StopScheduler
          \/ MainGoes("stackClear", "joinScheduler") /\ clear_delay_queue
       /\ OnlyStack /\ UNCHANGED modemVars
    \/ /\ delay.pc = "done"
       /\ MainGoes("joinScheduler", "done")
       /\ OnlyMain
    \/ /\ MainGoes("stopReader",
                   IF conf.stack = "lorawan" THEN "lastCommand" ELSE "done")
       /\ StopReader
       /\ OnlyStack /\ UNCHANGED delay
    \/ /\ MainGoes("lastCommand", "lastWait")
       /\ BeginLoRaWAN(main)
       /\ OnlyStack /\ UNCHANGED delay
    \/ call[main].pc = "idle" /\ MainGoes("lastWait", "done") /\ OnlyMain

MainRuns ==
    /\ Registers \/ Starts \/ StopsBackhaul \/ StopsCore \/ DestroysStack
    /\ UNCHANGED <<conf, events>>

-----------------------------------------------------------------------------
Outside ==
    \/ InterfaceReceives \/ SessionHandsOver \/ SessionSends
    \/ BrokerBrings \/ ModemBringsBadLine

(* An exception that leaves the function of a thread ends the program.     *)
Next ==
    /\ ~crashed
    /\ \/ BackhaulRx \/ BackhaulRxFails \/ BackhaulTx
       \/ Outside
       \/ SchedulerRuns \/ ClockRuns \/ ModemRuns
       \/ \E c \in Callers : CallReturns(c)
       \/ MainRuns \/ StopFails
       \/ Signal /\ UNCHANGED <<conf, events>>

(* Fairness: the threads run and time passes.  Nothing is assumed of the   *)
(* modem, the network or the signal, and no failure counts as progress.    *)
Fairness ==
    /\ WF_vars(~crashed /\ BackhaulRx)
    /\ WF_vars(~crashed /\ BackhaulTx)
    /\ WF_vars(~crashed /\ SchedulerRuns)
    /\ WF_vars(~crashed /\ ClockRuns)
    /\ \A c \in Callers : WF_vars(~crashed /\ CallReturns(c))
    /\ WF_vars(~crashed /\ MainRuns)

Spec == Init /\ [][Next]_vars /\ Fairness

-----------------------------------------------------------------------------
(* Nobody calls into what is being destroyed: before the destructors begin *)
(* both threads of the backhaul have ended and no session is in the stack  *)
(* any more, and main() ends after the scheduler or the reader, which the  *)
(* destructor of the stack joins while they may still call the SCHC core.  *)
JoinedBeforeDestroyed ==
    /\ mainPc \in Destroying =>
         /\ bh.rx = "done" /\ bh.tx = "done"
         /\ \A c \in Workers : call[c].pc = "idle"
    /\ mainPc = "done" =>
         IF conf.stack = "mqtt" THEN delay.pc = "done" ELSE ~modem.reading

BackhaulStopping == bh.rx # "none" /\ ~bh.running

(* The packets of the sessions leave by the interface in order, each once, *)
(* but for those whose send() failed, which is logged; and until the       *)
(* backhaul is told to stop each of them leaves or fails.                  *)
Outgoing == INSTANCE Relay WITH
    Items <- Packets, pending <- bh.msg \o bh.queue, passed <- net.out,
    refused <- net.refused, closing <- crashed \/ BackhaulStopping

PacketsRelayed == Outgoing!Spec

(* So do the messages of the broker on their way through the delay queue   *)
(* to the SCHC core, until the stack is destroyed.                         *)
Delayed == INSTANCE Relay WITH
    Items <- Uplinks, pending <- delay.msg \o delay.queue,
    passed <- delay.core, refused <- <<>>, closing <- crashed \/ ~delay.running

UplinksRelayed == Delayed!Spec

(* The loop that sends went to sleep on txCv after stop() had notified it: *)
(* the join that follows never returns.                                    *)
TxMissedNotify == mainPc = "joinTx" /\ bh.tx \in {"parking", "parked"}

(* Once signalled, the main thread gets to the end of main(), whatever the *)
(* threads it joins are waiting for: an answer, a packet, the next due     *)
(* uplink; but for that sleep and for a stop() of the SCHC core that never *)
(* returns.                                                                *)
MainReturns ==
    mainPc = "signalled" ~>
        (mainPc \in {"done", "stuck"} \/ crashed \/ TxMissedNotify)

=============================================================================
