# A TLA+ model of ModularSCHC

ModularSCHC is a C++ daemon that carries IPv6 packets over LoRaWAN and Myriota
links with the fragmentation sublayer of SCHC (RFC 8724).  The same program
runs on an end device (*node*) and on the network side (*gateway*).  This
directory holds TLA+ modules that describe what its threads and protocol
machines do, TLC configurations that check small instances of them, and proofs,
checked by TLAPS, of the theorems that hold for every instance.

Beside the daemon there is a program that compresses IPv6 and UDP headers by
rules (`src/CompressionSCHC/`), which is modelled too.  Paths below are relative
to `src/FragmentationSCHC/`.

## 1. The system

```
   IPv6 interface                                         LoRaWAN / Myriota
        |                                                        |
  BackhaulCore  <---->  Orchestrator  <---->  SCHCCore  <---->  stack
   rx, tx threads      routes by ingress     tx, rx, cleaner     reader thread
                                              |  uplinkSessions
                                              |  downlinkSessions
                                              v
                                          SCHCSession  (one thread each)
                                              |  eventQueue
                                              v
                                     ARQ-FEC or ACK-on-Error machine, timer
```

| Component | State it keeps | Operations | Talks to |
|---|---|---|---|
| `src/SCHCSession.cpp` | event queue, flags `running` and `_isDead`, device, owned state machine, process thread | `init`, `enqueueEvent`, `processEventLoop`, `release`, `setDead` | its machine (calls), the core (calls it), the timer (callback) |
| `src/SCHCCore.cpp` | two session maps and their counters under `sessionsMtx`, `txQueue`, `protoQueue`, `running` | `start`, `stop`, `runTx`, `runRx`, `runCleaner`, the two enqueue functions | orchestrator, stack, sessions |
| `src/schcArqFec/` | sender and receiver machines: tiles, parity, per-window bitmaps, current window | `execute`, `timerExpired`, `executeAgain` per state | stack (sends), session (events), core (reassembled packet) |
| `src/schcAckOnError/` | the same, with three acknowledgement modes and a retransmission timer | the same | the same |
| `src/SCHCMessage.cpp` | none | build, classify and decode the six message types | the machines |
| `src/SCHCTimer.cpp` | one thread, one condition variable | `start`, `stop` | its machine's callback |
| `src/Orchestrator.cpp` | registered cores | `registerCore`, `onMessageFromCore`, `stop` | the cores |
| `src/BackhaulCore.cpp` | raw sockets, `txQueue` | `runRx`, `runTx`, `stop` | orchestrator, kernel |
| `src/stacks/` | serial port or MQTT/HTTP client, command response, delay queue | `send_frame`, `send_command`, readers, `scheduler_loop` | modem or network server, core |
| `src/ConfigManager.cpp` | configuration structures | `loadFromFile` | everything, at start-up |
| `testing/fragmentation/main.cpp` | the cores, the orchestrator | start, wait for a signal, stop | the cores |
| `../CompressionSCHC/src/SCHC_Compressor.cpp`, `PacketParser.cpp`, `SCHC_Packet.cpp` | `FSM_Ctx`: packet, fields, selected and default rule, search position, mapping indexes, residue | `stepFSM` and a function per state; bit writer | the rules |
| `../CompressionSCHC/src/SCHC_RulesManager.cpp`, `SCHC_Rule.cpp` | `RuleContext`, `rules.json`, `rules.tmp.json` | load, create, write, validate, insert | files, libyang |
| `../CompressionSCHC/Test/main.cpp` | the context and the rules, shared by the two above | a menu: create a rule, compress a packet | a user; the daemon does not call it |

Everything that crosses two components is a message in a queue with a mutex and
a condition variable of its own, except the calls the core makes on a session
(`enqueueEvent`, `getDead`, `release`) and the calls a machine makes on its
session and core.

What makes the behaviour hard:

* **Threads.** A core has three, a session one, a timer one, a stack at least
  one.  The session counters are read without the mutex that guards the maps;
  `release()` and `stop()` notify condition variables without their mutexes;
  the machine is owned by one thread and called by another.
* **Failing calls and exceptions.** `send()`, `recvfrom()`, `write()` to the
  modem and the replacement of the file of rules may fail; text from outside
  throws in threads where nobody catches.
* **Failure of the link.** Both directions lose messages, and both are slow
  enough for a message to arrive when its session is over.
* **Shutdown.** `stop()` may be called at any moment of any of this.
* **Sharing.** All threads of a node wait for answers of the modem on one flag.
* **Files.** The rules of the compressor are in memory and in a file that is
  replaced in several steps.
* **Event order.** A machine sees its own "execute again" events, timer
  expiries and stack messages in one FIFO, so an event raised in one state is
  handled in another.

Correctness, component by component: a *session* is called only while it has a
machine, and stops when told; the *core* keeps its counters equal to its maps,
never exceeds the limits of `start()`, never disturbs a session that works,
always reaps one that is over, answers every packet, and stops; a *protocol
machine* confirms a packet only if the receiver delivered it, delivers it at
most once and whole, and ends; the *codec* is inverted by the decoder; a *modem
command* gets no answer from before its call; a *queue* between two threads
keeps what it is given, in order, until it is told that it could not be passed
on; *main()* destroys nothing under a thread that uses it, and returns after a
signal; the *compressor* uses the first rule that fits and sends what the other
end needs, and only a creation that could not read the file of rules loses any.

## 2. The modules

| Module | Role |
|---|---|
| `SCHCSession` | every session slot of a core: event queue, process thread, `release()` in its steps, timer callback |
| `SCHCCore` | `runTx`, `runRx`, `runCleaner`, `stop()` around the maps; composes with `SCHCSession` by EXTENDS, sharing `sess` |
| `SessionPool` | abstract: a slot is free, working or over |
| `ArqFecLink` | the messages of the ARQ-FEC machines, how they are told apart, two lossy FIFO channels |
| `ArqFecSender`, `ArqFecReceiver` | `schcArqFec/SCHCArqFec*.cpp`, the queues of their sessions, and the sessions late messages open |
| `PacketDelivery` | abstract: a packet is delivered at most once, confirmed only when delivered |
| `ArqFec` | composes the three; packets one after the other |
| `AckOnErrorSender` | `schcAckOnError/SCHCAckOnErrorSender*.cpp` with its session's queue and its timer |
| `AckOnError` | composes it with the thread of the timer and a gateway that answers as it likes |
| `SCHCMessage` | `SCHCMessage.cpp`: building, classifying and decoding, byte by byte |
| `MessageExchange` | both ends of a session writing messages to each other |
| `BackhaulCore` | `runRx`, `runTx` and the steps of `stop()` of `BackhaulCore.cpp` |
| `DelayedUplinks` | the delay queue and `scheduler_loop` of `SCHCLoRaWAN_NS_MQTT_Stack.cpp` |
| `SerialModem` | `send_command` and the reader thread of the LoRaWAN and Myriota stacks |
| `Relay` | abstract: a queue between two threads |
| `Application` | composes the four with the orchestrator and `main()` |
| `SCHCCompressor` | the state machine, the parser and the bit writer of the compressor |
| `RuleManager` | the rules in memory and in their two files |
| `CompressionTest` | composes the two in the program with the menu |
| `MC...` | instances for TLC |
| `SCHCCoreProofs`, `ArqFecProofs`, `AckOnErrorProofs`, `MessageExchangeProofs`, `ApplicationProofs`, `CompressionProofs`, `ResidueProofs` | theorems |

A comment `Mutant:` marks a definition that stands beside the one it could have
been; each breaks a property of a run.

### SCHCSession and SCHCCore

*State.*  `sess[s]` is the `SCHCSession` object of slot `s` (members `running`,
`_isDead`, `_dev_id`, `eventQueue`, whether `_stateMachine` is owned or freed,
and where `processEventLoop()` is); a slot is a key of one of the two maps,
direction and offset from the identifiers 20 and 21.  `inMap` holds the keys of
both maps, `counter` their counters (bytes), `queue` the two queues of the
core, `loop` the place of `runTx` and `runRx`, `visit` that of `runCleaner` and
of the caller of `stop()`, `sessionsMtx` who holds that mutex over several
steps.

*Grain.*  A critical section that cannot block is one action, guarded by the
mutex being free.  The two that can block hold the mutex explicitly:
`runCleaner`'s pass and `stop()`, each of which visits the sessions in map
order and releases them in the four steps of `release()` (flag, machine,
notification, join).  `runTx` has a step for each of its unguarded reads of the
counter (`TxAdmit`, `TxName`) before the one that takes the mutex (`TxEmplace`
or `TxIgnore`).  A wait on a condition variable has three steps: the predicate
(`...FindNothing`, mutex held), the sleep, and the wake-up a notification
causes; a notification sent without the mutex is heard only by a thread that
already sleeps.

| Code | Actions |
|---|---|
| `enqueueFromOrchestator`, `enqueueFromStack` | `EnqueueFromOrchestator`, `EnqueueFromStack` |
| loops of `runTx`, `runRx` (162-182, 334-354) | `LoopTop`, `LoopTake`, `LoopFindNothing`, `LoopSleep` |
| `runTx` body | `TxRefuse`, `TxAdmit`, `TxName`, `TxEmplace`, `TxIgnore` |
| `runRx` body | `RxSkip`, `RxOpen`, `RxWarn`, `RxDeliver` |
| `runCleaner` | `ClWake`, `StartVisit`, `PassOver`, `ReleaseSession`, `FreeMachine`, `NotifySession`, `ClErase`, `ClUnlock` |
| `stop` | `StopCall`, the same visit, `StopJoined`, `StopFlag`, `StopNotify`, `StopJoinLoop`, `StopJoinCleaner` |
| `processEventLoop` | `ProcLeave`, `ProcTake`, `ProcFindNothing`, `ProcSleep`, `ProcCall`, `ProcSetDead`, `ProcReturn`, `ProcReturnFreed` |
| timer callback | `TimerExpires` |

*Deployments.*  `runTx` and `runRx` branch on node or gateway and on LoRaWAN or
Myriota.  The constant `Deployment` selects the branch; it decides in which
direction packets go (`TxDirection`), which messages `runRx` routes
(`RxRoutes`) and for which it opens a session (`RxCreates`).  The one that
matters is the LoRaWAN gateway, whose `runRx` opens sessions of the direction
`runTx` opens too.

*Abstracted.*  What a machine does with an event is the protocol modules'
business: here it may declare itself dead, ask to be executed again, and, once
out of `STATE_INIT`, have its timer expire.  A packet or a message is its
direction and device.  Calling through the null pointer that
`_stateMachine.reset()` leaves sets `crashed`; a return into a machine that was
deleted under the call either crashes or does nothing.

### ArqFecLink, ArqFecSender, ArqFecReceiver, ArqFec

*State.*  `snd` is the sender machine with its session: `_currentState`, the
packet, the three counters (`_currentTile_ptr`, `_currentWindow`,
`_currentFcn`), the set bits of `_bitmapArray`, `_win_with_errors`, and the
session's event queue, in which messages and the machine's own "execute again"
events mix.  `rcv` is the receiver: its state, the matrix columns it holds (a
tile is the packet it is from and its index there), the bits of
`_bitmapArray`, `_last_window` and `_rcs` of the All-1, a pending "execute
again", the inactivity timer.  `up` and `down` are the two directions of the
link; `up` is also the receiver's event queue, since nothing else but one
"execute again" is ever in it.  `delivered` counts what went to the backhaul
core, `offered` and `confirmed` are history.

| Code | Actions |
|---|---|
| `Sender_INIT` (first fragment, or everything if it fits) | `SenderOpen` |
| `Sender_SEND` | `SendMore`, `SendLast`, `SendCut` (the receiver says it has enough) |
| `Sender_WAIT_X_SESSION_ACK` | `SenderConfirmed`, `SenderReported` |
| `Sender_RESEND_MISSING_FRAGS` | `Resend`, `SenderConfirmed` |
| `Sender_END` and the cleaner | `SenderEnds`, `SenderReaped` |
| messages no state handles | `SenderIgnores` |
| `runRx` towards the sender | `SenderHears` |
| `Receiver_INIT` | `RcvFirst`, `RcvStranger`, `RcvDiscard` (the simulated loss of `error_prob`) |
| `Receiver_RCV_WINDOW`, `Receiver_WAIT_X_ALL_1` | `RcvTiles`, `RcvAll1`, `RcvCrash` |
| `Receiver_WAIT_X_MISSING_FRAGS` | `RcvMissing`, `RcvAckReq` |
| `Receiver_END` and the cleaner | `RcvLateAll1`, `RcvAgain`, `RcvReaped` |
| messages no state handles | `RcvIgnores` |
| the link | `LoseUp`, `LoseDown` |

*Abstracted.*  The Reed-Solomon codec is what it promises: any `ksymbols` right
columns recover the packet, a wrong column costs two, and the RCS tells.  The
length of a compound ACK is kept, because `get_msg_type()` goes by it: one
window makes nine bytes and is read as an ACK.  `RcvCrash` is the undefined
behaviour of `Receiver_WAIT_X_ALL_1`, whose constructor resizes `_bitmapArray`
to a member that nothing initialises and then lets the All-1 write into it.
Neither side has a timer while it waits: `Sender_*` has the calls commented out.

*Left out.*  The data rates DR0 to DR2, whose MTU holds no tile, and packets of
more tiles than the two bits of W can name: `ArqFecAssumption` says so.

### AckOnErrorSender, AckOnError

*State.*  `snd` is the machine as above, with `_last_confirmed_window`,
`_rtxAttemptsCounter`, whether the timer is armed, and its mechanism
(`ack_end_win`, `ack_end_session`, `compound_ack`).  `undefined` is the state
after an access outside an array.  `lacking`, `unheeded` and `stray` are
history: the tiles never sent or reported missing since; those whose report the
code stores where it does not look; whether an ACK came out of turn.  `air` is
the frames of the last transmission, each of which the gateway may answer once.

| Code | Actions |
|---|---|
| `Sender_INIT`, `Sender_SEND` | `Start`, `SendFragment`, `SendLast`, `SendBeyond` (past the end of `_tilesArray`) |
| `Sender_WAIT_X_ACK` | `WaitAck`, `WaitNack`, `WaitTimer`, `WaitWithoutMessage` (reads the first byte of nothing) |
| `Sender_RESEND_MISSING_FRAG` | `Resend`, `ResendNothing` |
| `Sender_END`, `Sender_ERROR` | `Finish` |
| events no state handles | `Ignore` |
| `SCHCTimer` and its callback | `TimerFires` |

The gateway is not the receiver of this repository, which takes no fragment for
one (run `MessagesDeaf`), but any that speaks its format.

### SCHCMessage, MessageExchange

Operators over sequences of bytes and bits: one for each `create_...`, for
`get_msg_type` and for each value that `decodeMsg` leaves.  `MessageExchange`
has one message in the air, what its writer meant and its bytes; `rule` and
`receiver` say which machines are at the ends.

### BackhaulCore, DelayedUplinks, SerialModem, Application

*State.*  `bh` is the backhaul core with the places of its two threads and
`txQueue`; `net` what the interface holds, what was sent through it and what
`send()` refused; `delay`
the delay queue and the place of the scheduler; `modem` the flag `_cmd_ready`,
`_cmd_response`, the holder of `_serial_write_mtx` and the commands not
answered yet; `call` each thread's place in `send_command`; `cores` what is
registered with the orchestrator, `stopped` those whose `stop()` has returned,
`mainPc` the place of `main()`.  The orchestrator has no thread: it runs in that
of whoever sends.

*The end.*  `Orchestrator::stop()` goes through an `unordered_map`, so the cores
are stopped in either order (`StopsBackhaul`, `StopsCore`).  `SCHCCore::stop()`
may wait for ever (`stuck`) or release a session at work and end the program:
`StopFails` stands for what `SCHCCore` has in detail (runs `CoreStopHang` and
`CoreMyriota`).  The program also ends (`crashed`) when an exception leaves the
function of a thread: a short frame in `runRx` (`RxThrow`), a message that the
JSON library rejects in the MQTT client (`BrokerBrings`), a downlink line that
is not numbers in the reader (`ModemBringsBadLine`), a message for a core that
is not registered (`Throw`, which the order of `main()` never reaches).

*Failing calls.*  A `send()` that fails loses its packet with a log (`TxSend`);
`poll()` or `recvfrom()` ends or resumes the loop (`RxFails`); a `write()` to
the modem ends the call (`WriteFails`, `SendMyriotaFails`).  All may happen at
any time.

*Grain.*  As in `SCHCCore`: a critical section is an action, a wait is three.
The test of a `while` is one action with the poll that follows when nothing is
between them.  Myriota's `send_command` holds `_cmd_mtx` from the reset of the
flag to the wait and is one action up to there; LoRaWAN's has a step for each
lock it takes.  The clock moves only when something waits for it.

*Abstracted.*  Of a frame, whether it is shorter than the header of IPv6.  Of
the start of a stack, one command for its many.  Of the SCHC core, the threads
of its sessions: they send frames and hand packets over from the end of
`start()` to the end of `stop()`.

| Code | Actions |
|---|---|
| `BackhaulCore::runRx`, `runTx`, `stop` | `RxPoll` ... `RxForward`, `RxFails`, `TxTop` ... `TxSend`, `StopRunning` ... `StopClose` |
| `Orchestrator` | `Register`, `CanForward`, `HandOver`, `SessionHandsOver`, `StopReturns` |
| `send_command` | `BeginLoRaWAN`, `WriteCommand`, `WriteFails`, `StartWaiting`, `SendMyriota`, `SendMyriotaFails`, `ReturnResponse`, `ReturnTimeout` |
| `serial_reader_loop` | `ReaderTakesStatus`, `ModemBringsBadLine` |
| `onMessage`, `scheduler_loop`, `clear_delay_queue` | `BrokerBrings` with `UplinkArrives`, `Scheduler...`, `clear_delay_queue` |
| `main` | `Registers`, `Starts`, `Signal`, `StopsBackhaul`, `StopsCore`, `StopFails`, `DestroysStack` |

### SCHCCompressor, RuleManager, CompressionTest

*State.*  `ctx` is `FSM_Ctx`, which lives as long as the program: `search` is
`search_position`, `defRule` and `selected` are pointers into the vector of
rules (a position, null, or `Dangling` after the vector has moved), `indexMM`
the indexes that the matching operators leave for the actions, `out` the result.
`began` is history.  `state_` is that of `CompressorFSM`.  `disk` is the two
files, with history of what a user may count on; `creating` the place in
"Create new rule".  `pc` is the place in the menu, or `off`.

*The file of rules.*  `write_rule_to_json()` takes a file that it cannot open,
read or parse for an empty one and says nothing (`SCHC_RulesManager.cpp:186`):
`WriteRule` reads the file or does not, and remembers it in `creating.unread`.
If such a creation succeeds, the file holds its rule only and memory all:
`disk.from` is how many rules of memory the file lacks at its beginning, and
`disk.saved`, the rules that the user may count on, begins again.

*Grain.*  One action per call of `stepFSM`, and per call that touches a file:
between any two the program can end, and be started again with what the files
hold.

*Abstracted.*  A field is its bits, in whole bytes; addresses, lengths and
checksums are of the right length and otherwise arbitrary.  JSON, base64 and
the YANG model are what a rule is after reading; of validation, the uniqueness
of a rule's key.  A read through a dangling pointer, or past the end of the
indexes, yields any byte or ends the program.

| Code | Actions |
|---|---|
| `st_idle` ... `st_gen`, `st_nocompress` | the actions of those names; `FindDefaultRule`, `FindNoRule` (error 4), `MoRejects`; `StepThrows` for what `main()` does not catch |
| `write_rule_to_json`, `validate_json_schc`, `insert_rule_into_context` | `WriteRule`, `ValidateRule`, `InsertRule`, `RefuseRule` |
| `rename`, `remove`, `rename` in `main` | `RenameFile`, `RemoveFile`, `RenameAgain`, `DiscardFile` |
| `main` | `Launch`, `Ends`, `ChoosesCreate`, `ChoosesCompress`, `ReadsPacket`, `Steps`, `Crashes` |

## 3. The runs

### Core

`Max...` and the two queue bounds are 1 in every run.  One session per direction
is what `start()` sets (75-76), so that bound is the program's own.  A queue of one
already separates "empty" from "not empty", which is all the loops test; a
second element only delays the producers, which are unconstrained anyway.
There is one device and a foreign one.  `CHECK_DEADLOCK FALSE` because the
daemon may stop, crash, or hang in the ways the properties describe.

| Run | Instance | Shows |
|---|---|---|
| `CoreNode` | LoRaWAN node that sends; late responses; `stop()` at any time; fair threads | types; who may touch a session (`MappedSessionsUsable`, `LockDiscipline`); a sender machine starts with a packet; dead sessions are reaped and packets answered unless a join is stuck |
| `CoreMyriota` | Myriota gateway, sessions of both directions | working sessions are left alone, an admitted packet finds its slot free, maps keep within the limit |
| `CoreGateway` | LoRaWAN gateway | counters equal maps even while raced for; refinement of `SessionPool` |
| `CoreStopHang` | node, fair | violation of `CleanerExits`: `stop()` joins threads that wait for the mutex it holds |

*Fairness.*  Weak fairness of every thread's next step: they are OS threads.
`runCleaner`'s wait has a time limit of two seconds, so it always wakes.
Strong fairness of the steps that take `sessionsMtx` or an event queue: the
cleaner sleeps two seconds between passes and a session releases its queue's
mutex after each event, so a thread that keeps asking gets its turn.  Nothing
is assumed of the packets, messages, timers, of the machine ever declaring
itself dead, or of the signal that calls `stop()`.

The liveness properties allow for `Interrupted`: a crash, a call of `stop()`,
or a join that waits for a thread which went to sleep past its notification.
A crash is the cleaner freeing a machine that is about to be called; a `stop()`
that hangs is what `CoreStopHang` shows.  The third, `StuckInJoin`, is a notification sent without the mutex of
its condition variable and lost: the code allows it and the model keeps it.

### ARQ-FEC

| Run | Instance | Shows |
|---|---|---|
| `ArqFec` | one packet of 8 tiles in windows of 3, 7 of them needed, 2 to a fragment; up to 4 losses; fair | refinement of `PacketDelivery`; confirmed without a loss (`CleanLinkConfirms`); once both ends are repairing, confirmed unless another message is lost (`RecoveryConfirms`) |
| `ArqFecPackets` | two packets of 4 tiles in windows of 2, up to 5 losses | types; `TilesInPlace`: both ends mean the same tile by W and FCN; `AgainPending`: a sending machine has exactly one event to go on with |
| `ArqFecSecondPacket` | two packets, no loss | violation of `ConfirmedMeansDelivered`: a session left from the first packet confirms the second |

*Bounds.*  Eight tiles in windows of three give three windows, fragments that
cross a window's end and fragments that stop at one, and a last window that is
not full.  One redundant tile makes every double loss a repair, and four losses
are enough to lose the repair too.  In `ArqFecPackets` five losses are the
fewest after which a column of the first packet spoils the decoding of the
second.  A packet that fits in one fragment is in the model and in no
instance.  Sessions are sequential, one per direction, as in the core.
`CHECK_DEADLOCK FALSE`: a session ends, and one that lost its last message
waits for ever.

*Fairness.*  Weak fairness of both machines and of `runRx` towards the sender,
which are threads.  None for the link's losses, for `RcvDiscard`, or for when
timers expire and sessions are reaped.  The properties name the losses they
allow for instead of assuming the link lossless from some point on.

`DeliverySpec` fails with a packet more (`ArqFecSecondPacket`); for one packet,
and for more if nothing of an earlier session is left that would answer the
next one, it is proved for windows, tiles and losses of any number (section 4).
`CleanLinkConfirms` and `RecoveryConfirms` hold for the instance of `ArqFec` and
not for every other: the first fails with four tiles in windows of three, the
second with the report of one window (section 6): that is the extent of what is
shown.  The liveness properties except a receiver that crashes on its
uninitialised member, or, in `RecoveryConfirms`, start where it no longer can.

### ACK-on-Error

| Run | Instance | Shows |
|---|---|---|
| `AckOnError` | windows of 3, two tiles to a fragment, packets of 2, 3, 4, 5 or 12 full tiles, each mechanism, one ACK request more than none, two answers of the gateway; fair | types; a sender that waits has its timer armed or its expiry queued (`WaitGuarded`); W and FCN say where tiles are (`FragmentsInPlace`); what was reported missing was sent again, unless an ACK came out of turn (`WaitingHasSent`); no access outside the arrays while ACKs come in turn (`InTurnAcksSafe`); a session ends (`SessionEnds`) |

*Bounds.*  The packets are one window, two with and without a full tile in the
last, two with a last fragment that begins in the first, and one that is too
large.  Two answers make a repetition and the ACK of it, or a repeated report,
or an ACK that crosses another; with the expiries that may be anywhere between,
that is every order of the three kinds of events that a state has to tell apart.
The gateway is bounded because one that answered for ever would keep a session
alive for ever.

*Fairness.*  Weak fairness of the session's thread and of an armed timer.
Nothing is assumed of the gateway.

### Messages

| Run | Instance | Shows |
|---|---|---|
| `Messages` | ARQ-FEC at the ends; every W, every place of the last missing tile, every list of windows, payloads of none to two bytes | each end takes a message for what it is (`FragmentsToldApart`, `AcksToldApart`), and gets back its fields and its bitmaps (`FieldsSurvive`, `BitmapsSurvive`) |
| `MessagesDeaf` | the ACK-on-Error receiver | violation of `FragmentsToldApart`: it reads with the protocol of a node and takes every fragment for an ACK |

The window has its 63 tiles here: lengths are what `get_msg_type()` goes by.
`AcksToldApart` names its exception, a compound ACK of one window, and
`FragmentsToldApart` its own, a fragment without a tile.

### The daemon

| Run | Instance | Shows |
|---|---|---|
| `Application` | each stack, with and without the tunnel, two sessions, two events from outside, fair | types; nothing is destroyed before the threads that use it have ended (`JoinedBeforeDestroyed`); an answer was taken after the reset of its call (`AnswersFresh`), and is the own one if no call overlaps (`AloneGetsOwn`); packets and uplinks pass in order and once, and until the queue closes every packet is sent or its failed `send()` logged and every uplink handed over (`PacketsRelayed`, `UplinksRelayed`, refinements of `Relay`); a signal ends the program (`MainReturns`) |

*Bounds.*  An event is a frame, a packet, a command or an uplink; two of them
are two commands that overlap, two items in a queue, or one behind another, and
the safety parts are proved for any number.

*Fairness.*  Weak fairness of every thread and of the clock: an uplink becomes
due and a call runs out of time.  Nothing is assumed of the modem, the network
or the signal, and the failures (`BackhaulRxFails`, `StopFails`) are in no
fairness condition: nothing relies on their coming.  `MainReturns` excepts two
hangs.  `TxMissedNotify`: `stop()` notifies `runTx` without its mutex, and if
that falls between predicate and sleep, the join does not return.  `stuck`:
`SCHCCore::stop()` joins threads that wait for the mutex it holds
(`CoreStopHang`).  A crash ends the program in another way.

*What is not claimed.*  `AnswersFresh` does not say that an answer is younger
than its command: on LoRaWAN the reader may set the flag between the reset and
the write.  `PacketsRelayed` does not say that every packet is sent: `send()` may
fail.

### Compression

| Run | Instance | Shows |
|---|---|---|
| `Compression` | two files, six rules a user may enter, four packets, three choices in the menu, two starts of the program | types, with what each state relies on; the rule used is the first that fits from where the search begins (`FirstFit`); the residue gives the fields back (`ResidueRestores`); at the menu the file holds what memory holds, from the last creation on that could not read it (`FileMatchesMemory`); no rule saved since then is lost (`RulesKept`); the run of `stepFSM` for a packet comes back (`StartReturns`) |

*Bounds.*  Three choices are a rule and two packets, or two rules and a packet:
enough for a rule that moves the vector under the default rule, for a search
that begins behind a used rule, and for indexes left by a rule that was
rejected.  The rules differ in each matching operator and action, in direction,
and include ones whose actions do not go with their operators; the packets fit
the first rule, a later one, none, or are too short.  Two starts are a crash and
what the next start finds.

*Fairness.*  Weak fairness of the loop around `stepFSM`, which runs in the only
thread; none of the user.

`ResidueRestores` is about rules whose actions go with their operators
(*match-mapping* with *mapping-sent*) and that send whole bytes, of a field at
most its last 16 bits (`Sound`).  `RulesKept` and `FileMatchesMemory` except the
error "Could not replace rules.json", which the program reports, and begin anew
behind a creation that could not read the file, which it does not.
`FirstFit` is about the rules behind those that earlier packets tried.
`StartReturns` is about the calls of `stepFSM`, not about the question for a
packet (`main.cpp:141-161`), which at the end of the input is asked for ever.
See section 6.

## 4. The proofs

`SCHCCoreProofs` proves, for every deployment, number of sessions, set of
devices and queue bound allowed by `SessionAssumption` and `CoreAssumption`:

| Theorem | Statement |
|---|---|
| `TypeCorrect` | `Spec => []TypeOK` |
| `Invariance` | `Spec => []IInv`, the inductive invariant |
| `CountersExact` | `Spec => []CounterMatchesMap` |
| `MutexRespected` | `Spec => []LockDiscipline` |
| `MappedUsable` | `Spec => []MappedSessionsUsable` |
| `WorkingUndisturbed` | `Spec => []WorkingSessionUndisturbed` |
| `PoolRefined` | `Spec => PoolSpec` |
| `WithinMax` | `Spec => []MapWithinMax` when `TxDirection \notin RxCreates`, that is, everywhere but on a LoRaWAN gateway, where it fails |
| `GrantedIsFree` | `Spec => []GrantedSlotIsFree` under the same condition and `MaxSessions = 1` |
| `PacketComesFirst` | `Spec => []SenderStartsWithPacket` under the same condition |
| `NobodyLeftRunning` | `Spec => []StopLeavesNobody`: when `stop()` has returned no thread is left, and no machine whose timer could go off |
| `OnlyReleasesCrash` | `Spec => []CrashesInRelease`: the only undefined behaviour is that of a session that `stop()` is releasing, or the cleaner when it is dead, while its thread has an event in its hands |

*Argument.*  `CounterMatchesMap` alone is not inductive: the counter is a byte,
and opening a session preserves it only if the map is smaller than 255, which
needs that the slot `runTx` chose earlier is still one of the at most
`MaxSessions + 1` keys (`RoomForName`), and erasing preserves it only if the
erased key is in the map, which needs that what the cleaner has yet to visit,
and what it is releasing, stay in the map while it holds the mutex
(`LockDiscipline`).  That a session outside the cleaner's hands is usable needs
in turn that only a session being released was told to stop
(`OnlyReleasedStop`).  `IInv` is their conjunction with `TypeOK`.  The lemmas
follow the operations: each proves the parts one action can disturb, and the
step lemma puts them together action by action.  The refinement maps each slot
to free, working or over and needs `IInv` for the steps of the cleaner.

On a LoRaWAN gateway `runRx` opens sessions of the direction `runTx` opens too,
behind the back of the counter `runTx` has read and without a packet, so
`WithinMax`, `GrantedIsFree` and `PacketComesFirst` leave it out; a LoRaWAN node and a Myriota node or gateway
satisfy their condition.  The room `runTx` has seen is then still there when it
has the mutex (`RoomKept`).  That the slot it named is free needs that there is
one session, which is what `start()` sets: a slot is named by the number of
sessions, and of two the first to end leaves the second under the name of the
next.  `SenderStartsWithPacket` is inductive with `FedPacket`: between the
emplacement and the first turn of the session's thread the packet stays the
head of its queue, whatever comes behind it, and through a release.

The last two theorems are about `stop()`, and hold in every deployment.  They
rest on `Stopping`: a slot outside the maps has nothing that runs
(`AbsentOutside`); the sessions `stop()` has been through are over but for the
one it is releasing (`SessionsReleased`); and the threads it has joined are done
(`ThreadsJoined`), which the first two need, for only a thread that is not done
opens or erases a session.  That a crash is no fault of a session `stop()` has
yet to visit needs also that those still run (`StillRunning`).  Neither says that
`stop()` returns: it may not (`CoreStopHang`).  They state their properties in
the module of the proofs; no run checks them.

### ARQ-FEC

`ArqFecProofs` proves from `ArqFecAssumption`, for windows of any size and any
number of packets, tiles, tiles to a fragment and losses:

| Theorem | Statement |
|---|---|
| `TypeCorrect` | `Spec => []TypeOK` |
| `TilesStayInPlace` | `Spec => []TilesInPlace` |
| `ExecutedAgainOnce` | `Spec => []AgainPending` |
| `PacketsDeliveredOnce` | no packet is delivered twice or without having been offered |
| `SessionsApartDeliver` | `Spec /\ [][SessionsApart]_vars => DeliverySpec`: for any number of packets, if each is offered when no receiver is at its end and no ACK request is on the link |
| `OneSessionDelivers` | `Spec => DeliverySpec` when there is one packet |
| `NeverEnoughWhileMissing` | a receiver in `STATE_WAIT_X_MISSING_FRAG` does not hold enough tiles: the confirmation of an ACK request in that state (`Receiver_WAIT_X_MISSING_FRAGS` 180-197) is never reached |

*Argument.*  The invariant comes in layers, each proved with the ones below it.

1. `PlacesInv`: the types, with what a fragment on the link says of itself
   (`PlacedMessages`) and with the agreement of the sender's three counters
   (`SenderPlaced`).  A receiver computes the place of a tile from W and FCN
   only, so `TilesInPlace` is inductive only with both.  `FrontWindowIs` and
   `RunIs` do the same for what is sent again, whose place is searched in a
   bitmap.
2. `ExchangeInv` adds what is under way at once.  The All-1 is one question:
   while it is on the link nothing that answers it is, in the link or in the
   sender's queue, and the confirmation is the last answer (`Exchange`).  A
   request to be executed again is in the queue once while the machine sends,
   and may still be its head when it begins to wait (`Again1`): the states
   between those two are what `AgainPending` alone does not say.
3. `DeliveryInv` adds whose All-1 it is, and that its packet is not delivered
   yet (`Deliveries`).  Delivery happens for the All-1 or for the repair the
   report of it asked for; that neither happens twice needs layer 2.
4. `ConfirmationInv` adds that until the All-1 is heard no receiver is at its
   end and no ACK request is under way, and that any confirmation under way is of
   a delivered packet.  The first three layers have no hypothesis; this one is
   lost when a packet is offered while something is left of an earlier session
   that will answer its All-1, a receiver at its end or an ACK request that takes
   a new one there, as `ArqFecSecondPacket` shows.  `SessionsApart` excludes
   those two leftovers and nothing else: fragments of the earlier packet may still
   be on the link, and its receiver still collect them.  Nothing in the code
   makes a sender wait for that; for the only packet it is true of itself.

### The ACK-on-Error sender

`AckOnErrorProofs` proves from `AckOnErrorAssumption` and `MaxAcksAssumption`,
for any window size, packet, number of ACK requests and of answers:

| Theorem | Statement |
|---|---|
| `WaitHearsOfIt` | `Spec => []WaitGuarded` |
| `FragmentsSayTheirPlace` | `Spec => []FragmentsInPlace` |
| `OnlyStrayAcksHarm` | `Spec => []InTurnAcksSafe` |
| `NothingIsOwed` | `Spec => []WaitingHasSent` |
| `TypeCorrect` | `Spec => []TypeOK` |

*Argument.*  That a fragment says where its tiles are needs that `ptr`, the
window and FCN agree (`Positions`), and that they agree after a repair needs
that the repair leaves them alone.  That only an ACK out of turn leads out of
the arrays needs that windows named in the queue are windows of the packet
(`Settings`, with `Events`), that a compound repair has a window to look at
(`Repairs`), and that as long as ACKs come in turn at most one request to go on
circulates and none reaches the wait (`OneAgain`).  `Covered` is the heart of
`WaitingHasSent`: what the sender owes, reported missing and not yet sent
again, is nothing while it sends and waits, and while it repairs lies in the
windows it will look at, at clear bits.  `SenderInv` is the conjunction of these
with the properties.  There is one lemma per action of the sender and of the
gateway, and `LeastIs` and `LastWindow` for the arithmetic of windows.  The TLC
instance has at most two windows and two answers.  On one with three of each
`WaitingHasSent` failed without its condition on `stray`: after an ACK out of
turn, ACK_END_WIN repairs the window it believes to be in.  The types rest on the
invariant and on `Fits`: until it has cut its packet a machine hears of nothing
(its queue holds requests to go on only and no timer runs), and one that goes on
has a packet of at most four windows, which bounds every window that a counter, a list
or an ACK can name (`WellFormed`).

### The messages

`MessageExchangeProofs` proves, for all payloads, bitmaps, lists of windows and
ends of the link:

| Theorem | Statement |
|---|---|
| `FragmentsAreTold` | `Spec => []FragmentsToldApart` when no receiver is that of ACK-on-Error |
| `AcksAreTold` | `Spec => []AcksToldApart` |
| `FieldsAreKept` | `Spec => []FieldsSurvive` when `RCSs \subseteq 0 .. 256^4 - 1` |
| `BitmapsAreKept` | `Spec => []BitmapsSurvive` |

*Argument.*  `AsMeant` says that a message on the air is what the `create_...`
function of its kind makes of what its writer meant; it is inductive, and the
rest is arithmetic of bits.  `BitsKept`: the bits of the bytes made of some bits
are those bits again.  `CutBehind`: the cut leaves the last 0 of a bitmap and
what is before it, so that only 1s are lost and the padding of 1s gives them
back (`AckHeld`).  `WindowsLaid` says where in a compound ACK each window lies;
with the bit C that is after the first W only, `CompoundHeld` gives the list
back, and its number of bytes tells it from an ACK exactly when it has more
than one window.  `RcsKept` puts four bytes together.  The two hypotheses: the ACK-on-Error
receiver reads with the protocol of a node (`MessagesDeaf`), and an RCS is a
`uint32_t` in the code.

### The daemon

`ApplicationProofs` proves from `ApplicationAssumption`, for any number of
events, callers and devices, and for each stack:

| Theorem | Statement |
|---|---|
| `TypeCorrect` | `Spec => []TypeOK` |
| `FreshAnswers` | `Spec => []AnswersFresh` |
| `OwnAnswers` | `Spec => []AloneGetsOwn` |
| `DestroyedWhenJoined` | `Spec => []JoinedBeforeDestroyed` |
| `PacketsInOrder` | `Spec => Outgoing!InOrder`, the safety part of `PacketsRelayed` |
| `UplinksInOrder` | `Spec => Delayed!InOrder`, the safety part of `UplinksRelayed` |

*Argument.*  Every action touches one of three parts, and the lemmas
`ModemSteps`, `BackhaulSteps` and `DelaySteps` say how, so that each part has an
invariant of its own.  `ModemInv`: what a call is told was received after its
reset of the flag (`HeardOfIt`), and a call that overlapped no other shares the
modem with nobody (`Undivided`). `BackhaulInv`: the places of the two loops, and
that neither runs before `start()` (`Unstarted`).  `Joined`: what the main
thread has waited for at each of its places, including that nobody begins a
command once the SCHC core has stopped (`WorkersStayIdle`) and that a loop that
has ended stays so (`BackhaulStaysDone`, `StackStaysDone`), in either order of
the two `stop()`. `DelayInv`: at most as many
uplinks are due as are queued, the scheduler holds one only while it delivers
it, and the queue is cleared only after the scheduler was told to stop.
`Counted` says that events are counted, so that each arrival is the next
number. `OutgoingStep` and `DelayedStep` map each step to one of `Relay` or to
a stutter.

### The compression program

`CompressionProofs` and, for its last theorem, `ResidueProofs` prove from
`CompressionAssumption`, for any rules, packets and files, and any number of
choices and starts:

| Theorem | Statement |
|---|---|
| `TypeCorrect` | `Spec => []TypeOK` |
| `FileIsMemory` | `Spec => []FileMatchesMemory` |
| `NoRuleLost` | `Spec => []RulesKept` |
| `FirstFitChosen` | `Spec => []FirstFit` |
| `ResidueRestored` | `Spec => []ResidueRestores` |

*Argument.*  `RulesKept` is about the two files at each step of the
replacement, and inductive only with what each of them holds there: the first
is what memory holds behind its first `disk.from` rules, until the new rule is
in memory (`FileAhead`); the second is the rules that were read with the new one
and then what memory holds behind `NextFrom` rules (`SecondAhead`); and the
first is removed only when the second has the new rule and all that were read
from the first (`FirstCovered`); each as long as the program has not reported
that it could not replace the file.  `AppendedBehind` is what they need of
sequences.  `FirstFit` needs
that all rules passed since the search began do not fit (`SearchOrdered`), and
that the pointers of the context are to rules of the nature its state expects
(`StateRelies`), through insertions that move the vector.

`ResidueRestores` needs to know where the residue comes from (`ResidueInv`): the
fields are those of a packet, the selected rule finds its fields in them and
matches every one, the indexes are exactly those that this rule pushed, whatever
rules `st_mo()` had tried before, and the residue is the pieces of the entries
put one behind the other.  `ResidueGivesBack` then follows a field through the
operators: what an entry sends has the length the reference expects and is
enough to know the field (`NotSent`, `ValueSent`, `MappingSent`, `LsbSent`, put
together in `EntriesGiveBack`); the index that an entry takes is the one it
pushed (`Collected`, `IndexTaken`); the bits of an index give the index back
(`NumberOfBits`, `IndexWidth`); and cutting the residue where the pieces end
gives the pieces back (`JoinedPieces`).  These are about functions defined by
recursion on a position.  The library's induction theorem cannot be used for
them (it takes a predicate as a parameter), so `UpTo` has its place: a set that
has 0, and every position whose predecessor it has, has all positions up to n,
for otherwise there were a least one outside, which `WFMin` gives; and
`Recursion` builds from it the function that a recursive definition chooses.
The assumption says of the rules and packets what `CompressionTest.tla` needs:
entries are sequences, target values are sequences of bits, the fields of a
packet are bits.  TLC evaluates it for the rules of its run, and checked
`ResidueInv` on that run before it was proved.

### What is only model-checked

* *Liveness* under fairness, which is beyond the prover, as is ENABLED:
  `DeadSessionsReaped`, `PacketsAnswered`, `SessionEnds`, `MainReturns`,
  `StartReturns`, `RecoveryConfirms`, `CleanLinkConfirms`, the part of
  `PacketsRelayed` and `UplinksRelayed` that says that everything is relayed or
  refused.
* *The LoRaWAN gateway*, where the theorems about the core have a condition that
  leaves it out: there `MapWithinMax`, `GrantedSlotIsFree` and
  `SenderStartsWithPacket` are not claimed, because the code does not give them.

## 5. What is not modelled

* *The ACK-on-Error receiver*, but for how it reads a message.  As
  `MessagesDeaf` shows, at this commit it takes every fragment for another
  message, so none of its other states is reached from the link; a model of
  them would be of a program that does not exist.
* *Configuration*: read once, before any thread starts.  Its values are the
  constants of the modules.
* *Input and output as such*: raw sockets, the serial port, the MQTT client, the
  HTTP stack, hexadecimal and base64, `getMtu()`; a `start()` or `init()` that
  fails.
* *The codec* of Reed-Solomon (external; abstracted to what it promises) and
  the simulation of satellite passes, which only records times.
* *Of the compression program*, JSON, base64 and YANG as formats, printing and
  the measurement of sizes.  Decompression is not implemented in the code.
* *Vendored code*: nlohmann, spdlog with fmt, crow, SimpleIni.  It is about six
  sevenths of the lines of the repository, and its own subject.  Of the
  repository's own 15,600 lines the map covers about two fifths; most of the
  rest is the ACK-on-Error receiver, declarations, logging and formats.

## 6. Where the code and its words part

Beside the ones that runs show (`CoreStopHang`, `ArqFecSecondPacket`,
`MessagesDeaf`), found while modelling:

* On a LoRaWAN gateway two downlink sessions can be open where `start()` allows
  one (`MapWithinMax`), since `runRx` opens sessions too.
* A gateway finds a session by rule identifier alone: two devices that send at
  the same time share a reassembly, although `include/SCHCCore.hpp:60-62` asks
  for a unique identifier for each session.
* `release()` frees the machine while the session's thread may be calling it.
* ARQ-FEC: a last fragment that begins in the window before the last sends no
  All-1; the report of a single window is read as an ACK.
* A packet whose `send()` fails is lost with a log (`BackhaulCore.cpp:375`); a
  frame, a message of the broker or a downlink line that is malformed ends the
  daemon (`BackhaulCore.cpp:388`, `SCHCLoRaWAN_NS_MQTT_Stack.cpp:316`,
  `SCHCLoRaWANStack.cpp:306`).
* `BackhaulCore.cpp:343` and `SCHCCore.cpp:174-176` say that a loop leaves when
  its queue is empty; it leaves after the message in hand.
* `SCHCLoRaWAN_NS_MQTT_Stack.cpp:497` says that the scheduler is woken from its
  wait for the front of the queue; it sleeps without a condition variable there.
* The destructor of the LoRaWAN stack sends `AT+JOIN=0` when no reader is left
  to take the answer, and waits for it in vain.
* `SCHC_Compressor.cpp:203` says that the search "starts in 0 but changes if MO
  fails"; it is never set back, so the next packet is not compared with the
  rules tried for the one before, and a second packet of the same kind is sent
  uncompressed.
* A packet is parsed as a downlink one although its direction is set to UP
  (`SCHC_Compressor.cpp:161`, `PacketParser.cpp:98`): device and application
  change places.
* *value-sent* of the version and of the flow label, *lsb* of these, and *lsb*
  of more than 16 bits lose bits, and a residue that does not end at a byte ends
  the program when a payload follows (`SCHC_Packet.cpp:95`).
* "New rule validated and saved." (`main.cpp:128`) is reported also when the
  file of rules could not be read and all its rules were replaced by the new
  one (`SCHC_RulesManager.cpp:186`).
* After error 4 the machine stays in `FIND_RULE` with its packet: the next "Start
  Compression" does not ask for another.
* A rule created after the default rule was found may leave the pointer to it
  dangling.
* When both renames fail, the handler removes the only file with the rules.

## 7. Plan

Modelled and checked in this order: the core, ARQ-FEC, ACK-on-Error, the codec,
the daemon around them, the compression program.  Proved: the core (its counters
and mutex, then that it implements the pool), the daemon (the modem, the queues
and the order of its end), the compression program, the ACK-on-Error sender,
ARQ-FEC up to its refinement, the messages, the residue.  Every invariant that a
run checks is a theorem.

Left:

* the ACK-on-Error receiver, once the code lets a fragment reach it: then
  `AckOnError` gets a receiver in the place of its gateway, and a refinement of
  `PacketDelivery`;
* decompression, once it is implemented: that it undoes compression is then a
  property of the two, and `ResidueRestores` a lemma.
