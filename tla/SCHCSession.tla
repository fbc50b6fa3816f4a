---------------------------- MODULE SCHCSession ----------------------------
(***************************************************************************)
(* One SCHC session (FragmentationSCHC/src/SCHCSession.cpp): its event     *)
(* queue, the thread that runs processEventLoop(), the state machine it    *)
(* drives through a unique_ptr, and release(), which another thread calls  *)
(* to take the session down.  The module describes every session slot of   *)
(* a core at once.                                                         *)
(*                                                                         *)
(* What the state machine does with an event belongs to the protocol       *)
(* modules; here a call of execute() or timerExpired() may declare the     *)
(* session dead and ask to be executed again, and once the machine has     *)
(* left STATE_INIT its timer may expire at any time.                       *)
(***************************************************************************)
EXTENDS Naturals, Sequences, FiniteSets

CONSTANTS
    MaxSessions,    \* _uplinkSessionCounterMax = _downlinkSessionCounterMax
    Devices,        \* the end devices a message may come from or go to
    MaxEvents       \* bound on the length of one event queue

(* SCHCCore::start() sets both maxima to 1.  A uint8_t counts up to one    *)
(* more than the maximum, see runTx().                                     *)
ASSUME SessionAssumption ==
    /\ MaxSessions \in 1..254
    /\ Devices # {}
    /\ MaxEvents \in Nat \ {0}

Directions == {"up", "down"}

(* A slot is a key of uplinkSessions or downlinkSessions: direction and    *)
(* offset from the base identifier (20 for uplink, 21 for downlink).  The  *)
(* offset is the counter as runTx() reads it, which may have grown since   *)
(* it was compared with its maximum.                                       *)
Sessions == Directions \X (0 .. MaxSessions)

(* TimerExpired and ExecuteAgain are one type here, "self": an event with  *)
(* no payload that the session's own machine or timer raised.              *)
EventTypes == {"core", "stack", "self"}
Events == [type : EventTypes, dev : Devices]

AnyDevice == CHOOSE d \in Devices : TRUE
SelfEvent(d) == [type |-> "self", dev |-> d]

VARIABLES
    sess,       \* the SCHCSession object of every slot
    crashed     \* the program died of undefined behaviour

(* running, dead, dev: the members running, _isDead and _dev_id.  machine: *)
(* what _stateMachine owns.  stage: is that machine still in STATE_INIT?   *)
(* queue: eventQueue.  cur: the event the process thread took last.        *)
(* pc: where that thread is; it holds eventMtx only while "parking".       *)
SessionRecord ==
    [running : BOOLEAN, dead : BOOLEAN, machine : {"none", "live", "freed"},
     stage : {"init", "busy"}, dev : Devices, queue : Seq(Events),
     cur : Events,
     pc : {"none", "check", "parking", "parked", "popped", "executing",
           "done"}]

SessionTypeOK == sess \in [Sessions -> SessionRecord] /\ crashed \in BOOLEAN

(* No session object in the slot.                                          *)
NoSession ==
    [running |-> FALSE, dead |-> FALSE, machine |-> "none", stage |-> "init",
     dev |-> AnyDevice, queue |-> <<>>, cur |-> SelfEvent(AnyDevice),
     pc |-> "none"]

SessionInit == sess = [s \in Sessions |-> NoSession] /\ crashed = FALSE

-----------------------------------------------------------------------------
(* Operations other threads call.                                          *)

(* The constructor, init(), setDevId() and the first enqueueEvent(), all   *)
(* under sessionsMtx: the thread starts on a queue that holds e.           *)
Create(s, d, e) ==
    /\ sess' = [sess EXCEPT ![s] =
          [running |-> TRUE, dead |-> FALSE, machine |-> "live",
           stage |-> "init", dev |-> d, queue |-> <<e>>,
           cur |-> SelfEvent(d), pc |-> "check"]]
    /\ UNCHANGED crashed

(* notify_one() or notify_all() on eventCv: only a thread that already     *)
(* sleeps hears it.                                                        *)
Woken(pc) == IF pc = "parked" THEN "check" ELSE pc

(* enqueueEvent(): push under eventMtx, then notify.                       *)
EnqueueEvent(s, e) ==
    /\ sess[s].pc # "parking"
    /\ Len(sess[s].queue) < MaxEvents
    /\ sess' = [sess EXCEPT ![s].queue = Append(@, e), ![s].pc = Woken(@)]
    /\ UNCHANGED crashed

(* release(), in its four steps.  The flag is stored and the condition     *)
(* variable notified without eventMtx.                                     *)
ReleaseFlag(s) ==
    /\ sess' = [sess EXCEPT ![s].running = FALSE]
    /\ UNCHANGED crashed

(* _stateMachine->release() and _stateMachine.reset(): the destructor of   *)
(* the machine's SCHCTimer joins the timer thread.                         *)
ReleaseMachine(s) ==
    /\ sess' = [sess EXCEPT ![s].machine = "freed"]
    /\ UNCHANGED crashed

ReleaseNotify(s) ==
    /\ sess' = [sess EXCEPT ![s].pc = Woken(@)]
    /\ UNCHANGED crashed

(* processThread.join() returns.                                           *)
Joinable(s) == sess[s].pc = "done"

(* The destructor, once the map has erased the pointer.                    *)
Destroy(s) ==
    /\ sess' = [sess EXCEPT ![s] = NoSession]
    /\ UNCHANGED crashed

-----------------------------------------------------------------------------
(* The process thread: processEventLoop().                                 *)

(* The top of the loop, or the predicate of eventCv.wait() under eventMtx. *)
ProcLeave(s) ==
    /\ sess[s].pc = "check"
    /\ ~sess[s].running
    /\ sess' = [sess EXCEPT ![s].pc = "done"]
    /\ UNCHANGED crashed

ProcTake(s) ==
    /\ sess[s].pc = "check"
    /\ sess[s].running
    /\ sess[s].queue # <<>>
    /\ sess' = [sess EXCEPT ![s].cur = Head(sess[s].queue),
                            ![s].queue = Tail(@),
                            ![s].pc = "popped"]
    /\ UNCHANGED crashed

(* The predicate was false: the thread is about to sleep, eventMtx held.   *)
ProcFindNothing(s) ==
    /\ sess[s].pc = "check"
    /\ sess[s].running
    /\ sess[s].queue = <<>>
    /\ sess' = [sess EXCEPT ![s].pc = "parking"]
    /\ UNCHANGED crashed

ProcSleep(s) ==
    /\ sess[s].pc = "parking"
    /\ sess' = [sess EXCEPT ![s].pc = "parked"]
    /\ UNCHANGED crashed

(* The call through _stateMachine: through a null pointer once the machine *)
(* has been reset.                                                         *)
ProcCall(s) ==
    /\ sess[s].pc = "popped"
    /\ IF sess[s].machine = "live"
         THEN sess' = [sess EXCEPT ![s].pc = "executing"] /\ UNCHANGED crashed
         ELSE crashed' = TRUE /\ UNCHANGED sess

(* STATE_END and STATE_ERROR call setDead(), from inside execute() or      *)
(* timerExpired(); no machine reaches them on its first event.             *)
ProcSetDead(s) ==
    /\ sess[s].pc = "executing"
    /\ sess[s].machine = "live"
    /\ sess[s].stage = "busy"
    /\ sess' = [sess EXCEPT ![s].dead = TRUE]
    /\ UNCHANGED crashed

(* execute() or timerExpired() returns, having called executeAgain() or    *)
(* not; eventMsg goes out of scope.                                        *)
ProcReturn(s) ==
    /\ sess[s].pc = "executing"
    /\ sess[s].machine = "live"
    /\ \E again \in BOOLEAN :
         /\ again => Len(sess[s].queue) < MaxEvents
         /\ sess' = [sess EXCEPT
              ![s].queue = IF again THEN Append(@, SelfEvent(sess[s].dev))
                                    ELSE @,
              ![s].stage = "busy",
              ![s].cur = SelfEvent(sess[s].dev),
              ![s].pc = "check"]
    /\ UNCHANGED crashed

(* The machine was deleted under the running execute(): its last read of   *)
(* _currentStateStr is undefined behaviour, a crash or a harmless return.  *)
ProcReturnFreed(s) ==
    /\ sess[s].pc = "executing"
    /\ sess[s].machine # "live"
    /\ \/ crashed' = TRUE /\ UNCHANGED sess
       \/ sess' = [sess EXCEPT ![s].pc = "check"] /\ UNCHANGED crashed

(* SCHCTimer's thread runs enqueueTimer().                                 *)
TimerExpires(s) ==
    /\ sess[s].machine = "live"
    /\ sess[s].stage = "busy"
    /\ EnqueueEvent(s, SelfEvent(sess[s].dev))

Proc(s) ==
    \/ ProcLeave(s)
    \/ ProcTake(s)
    \/ ProcFindNothing(s)
    \/ ProcSleep(s)
    \/ ProcCall(s)
    \/ ProcSetDead(s)
    \/ ProcReturn(s)
    \/ ProcReturnFreed(s)

=============================================================================
