--------------------------- MODULE DelayedUplinks ---------------------------
(***************************************************************************)
(* The satellite emulation of the gateway (SCHCLoRaWAN_NS_MQTT_Stack.cpp): *)
(* each message of the broker waits 45 s in a queue, from which a          *)
(* scheduler thread brings it to the SCHC core.                            *)
(***************************************************************************)
EXTENDS Integers, Sequences

CONSTANT Uplinks    \* the messages the broker may bring

VARIABLE delay

(* running, queue: _running and _delay_queue.  due: how many of the front  *)
(* of the queue have reached their target_time.  pc, msg: the scheduler.   *)
(* core: the messages brought to the SCHC core.                            *)
SchedulerStates == {"top", "check", "parking", "parked", "asleep", "deliver",
                    "done"}

DelayTypeOK ==
    /\ delay \in [running : BOOLEAN, queue : Seq(Uplinks), due : Nat,
                  pc : SchedulerStates, msg : Seq(Uplinks),
                  core : Seq(Uplinks)]
    /\ delay.due <= Len(delay.queue)
    /\ (delay.pc = "deliver") <=> (Len(delay.msg) = 1)

DelayInit ==
    delay = [running |-> TRUE, queue |-> <<>>, due |-> 0, pc |-> "top",
             msg |-> <<>>, core |-> <<>>]

(* _delay_mutex is the scheduler's while it evaluates the predicate of its *)
(* wait and goes to sleep.                                                 *)
DelayMutexFree == delay.pc # "parking"

Awake(pc) == IF pc = "parked" THEN "check" ELSE pc

(* onMessage(), in the thread of the MQTT client, of a message with all    *)
(* that it looks for.                                                      *)
UplinkArrives(u) ==
    /\ DelayMutexFree
    /\ delay' = [delay EXCEPT !.queue = Append(@, u), !.pc = Awake(@)]

(* Every message waits as long, so the front is always due first.          *)
TimePasses ==
    /\ delay.due < Len(delay.queue)
    /\ delay' = [delay EXCEPT !.due = @ + 1]

-----------------------------------------------------------------------------
(* scheduler_loop().                                                       *)

SchedulerTop ==
    /\ delay.pc = "top"
    /\ delay' = [delay EXCEPT !.pc = IF delay.running THEN "check" ELSE "done"]

SchedulerLeave ==
    /\ delay.pc = "check"
    /\ ~delay.running
    /\ delay' = [delay EXCEPT !.pc = "done"]

SchedulerFindNothing ==
    /\ delay.pc = "check"
    /\ delay.running
    /\ delay.queue = <<>>
    /\ delay' = [delay EXCEPT !.pc = "parking"]

SchedulerSleep ==
    /\ delay.pc = "parking"
    /\ delay' = [delay EXCEPT !.pc = "parked"]

SchedulerTake ==
    /\ delay.pc = "check"
    /\ delay.running
    /\ delay.due > 0
    /\ delay' = [delay EXCEPT !.pc = "deliver", !.msg = <<Head(delay.queue)>>,
                              !.queue = Tail(@), !.due = @ - 1]

(* The front is not due: sleep_for() without the mutex, until it is.       *)
SchedulerRest ==
    /\ delay.pc = "check"
    /\ delay.running
    /\ delay.queue # <<>> /\ delay.due = 0
    /\ delay' = [delay EXCEPT !.pc = "asleep"]

SchedulerRested ==
    /\ delay.pc = "asleep"
    /\ delay' = [delay EXCEPT !.pc = "top"]

(* Mutant: the message is moved from the back of the queue.                *)
SchedulerDeliverLast ==
    /\ delay.pc = "deliver"
    /\ LET all == delay.msg \o delay.queue
       IN  delay' = [delay EXCEPT !.pc = "top", !.msg = <<>>,
                       !.core = Append(@, all[Len(all)]),
                       !.queue = SubSeq(all, 1, Len(all) - 1)]

SchedulerDeliver ==
    /\ delay.pc = "deliver"
    /\ delay' = [delay EXCEPT !.pc = "top", !.msg = <<>>,
                              !.core = @ \o delay.msg]

Scheduler ==
    \/ SchedulerTop \/ SchedulerLeave \/ SchedulerFindNothing
    \/ SchedulerSleep \/ SchedulerTake \/ SchedulerRest \/ SchedulerRested
    \/ SchedulerDeliver

-----------------------------------------------------------------------------
(* The destructor.                                                         *)

StopScheduler == delay' = [delay EXCEPT !.running = FALSE]

(* Mutant: the queue is cleared, and the scheduler notified, without the   *)
(* mutex.                                                                  *)
clear_delay_queue_unlocked ==
    delay' = [delay EXCEPT !.queue = <<>>, !.due = 0, !.pc = Awake(@)]

(* clear_delay_queue() takes the mutex after _running was cleared: whoever *)
(* went to sleep on the old value is asleep, and hears the notification.   *)
clear_delay_queue ==
    /\ DelayMutexFree
    /\ delay' = [delay EXCEPT !.queue = <<>>, !.due = 0, !.pc = Awake(@)]

=============================================================================
