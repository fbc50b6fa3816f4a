----------------------------- MODULE SCHCCore -----------------------------
(***************************************************************************)
(* The SCHC core (FragmentationSCHC/src/SCHCCore.cpp): the threads runTx,  *)
(* runRx and runCleaner and the main thread that calls stop(), around the  *)
(* two session maps that sessionsMtx guards.  The sessions themselves are  *)
(* those of module SCHCSession.                                            *)
(*                                                                         *)
(* A critical section that cannot block is one action guarded by the       *)
(* mutex being free; the two that can, the cleaner's pass and stop(), hold *)
(* it explicitly.                                                          *)
(***************************************************************************)
EXTENDS SCHCSession

CONSTANTS
    Deployment,     \* schc_type and schc_l2_protocol of the configuration
    CanStop,        \* does a signal ever make main() call stop()?
    Offered,        \* whom the packets of the orchestrator are for or from
    Heard,          \* the directions of the messages the stack brings
    MaxQueue        \* bound on the length of txQueue and of protoQueue

Deployments == {"node_lorawan", "gateway_lorawan",
                "node_myriota", "gateway_myriota"}

(* The address of a packet that is not the node's (on a node) or is in no  *)
(* end_devices entry (on a gateway).                                       *)
Foreign == "foreign"

ASSUME CoreAssumption ==
    /\ Deployment \in Deployments
    /\ CanStop \in BOOLEAN
    /\ Offered \subseteq Devices \cup {Foreign}
    /\ Heard \subseteq Directions
    /\ MaxQueue \in Nat \ {0}

(* A node fragments uplink packets, a gateway downlink ones.               *)
TxDirection ==
    IF Deployment \in {"node_lorawan", "node_myriota"} THEN "up" ELSE "down"

(* Mutant: the branch of one gateway is used for the other.                *)
RxRoutesOfAnyGateway == {"up", "down"}

(* The directions whose messages runRx looks at, and those for which it    *)
(* opens a session when there is none.                                     *)
RxRoutes ==
    CASE Deployment = "node_lorawan"    -> {"up", "down"}
      [] Deployment = "gateway_lorawan" -> {"up", "down"}
      [] Deployment = "gateway_myriota" -> {"up"}
      [] OTHER                          -> {}

(* Mutant: an uplink response may open a session too.                      *)
RxCreatesAlways == RxRoutes

RxCreates == IF Deployment = "node_lorawan" THEN {"down"} ELSE RxRoutes

(* What the two queues carry: packets for tx, messages for rx.             *)
Item(dir, dev) == [dir |-> dir, dev |-> dev]
Items == [dir : Directions, dev : Devices \cup {Foreign}]
Messages == [dir : Directions, dev : Devices]
NoItem == Item("up", Foreign)
Slot(dir, n) == <<dir, n>>
NoSlot == Slot("up", 0)

VARIABLES
    running,       \* SCHCCore::running
    sessionsMtx,   \* who holds it across several steps
    inMap,         \* the keys of uplinkSessions and downlinkSessions
    counter,       \* _uplinkSessionCounter, _downlinkSessionCounter
    queue,         \* txQueue and protoQueue
    loop,          \* txThread and rxThread: pc, msg, currentId
    visit          \* cleanerThread and the caller of stop(): pc, sessions
                   \* still to visit, session being released

sessionVars == <<sess, crashed>>
mapVars == <<inMap, counter>>
coreVars == <<running, sessionsMtx, inMap, counter, queue, loop, visit>>
vars == <<sess, crashed, running, sessionsMtx, inMap, counter, queue, loop,
          visit>>

LoopState ==
    [pc : {"top", "check", "parking", "parked", "handle", "name", "emplace",
           "done"},
     item : Items, slot : Sessions]
VisitState ==
    [pc : {"wait", "idle", "lock", "scan", "free", "notify", "join", "wake",
           "joinRx", "joinTx", "joinCleaner", "done"},
     todo : SUBSET Sessions, target : Sessions]

TypeOK ==
    /\ SessionTypeOK
    /\ running \in BOOLEAN
    /\ sessionsMtx \in {"none", "cleaner", "main"}
    /\ inMap \subseteq Sessions
    /\ counter \in [Directions -> 0..255]
    /\ queue \in [{"tx", "rx"} -> Seq(Items)]
    /\ queue["rx"] \in Seq(Messages)
    /\ loop \in [{"tx", "rx"} -> LoopState]
    /\ loop["rx"].pc = "handle" => loop["rx"].item \in Messages
    /\ loop["tx"].pc \in {"name", "emplace"} => loop["tx"].item \in Messages
    /\ visit \in [{"cleaner", "main"} -> VisitState]

AtTop == [pc |-> "top", item |-> NoItem, slot |-> NoSlot]

(* start(): counters at zero, empty queues, three threads.                 *)
Init ==
    /\ SessionInit
    /\ running = TRUE
    /\ sessionsMtx = "none"
    /\ inMap = {}
    /\ counter = [d \in Directions |-> 0]
    /\ queue = [l \in {"tx", "rx"} |-> <<>>]
    /\ loop = [l \in {"tx", "rx"} |-> AtTop]
    /\ visit = [v \in {"cleaner", "main"} |->
                  [pc |-> IF v = "cleaner" THEN "wait" ELSE "idle",
                   todo |-> {}, target |-> NoSlot]]

-----------------------------------------------------------------------------
(* The two queues and the loops that empty them.                           *)

Enqueue(l, item) ==
    /\ loop[l].pc # "parking"
    /\ Len(queue[l]) < MaxQueue
    /\ queue' = [queue EXCEPT ![l] = Append(@, item)]
    /\ loop' = [loop EXCEPT ![l].pc = Woken(@)]
    /\ UNCHANGED <<sessionVars, running, sessionsMtx, mapVars, visit>>

(* Orchestrator::stop() stops the backhaul core first, so no packet        *)
(* arrives once stop() has begun.                                          *)
EnqueueFromOrchestator ==
    /\ visit["main"].pc = "idle"
    /\ \E p \in Offered : Enqueue("tx", Item(TxDirection, p))

(* The stack's thread outlives stop().                                     *)
EnqueueFromStack ==
    /\ visit["main"].pc # "done"
    /\ \E dir \in Heard, dev \in Devices : Enqueue("rx", Item(dir, dev))

GoTo(l, pc) ==
    /\ loop' = [loop EXCEPT ![l].pc = pc]
    /\ UNCHANGED <<running, sessionsMtx, queue, visit>>

(* The top of the while loop.                                              *)
LoopTop(l) ==
    /\ loop[l].pc = "top"
    /\ GoTo(l, IF running THEN "check" ELSE "done")
    /\ UNCHANGED <<sessionVars, mapVars>>

LoopTake(l) ==
    /\ loop[l].pc = "check"
    /\ queue[l] # <<>>
    /\ loop' = [loop EXCEPT ![l].pc = "handle", ![l].item = Head(queue[l])]
    /\ queue' = [queue EXCEPT ![l] = Tail(@)]
    /\ UNCHANGED <<sessionVars, running, sessionsMtx, mapVars, visit>>

(* The predicate of wait() with an empty queue: leave the loop, or hold    *)
(* the queue's mutex until asleep.                                         *)
LoopFindNothing(l) ==
    /\ loop[l].pc = "check"
    /\ queue[l] = <<>>
    /\ GoTo(l, IF running THEN "parking" ELSE "done")
    /\ UNCHANGED <<sessionVars, mapVars>>

LoopSleep(l) ==
    /\ loop[l].pc = "parking"
    /\ GoTo(l, "parked")
    /\ UNCHANGED <<sessionVars, mapVars>>

(* Back to the top of the loop; msg goes out of scope.                     *)
LoopNext(l) ==
    /\ loop' = [loop EXCEPT ![l] = AtTop]
    /\ UNCHANGED <<running, sessionsMtx, queue, visit>>

Count(dir) == counter' = [counter EXCEPT ![dir] = (@ + 1) % 256]

(* A session enters a map, with its first event in its queue.              *)
Open(s, dev, type) ==
    /\ Create(s, dev, [type |-> type, dev |-> dev])
    /\ inMap' = inMap \cup {s}
    /\ Count(s[1])

-----------------------------------------------------------------------------
(* runTx().                                                                *)

(* Mutant: the maximum is taken for an allowed value.                      *)
TxHasRoomAtMax == counter[TxDirection] <= MaxSessions

TxHasRoom == counter[TxDirection] < MaxSessions

(* The address is checked, then the session counter, without sessionsMtx.  *)
TxAdmit ==
    /\ loop["tx"].pc = "handle"
    /\ loop["tx"].item.dev # Foreign
    /\ TxHasRoom
    /\ GoTo("tx", "name")
    /\ UNCHANGED <<sessionVars, mapVars>>

TxRefuse ==
    /\ loop["tx"].pc = "handle"
    /\ loop["tx"].item.dev = Foreign \/ ~TxHasRoom
    /\ LoopNext("tx")
    /\ UNCHANGED <<sessionVars, mapVars>>

(* currentId: the counter is read again, still without sessionsMtx.        *)
TxName ==
    /\ loop["tx"].pc = "name"
    /\ loop' = [loop EXCEPT
          !["tx"].pc = "emplace",
          !["tx"].slot = Slot(TxDirection, counter[TxDirection])]
    /\ UNCHANGED <<sessionVars, running, sessionsMtx, mapVars, queue, visit>>

(* Mutant: insert_or_assign() for try_emplace().                           *)
TxIsNew(s) == TRUE

TxInserts(s) == s \notin inMap

TxEmplace ==
    /\ loop["tx"].pc = "emplace"
    /\ sessionsMtx = "none"
    /\ TxInserts(loop["tx"].slot)
    /\ Open(loop["tx"].slot, loop["tx"].item.dev, "core")
    /\ LoopNext("tx")

(* "Session ID {} already exists, ignoring message".                       *)
TxIgnore ==
    /\ loop["tx"].pc = "emplace"
    /\ sessionsMtx = "none"
    /\ ~TxInserts(loop["tx"].slot)
    /\ LoopNext("tx")
    /\ UNCHANGED <<sessionVars, mapVars>>

-----------------------------------------------------------------------------
(* runRx().                                                                *)

(* The rule identifier of the message, 20 or 21, is the key it is looked   *)
(* up with: the first slot of its direction.                               *)
RxSlot == Slot(loop["rx"].item.dir, 0)

(* No branch of runRx is for this message.                                 *)
RxSkip ==
    /\ loop["rx"].pc = "handle"
    /\ loop["rx"].item.dir \notin RxRoutes
    /\ LoopNext("rx")
    /\ UNCHANGED <<sessionVars, mapVars>>

RxOpen ==
    /\ loop["rx"].pc = "handle"
    /\ loop["rx"].item.dir \in RxCreates
    /\ sessionsMtx = "none"
    /\ RxSlot \notin inMap
    /\ Open(RxSlot, loop["rx"].item.dev, "stack")
    /\ LoopNext("rx")

(* "The message could be a delayed message."                               *)
RxWarn ==
    /\ loop["rx"].pc = "handle"
    /\ loop["rx"].item.dir \in RxRoutes \ RxCreates
    /\ sessionsMtx = "none"
    /\ RxSlot \notin inMap
    /\ LoopNext("rx")
    /\ UNCHANGED <<sessionVars, mapVars>>

RxDeliver ==
    /\ loop["rx"].pc = "handle"
    /\ loop["rx"].item.dir \in RxRoutes
    /\ sessionsMtx = "none"
    /\ RxSlot \in inMap
    /\ EnqueueEvent(RxSlot, [type |-> "stack", dev |-> loop["rx"].item.dev])
    /\ LoopNext("rx")
    /\ UNCHANGED mapVars

-----------------------------------------------------------------------------
(* runCleaner() and stop(): both visit the sessions with sessionsMtx held, *)
(* and release() them in three steps and a join.                           *)

(* The maps are visited in order: uplink before downlink, then by key.     *)
Rank(s) == (IF s[1] = "up" THEN 0 ELSE MaxSessions + 1) + s[2]
Foremost(todo) == {s \in todo : \A t \in todo : Rank(s) <= Rank(t)}

Step(v, from, to) ==
    /\ visit[v].pc = from
    /\ visit' = [visit EXCEPT ![v].pc = to]

(* Mutant: no lock_guard.                                                  *)
LockNothing(v) == UNCHANGED sessionsMtx

Lock(v) == sessionsMtx = "none" /\ sessionsMtx' = v

(* Mutant: the mutex is not given back.                                    *)
UnlockNothing == UNCHANGED sessionsMtx

Unlock == sessionsMtx' = "none"

(* Mutant: only one of the two maps is visited.                            *)
DownlinkOnly == {s \in inMap : s[1] = "down"}

ToVisit == inMap

StartVisit(v) ==
    /\ visit[v].pc = "lock"
    /\ Lock(v)
    /\ visit' = [visit EXCEPT ![v].pc = "scan", ![v].todo = ToVisit]
    /\ UNCHANGED <<sessionVars, running, mapVars, queue, loop>>

(* Mutant: getDead() is asked of another session.                          *)
DueForOther(v, s) == v = "main" \/ \E t \in inMap : sess[t].dead

(* The cleaner releases the sessions that declared themselves dead, stop() *)
(* releases them all.                                                      *)
Due(v, s) == v = "main" \/ sess[s].dead

PassOver(v) ==
    /\ visit[v].pc = "scan"
    /\ \E s \in Foremost(visit[v].todo) :
         /\ ~Due(v, s)
         /\ visit' = [visit EXCEPT ![v].todo = @ \ {s}]
    /\ UNCHANGED <<sessionVars, running, sessionsMtx, mapVars, queue, loop>>

ReleaseSession(v) ==
    /\ visit[v].pc = "scan"
    /\ \E s \in Foremost(visit[v].todo) :
         /\ Due(v, s)
         /\ ReleaseFlag(s)
         /\ visit' = [visit EXCEPT ![v] =
               [pc |-> "free", todo |-> visit[v].todo \ {s}, target |-> s]]
    /\ UNCHANGED <<running, sessionsMtx, mapVars, queue, loop>>

FreeMachine(v) ==
    /\ Step(v, "free", "notify")
    /\ ReleaseMachine(visit[v].target)
    /\ UNCHANGED <<running, sessionsMtx, mapVars, queue, loop>>

NotifySession(v) ==
    /\ Step(v, "notify", "join")
    /\ ReleaseNotify(visit[v].target)
    /\ UNCHANGED <<running, sessionsMtx, mapVars, queue, loop>>

Joined(v) ==
    /\ visit[v].pc = "join"
    /\ Joinable(visit[v].target)
    /\ visit' = [visit EXCEPT ![v].pc = "scan", ![v].target = NoSlot]

(* Mutants: the decrement is done twice, on an int, or in the wrong one of *)
(* the two loops.                                                          *)
UncountTwice(dir) == counter' = [counter EXCEPT ![dir] = @ - 2]

Uncount(dir) == counter' = [counter EXCEPT ![dir] = (@ + 255) % 256]

(* The cleaner erases the session it has released; stop() leaves it in the *)
(* map.                                                                    *)
ClErase ==
    /\ Joined("cleaner")
    /\ Destroy(visit["cleaner"].target)
    /\ inMap' = inMap \ {visit["cleaner"].target}
    /\ Uncount(visit["cleaner"].target[1])
    /\ UNCHANGED <<running, sessionsMtx, queue, loop>>

StopJoined ==
    /\ Joined("main")
    /\ UNCHANGED <<sessionVars, running, sessionsMtx, mapVars, queue, loop>>

(* Every two seconds, or at once when told to stop.                        *)
ClWake ==
    /\ Step("cleaner", "wait", IF running THEN "lock" ELSE "done")
    /\ UNCHANGED <<sessionVars, running, sessionsMtx, mapVars, queue, loop>>

ClUnlock ==
    /\ visit["cleaner"].todo = {}
    /\ Step("cleaner", "scan", "wait")
    /\ Unlock
    /\ UNCHANGED <<sessionVars, running, mapVars, queue, loop>>

StopCall ==
    /\ CanStop
    /\ Step("main", "idle", "lock")
    /\ UNCHANGED <<sessionVars, running, sessionsMtx, mapVars, queue, loop>>

StopFlag ==
    /\ visit["main"].todo = {}
    /\ Step("main", "scan", "wake")
    /\ running' = FALSE
    /\ UNCHANGED <<sessionVars, sessionsMtx, mapVars, queue, loop>>

(* notify_all() on txCv, protoCv and cleanerCv, without their mutexes.     *)
StopNotify ==
    /\ Step("main", "wake", "joinRx")
    /\ loop' = [l \in {"tx", "rx"} |-> [loop[l] EXCEPT !.pc = Woken(@)]]
    /\ UNCHANGED <<sessionVars, running, sessionsMtx, mapVars, queue>>

StopJoinLoop ==
    /\ \/ loop["rx"].pc = "done" /\ Step("main", "joinRx", "joinTx")
       \/ loop["tx"].pc = "done" /\ Step("main", "joinTx", "joinCleaner")
    /\ UNCHANGED <<sessionVars, running, sessionsMtx, mapVars, queue, loop>>

StopJoinCleaner ==
    /\ visit["cleaner"].pc = "done"
    /\ Step("main", "joinCleaner", "done")
    /\ Unlock
    /\ UNCHANGED <<sessionVars, running, mapVars, queue, loop>>

-----------------------------------------------------------------------------
Waiting(l) == LoopTop(l) \/ LoopTake(l) \/ LoopFindNothing(l) \/ LoopSleep(l)

Tx == Waiting("tx") \/ TxAdmit \/ TxRefuse \/ TxName \/ TxEmplace \/ TxIgnore

Rx == Waiting("rx") \/ RxSkip \/ RxOpen \/ RxWarn \/ RxDeliver

Visit(v) == \/ StartVisit(v) \/ PassOver(v) \/ ReleaseSession(v)
            \/ FreeMachine(v) \/ NotifySession(v)

Cleaner == ClWake \/ Visit("cleaner") \/ ClErase \/ ClUnlock

Stop == \/ StopCall \/ Visit("main") \/ StopJoined \/ StopFlag \/ StopNotify
        \/ StopJoinLoop \/ StopJoinCleaner

Session(s) == (Proc(s) \/ TimerExpires(s)) /\ UNCHANGED coreVars

(* Undefined behaviour that kills the program ends every thread.           *)
Next ==
    /\ ~crashed
    /\ \/ EnqueueFromOrchestator
       \/ EnqueueFromStack
       \/ Tx
       \/ Rx
       \/ Cleaner
       \/ Stop
       \/ \E s \in Sessions : Session(s)

Spec == Init /\ [][Next]_vars

-----------------------------------------------------------------------------
(* Fairness.  The threads run, the cleaner's wait has a time limit, and a  *)
(* call into a state machine returns.  sessionsMtx is released for two     *)
(* seconds between two passes of the cleaner and eventMtx between any two  *)
(* events, so a thread that keeps asking for them gets them: strong        *)
(* fairness for the steps that take one.  Nothing is assumed of the        *)
(* orchestrator, the stack, the timers or the signal that calls stop().    *)
ProcRuns(s) ==
    /\ ~crashed
    /\ \/ ProcLeave(s) \/ ProcTake(s) \/ ProcFindNothing(s) \/ ProcSleep(s)
       \/ ProcCall(s) \/ ProcReturn(s) \/ ProcReturnFreed(s)
    /\ UNCHANGED coreVars

Fairness ==
    /\ \A s \in Sessions : WF_vars(ProcRuns(s))
    /\ WF_vars(~crashed /\ Tx)
    /\ SF_vars(~crashed /\ (TxEmplace \/ TxIgnore))
    /\ WF_vars(~crashed /\ Rx)
    /\ SF_vars(~crashed /\ (RxOpen \/ RxWarn \/ RxDeliver))
    /\ WF_vars(~crashed /\ Cleaner)
    /\ SF_vars(~crashed /\ StartVisit("cleaner"))
    /\ WF_vars(~crashed /\ visit["main"].pc # "idle" /\ Stop)
    /\ SF_vars(~crashed /\ StartVisit("main"))

FairSpec == Spec /\ Fairness

-----------------------------------------------------------------------------
(* Safety.                                                                 *)

(* The two counters, read without the mutex by runTx, count the sessions   *)
(* of the two maps whatever the threads that move them do: uint8_t never   *)
(* wraps below zero.                                                       *)
CounterMatchesMap ==
    \A d \in Directions : counter[d] = Cardinality({s \in inMap : s[1] = d})

(* "In LoRaWAN there are only two session: uplink and downlink": no more   *)
(* sessions in a map than start() allows.                                  *)
MapWithinMax ==
    \A d \in Directions : Cardinality({s \in inMap : s[1] = d}) <= MaxSessions

(* Can session s take another event and work on it?                        *)
Usable(s) ==
    sess[s].running /\ sess[s].machine = "live" /\ sess[s].pc # "done"

(* Whoever gets sessionsMtx finds only sessions that can still take an     *)
(* event: one half released is never seen from outside the pass of the     *)
(* cleaner that releases it.                                               *)
MappedSessionsUsable ==
    sessionsMtx = "none" /\ visit["main"].pc # "done" =>
        \A s \in inMap : Usable(s)

(* Until stop() is called, a session that has not declared itself dead     *)
(* keeps its thread and its machine, even while the cleaner is at work.    *)
WorkingSessionUndisturbed ==
    visit["main"].pc = "idle" => \A s \in inMap : ~sess[s].dead => Usable(s)

(* A sender machine casts the first message it executes to a packet of the *)
(* backhaul, so a session that sends must be fed the packet it was made    *)
(* for before any message of the stack.                                    *)
SenderStartsWithPacket ==
    \A s \in Sessions :
        /\ s[1] = TxDirection
        /\ sess[s].pc = "executing"
        /\ sess[s].stage = "init"
        => sess[s].cur.type = "core"

(* What each holder of sessionsMtx may rely on: there is one holder, the   *)
(* sessions it still has to visit and the one it is releasing are in the   *)
(* maps, the latter told to stop and, if the cleaner's, dead.              *)
Releasing == {"free", "notify", "join"}
Holding ==
    [cleaner |-> Releasing \cup {"scan"},
     main    |-> Releasing \cup {"scan", "wake", "joinRx", "joinTx",
                                 "joinCleaner"}]

LockDiscipline ==
    \A v \in {"cleaner", "main"} :
        /\ (sessionsMtx = v) <=> (visit[v].pc \in Holding[v])
        /\ visit[v].pc \in Holding[v] => visit[v].todo \subseteq inMap
        /\ visit[v].pc \in Releasing =>
             /\ visit[v].target \in inMap \ visit[v].todo
             /\ Due(v, visit[v].target)
             /\ ~sess[visit[v].target].running

(* The identifier runTx() chose from an unguarded counter is still unused  *)
(* when it gets the mutex: no packet that was admitted is then ignored.    *)
GrantedSlotIsFree == loop["tx"].pc = "emplace" => loop["tx"].slot \notin inMap

(* What a session slot goes through, whichever threads move it.            *)
phase ==
    [s \in Sessions |-> IF s \notin inMap THEN "free"
                        ELSE IF sess[s].dead THEN "over" ELSE "working"]

Pool == INSTANCE SessionPool WITH Slots <- Sessions, phase <- phase

(* The core implements the pool of session slots.                          *)
PoolSpec == Pool!Spec

-----------------------------------------------------------------------------
(* Liveness.                                                               *)

(* A thread went to sleep after release() had notified it: the join that   *)
(* follows never returns, and the mutex stays taken.                       *)
StuckInJoin ==
    /\ visit["cleaner"].pc = "join"
    /\ sess[visit["cleaner"].target].pc \in {"parking", "parked"}

Interrupted == crashed \/ visit["main"].pc # "idle" \/ StuckInJoin

(* A session that has declared itself dead gives its slot back.            *)
DeadSessionsReaped ==
    \A s \in Sessions :
        (s \in inMap /\ sess[s].dead) ~> (s \notin inMap \/ Interrupted)

(* A packet of the orchestrator is taken out of the queue and, one way or  *)
(* the other, runTx() gets through with it, although it has to wait for    *)
(* the mutex that the cleaner and runRx() keep taking.                     *)
PacketsAnswered ==
    /\ (queue["tx"] # <<>>) ~> (queue["tx"] = <<>> \/ Interrupted)
    /\ (loop["tx"].pc \in {"handle", "name", "emplace"})
            ~> (loop["tx"].pc = "top" \/ Interrupted)

(* runCleaner(): "immediate exit if we are no longer running".             *)
CleanerExits == ~running ~> (visit["cleaner"].pc = "done" \/ crashed)

=============================================================================
