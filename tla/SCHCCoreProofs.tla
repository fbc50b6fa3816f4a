-------------------------- MODULE SCHCCoreProofs --------------------------
(***************************************************************************)
(* Theorems about SCHCCore for every deployment, number of sessions, set   *)
(* of devices and length of queue, with proofs that TLAPS checks.          *)
(***************************************************************************)
EXTENDS SCHCCore, FiniteSetTheorems, TLAPS

-----------------------------------------------------------------------------
(* What the inductive invariant adds to the properties of SCHCCore.        *)

(* While runTx() is between its two unguarded reads of the counter, the    *)
(* map cannot fill up but for the one slot that runRx() opens.             *)
OpenedByTx == {s \in inMap : s[1] = TxDirection /\ s[2] # 0}
RoomForName ==
    loop["tx"].pc = "name" => Cardinality(OpenedByTx) < MaxSessions

(* Only a session that someone is releasing, or that stop() has released,  *)
(* has been told to stop.                                                  *)
ToldToStop(s) ==
    \/ visit["cleaner"].pc \in Releasing /\ visit["cleaner"].target = s
    \/ visit["main"].pc \in Holding["main"] \cup {"done"}

OnlyReleasedStop ==
    \A s \in Sessions :
        /\ sess[s].running => Usable(s)
        /\ s \in inMap /\ ~sess[s].running => ToldToStop(s)

-----------------------------------------------------------------------------
(* Type correctness, operation by operation.                               *)

(* There is a device, so the values that fill an empty slot are typed.     *)
LEMMA NoSessionTyped ==
    /\ AnyDevice \in Devices
    /\ NoSession \in SessionRecord
    /\ \A dev \in Devices : SelfEvent(dev) \in Events
<1>1. AnyDevice \in Devices
  BY SessionAssumption DEF SessionAssumption, AnyDevice
<1>2. \A dev \in Devices : SelfEvent(dev) \in Events
  BY DEF SelfEvent, Events, EventTypes
<1>3. NoSession \in SessionRecord
  BY <1>1, <1>2 DEF NoSession, SessionRecord
<1> QED
  BY <1>1, <1>2, <1>3

(* Every operation another thread calls on a session keeps it typed.       *)
LEMMA CallsTyped ==
    ASSUME SessionTypeOK, NEW s \in Sessions, NEW e \in Events
    PROVE  /\ Create(s, e.dev, e) => SessionTypeOK'
           /\ EnqueueEvent(s, e) => SessionTypeOK'
           /\ ReleaseFlag(s) => SessionTypeOK'
           /\ ReleaseMachine(s) => SessionTypeOK'
           /\ ReleaseNotify(s) => SessionTypeOK'
           /\ Destroy(s) => SessionTypeOK'
<1> USE DEF SessionTypeOK
<1>1. sess[s] \in SessionRecord /\ e.dev \in Devices
  BY DEF Events
<1>2. \A p : p \in {"none", "check", "parking", "parked", "popped",
                    "executing", "done"}
             => Woken(p) \in {"none", "check", "parking", "parked", "popped",
                              "executing", "done"}
  BY DEF Woken
<1>3. Create(s, e.dev, e) => SessionTypeOK'
  <2> SUFFICES ASSUME Create(s, e.dev, e) PROVE SessionTypeOK'
    OBVIOUS
  <2>1. SelfEvent(e.dev) \in Events /\ <<e>> \in Seq(Events)
    BY <1>1, NoSessionTyped
  <2>2. sess'[s] \in SessionRecord
    BY <1>1, <2>1 DEF Create, SessionRecord
  <2> QED
    BY <2>2 DEF Create
<1>4. EnqueueEvent(s, e) => SessionTypeOK'
  <2> SUFFICES ASSUME EnqueueEvent(s, e) PROVE SessionTypeOK'
    OBVIOUS
  <2>1. sess' = [sess EXCEPT ![s] = [sess[s] EXCEPT
                    !.queue = Append(sess[s].queue, e),
                    !.pc = Woken(sess[s].pc)]]
    BY <1>1 DEF EnqueueEvent, SessionRecord
  <2>2. Append(sess[s].queue, e) \in Seq(Events)
    BY <1>1 DEF SessionRecord
  <2>3. sess'[s] \in SessionRecord
    BY <1>1, <1>2, <2>1, <2>2 DEF SessionRecord
  <2> QED
    BY <2>1, <2>3 DEF EnqueueEvent
<1>5. ReleaseFlag(s) => SessionTypeOK'
  <2> SUFFICES ASSUME ReleaseFlag(s) PROVE SessionTypeOK'
    OBVIOUS
  <2>1. [sess[s] EXCEPT !.running = FALSE] \in SessionRecord
    BY <1>1 DEF SessionRecord
  <2> QED
    BY <2>1 DEF ReleaseFlag
<1>6. ReleaseMachine(s) => SessionTypeOK'
  <2> SUFFICES ASSUME ReleaseMachine(s) PROVE SessionTypeOK'
    OBVIOUS
  <2>1. [sess[s] EXCEPT !.machine = "freed"] \in SessionRecord
    BY <1>1 DEF SessionRecord
  <2> QED
    BY <2>1 DEF ReleaseMachine
<1>7. ReleaseNotify(s) => SessionTypeOK'
  <2> SUFFICES ASSUME ReleaseNotify(s) PROVE SessionTypeOK'
    OBVIOUS
  <2>1. [sess[s] EXCEPT !.pc = Woken(@)] \in SessionRecord
    BY <1>1, <1>2 DEF SessionRecord
  <2> QED
    BY <2>1 DEF ReleaseNotify
<1>8. Destroy(s) => SessionTypeOK'
  BY NoSessionTyped DEF Destroy
<1> QED
  BY <1>3, <1>4, <1>5, <1>6, <1>7, <1>8

(* So does every step of a session's own thread and of its timer.          *)
LEMMA SessionStepsTyped ==
    ASSUME SessionTypeOK, NEW s \in Sessions, Proc(s) \/ TimerExpires(s)
    PROVE  SessionTypeOK'
<1> USE DEF SessionTypeOK
<1>1. sess[s] \in SessionRecord
  OBVIOUS
<1>2. SelfEvent(sess[s].dev) \in Events
  BY <1>1, NoSessionTyped DEF SessionRecord
<1>3. CASE ProcLeave(s)
  BY <1>1, <1>3 DEF ProcLeave, SessionRecord
<1>4. CASE ProcTake(s)
  <2>1. Head(sess[s].queue) \in Events /\ Tail(sess[s].queue) \in Seq(Events)
    BY <1>1, <1>4 DEF ProcTake, SessionRecord
  <2> QED
    BY <1>1, <1>4, <2>1 DEF ProcTake, SessionRecord
<1>5. CASE ProcFindNothing(s)
  BY <1>1, <1>5 DEF ProcFindNothing, SessionRecord
<1>6. CASE ProcSleep(s)
  BY <1>1, <1>6 DEF ProcSleep, SessionRecord
<1>7. CASE ProcCall(s)
  <2>1. [sess[s] EXCEPT !.pc = "executing"] \in SessionRecord
    BY <1>1 DEF SessionRecord
  <2> QED
    BY <1>7, <2>1 DEF ProcCall
<1>8. CASE ProcSetDead(s)
  BY <1>1, <1>8 DEF ProcSetDead, SessionRecord
<1>9. CASE ProcReturn(s)
  <2>1. Append(sess[s].queue, SelfEvent(sess[s].dev)) \in Seq(Events)
    BY <1>1, <1>2 DEF SessionRecord
  <2> QED
    BY <1>1, <1>2, <1>9, <2>1 DEF ProcReturn, SessionRecord
<1>10. CASE ProcReturnFreed(s)
  <2>1. [sess[s] EXCEPT !.pc = "check"] \in SessionRecord
    BY <1>1 DEF SessionRecord
  <2> QED
    BY <1>10, <2>1 DEF ProcReturnFreed
<1>11. CASE TimerExpires(s)
  BY <1>2, <1>11, CallsTyped DEF TimerExpires
<1> QED
  BY <1>3, <1>4, <1>5, <1>6, <1>7, <1>8, <1>9, <1>10, <1>11 DEF Proc

-----------------------------------------------------------------------------
(* The parts of TypeOK, so that a step proves only what it touches.        *)
LoopTypeOK ==
    /\ loop \in [{"tx", "rx"} -> LoopState]
    /\ loop["rx"].pc = "handle" => loop["rx"].item \in Messages
    /\ loop["tx"].pc \in {"name", "emplace"} => loop["tx"].item \in Messages
QueueTypeOK ==
    /\ queue \in [{"tx", "rx"} -> Seq(Items)]
    /\ queue["rx"] \in Seq(Messages)
VisitTypeOK == visit \in [{"cleaner", "main"} -> VisitState]
MapTypeOK == inMap \subseteq Sessions /\ counter \in [Directions -> 0..255]
FlagTypeOK == running \in BOOLEAN /\ sessionsMtx \in {"none", "cleaner", "main"}

LEMMA TypeOKParts ==
    TypeOK <=> SessionTypeOK /\ FlagTypeOK /\ MapTypeOK /\ QueueTypeOK
               /\ LoopTypeOK /\ VisitTypeOK
BY DEF TypeOK, FlagTypeOK, MapTypeOK, QueueTypeOK, LoopTypeOK, VisitTypeOK

(* The constants of an empty slot, an empty loop and the first key.        *)
LEMMA CoreConstants ==
    /\ MaxSessions \in Nat /\ MaxSessions > 0 /\ MaxSessions < 255
    /\ TxDirection \in Directions
    /\ RxRoutes \subseteq Directions
    /\ \A dir \in Directions : Slot(dir, 0) \in Sessions
    /\ AtTop \in LoopState
    /\ NoSlot \in Sessions
<1>1. MaxSessions \in Nat /\ MaxSessions > 0 /\ MaxSessions < 255
  BY SessionAssumption DEF SessionAssumption
<1>2. TxDirection \in Directions
  BY DEF TxDirection, Directions
<1>3. RxRoutes \subseteq Directions
  BY CoreAssumption DEF RxRoutes, Directions, CoreAssumption, Deployments
<1>4. \A dir \in Directions : Slot(dir, 0) \in Sessions
  BY <1>1 DEF Slot, Sessions
<1>5. NoSlot \in Sessions
  BY <1>4 DEF NoSlot, Directions
<1>6. AtTop \in LoopState
  BY <1>5 DEF AtTop, LoopState, NoItem, Item, Items, Directions
<1> QED
  BY <1>1, <1>2, <1>3, <1>4, <1>5, <1>6

-----------------------------------------------------------------------------
(* The number of sessions in a map.                                        *)

InDirection(dir) == {s \in inMap : s[1] = dir}

(* The slots are finitely many, and MaxSessions + 1 in each direction, so  *)
(* that a uint8_t counts them.                                             *)
LEMMA FiniteSlots ==
    /\ IsFiniteSet(Sessions)
    /\ \A dir \in Directions :
         Cardinality({s \in Sessions : s[1] = dir}) <= MaxSessions + 1
<1> DEFINE Offsets == 0 .. MaxSessions
           InDir(dir) == {s \in Sessions : s[1] = dir}
<1>1. IsFiniteSet(Offsets) /\ Cardinality(Offsets) = MaxSessions + 1
  BY CoreConstants, FS_Interval
<1>2. \A dir \in Directions :
        IsFiniteSet(InDir(dir)) /\ Cardinality(InDir(dir)) <= MaxSessions + 1
  <2> SUFFICES ASSUME NEW dir \in Directions
               PROVE  /\ IsFiniteSet(InDir(dir))
                      /\ Cardinality(InDir(dir)) <= MaxSessions + 1
    OBVIOUS
  <2> DEFINE key == [n \in Offsets |-> <<dir, n>>]
  <2>1. key \in Surjection(Offsets, InDir(dir))
    <3>1. \A n \in Offsets : key[n] \in InDir(dir)
      BY DEF Sessions
    <3>2. \A s \in InDir(dir) : \E n \in Offsets : key[n] = s
      BY DEF Sessions
    <3> QED
      BY <3>1, <3>2 DEF Surjection
  <2> HIDE DEF key, InDir, Offsets
  <2> QED
    BY <1>1, <2>1, FS_Surjection
<1>3. Sessions = InDir("up") \cup InDir("down")
  BY DEF Sessions, Directions
<1>4. IsFiniteSet(InDir("up") \cup InDir("down"))
  <2> HIDE DEF InDir
  <2> QED
    BY <1>2, FS_Union DEF Directions
<1> QED
  BY <1>2, <1>3, <1>4

LEMMA FiniteMap ==
    ASSUME inMap \subseteq Sessions
    PROVE  /\ IsFiniteSet(inMap)
           /\ \A dir \in Directions :
                /\ IsFiniteSet(InDirection(dir))
                /\ Cardinality(InDirection(dir)) \in 0 .. MaxSessions + 1
           /\ IsFiniteSet(OpenedByTx)
           /\ Cardinality(OpenedByTx) \in Nat
           /\ Cardinality(OpenedByTx) <= Cardinality(InDirection(TxDirection))
           /\ Cardinality(InDirection(TxDirection)) <= Cardinality(OpenedByTx) + 1
<1>1. IsFiniteSet(inMap)
  BY FiniteSlots, FS_Subset
<1>2. \A dir \in Directions :
        /\ IsFiniteSet(InDirection(dir))
        /\ Cardinality(InDirection(dir)) \in 0 .. MaxSessions + 1
  <2> SUFFICES ASSUME NEW dir \in Directions
               PROVE  /\ IsFiniteSet(InDirection(dir))
                      /\ Cardinality(InDirection(dir)) \in 0 .. MaxSessions + 1
    OBVIOUS
  <2> DEFINE all == {s \in Sessions : s[1] = dir}
  <2>1. IsFiniteSet(all) /\ InDirection(dir) \subseteq all
    BY FiniteSlots, FS_Subset DEF InDirection
  <2>2. Cardinality(all) <= MaxSessions + 1
    BY FiniteSlots
  <2>3. Cardinality(all) \in Nat
    BY <2>1, FS_CardinalityType
  <2> HIDE DEF all
  <2>4. /\ IsFiniteSet(InDirection(dir))
        /\ Cardinality(InDirection(dir)) <= Cardinality(all)
    BY <2>1, FS_Subset
  <2>5. Cardinality(InDirection(dir)) \in Nat
    BY <2>4, FS_CardinalityType
  <2> QED
    BY <2>2, <2>3, <2>4, <2>5, CoreConstants
<1>3. /\ IsFiniteSet(InDirection(TxDirection))
      /\ OpenedByTx \subseteq InDirection(TxDirection)
  BY <1>2, CoreConstants DEF OpenedByTx, InDirection
<1>4. /\ IsFiniteSet(OpenedByTx)
      /\ Cardinality(OpenedByTx) <= Cardinality(InDirection(TxDirection))
  BY <1>3, FS_Subset
<1>5. Cardinality(OpenedByTx) \in Nat
  BY <1>4, FS_CardinalityType
<1>6. Cardinality(InDirection(TxDirection)) <= Cardinality(OpenedByTx) + 1
  <2> DEFINE first == Slot(TxDirection, 0)
  <2>1. InDirection(TxDirection) \subseteq OpenedByTx \cup {first}
    BY DEF InDirection, OpenedByTx, Slot, Sessions
  <2>2. /\ IsFiniteSet(OpenedByTx \cup {first})
        /\ Cardinality(OpenedByTx \cup {first}) \in Nat
        /\ Cardinality(OpenedByTx \cup {first}) <= Cardinality(OpenedByTx) + 1
    <3>1. CASE first \in OpenedByTx
      <4>1. OpenedByTx \cup {first} = OpenedByTx
        BY <3>1
      <4> QED
        BY <4>1, <1>4, <1>5
    <3>2. CASE first \notin OpenedByTx
      BY <3>2, <1>4, <1>5, FS_AddElement
    <3> QED
      BY <3>1, <3>2
  <2>3. Cardinality(InDirection(TxDirection)) <= Cardinality(OpenedByTx \cup {first})
    BY <2>1, <2>2, FS_Subset
  <2>4. Cardinality(InDirection(TxDirection)) \in Nat
    BY <1>3, FS_CardinalityType
  <2> QED
    BY <1>5, <2>2, <2>3, <2>4
<1> QED
  BY <1>1, <1>2, <1>4, <1>5, <1>6

(* Opening a session keeps the counters exact, whoever opens it.           *)
LEMMA MapOpens ==
    ASSUME MapTypeOK, CounterMatchesMap,
           NEW s \in Sessions, s \notin inMap,
           inMap' = inMap \cup {s}, Count(s[1])
    PROVE  /\ MapTypeOK'
           /\ CounterMatchesMap'
           /\ s[2] = 0 => OpenedByTx' = OpenedByTx
<1>1. s[1] \in Directions /\ inMap' \subseteq Sessions
  BY DEF Sessions, MapTypeOK
<1>2. \A dir \in Directions :
        /\ counter[dir] = Cardinality(InDirection(dir))
        /\ Cardinality(InDirection(dir)) \in 0 .. MaxSessions + 1
        /\ Cardinality(InDirection(dir)') \in 0 .. MaxSessions + 1
        /\ IsFiniteSet(InDirection(dir))
  <2>1. \A dir \in Directions : IsFiniteSet(InDirection(dir)) /\
           Cardinality(InDirection(dir)) \in 0 .. MaxSessions + 1
    BY FiniteMap DEF MapTypeOK
  <2>2. \A dir \in Directions :
           Cardinality(InDirection(dir)') \in 0 .. MaxSessions + 1
    <3> DEFINE all(dir) == {x \in Sessions : x[1] = dir}
    <3> SUFFICES ASSUME NEW dir \in Directions
                 PROVE  Cardinality(InDirection(dir)') \in 0 .. MaxSessions + 1
      OBVIOUS
    <3>1. IsFiniteSet(all(dir)) /\ Cardinality(all(dir)) <= MaxSessions + 1
      BY FiniteSlots, FS_Subset
    <3>2. InDirection(dir)' \subseteq all(dir)
      BY <1>1 DEF InDirection
    <3> HIDE DEF all
    <3>3. /\ IsFiniteSet(InDirection(dir)')
          /\ Cardinality(InDirection(dir)') <= Cardinality(all(dir))
      BY <3>1, <3>2, FS_Subset
    <3> QED
      BY <3>1, <3>3, FS_CardinalityType, CoreConstants
  <2> QED
    BY <2>1, <2>2 DEF CounterMatchesMap, InDirection
<1>3. \A dir \in Directions : dir # s[1] => InDirection(dir)' = InDirection(dir)
  BY DEF InDirection
<1>4. /\ InDirection(s[1])' = InDirection(s[1]) \cup {s}
      /\ s \notin InDirection(s[1])
  BY DEF InDirection
<1>5. Cardinality(InDirection(s[1])') = Cardinality(InDirection(s[1])) + 1
  BY <1>1, <1>2, <1>4, FS_AddElement
<1>6. \A dir \in Directions : counter'[dir] = Cardinality(InDirection(dir)')
  <2> SUFFICES ASSUME NEW dir \in Directions
               PROVE  counter'[dir] = Cardinality(InDirection(dir)')
    OBVIOUS
  <2>1. CASE dir = s[1]
    <3>1. counter'[dir] = (counter[dir] + 1) % 256
      BY <1>1, <2>1 DEF Count, MapTypeOK
    <3>2. counter[dir] + 1 \in 0 .. 255
      BY <1>2, <1>5, <2>1, CoreConstants
    <3> QED
      BY <1>2, <1>5, <2>1, <3>1, <3>2
  <2>2. CASE dir # s[1]
    BY <1>2, <1>3, <2>2 DEF Count, MapTypeOK
  <2> QED
    BY <2>1, <2>2
<1>7. counter' \in [Directions -> 0 .. 255]
  <2>1. \A dir \in Directions : counter'[dir] \in 0 .. 255
    BY <1>2, <1>6, CoreConstants
  <2> QED
    BY <2>1 DEF Count, MapTypeOK
<1>8. s[2] = 0 => OpenedByTx' = OpenedByTx
  BY DEF OpenedByTx
<1> QED
  BY <1>1, <1>6, <1>7, <1>8 DEF MapTypeOK, CounterMatchesMap, InDirection

(* So does closing one: the decrement never starts from zero.              *)
LEMMA MapCloses ==
    ASSUME MapTypeOK, CounterMatchesMap, NEW s \in inMap,
           inMap' = inMap \ {s}, Uncount(s[1])
    PROVE  /\ MapTypeOK'
           /\ CounterMatchesMap'
           /\ Cardinality(OpenedByTx)' <= Cardinality(OpenedByTx)
           /\ Cardinality(OpenedByTx)' \in Nat
<1>1. s \in Sessions /\ s[1] \in Directions /\ inMap' \subseteq Sessions
  BY DEF Sessions, MapTypeOK
<1>2. \A dir \in Directions :
        /\ counter[dir] = Cardinality(InDirection(dir))
        /\ Cardinality(InDirection(dir)) \in 0 .. MaxSessions + 1
        /\ IsFiniteSet(InDirection(dir))
  BY FiniteMap DEF MapTypeOK, CounterMatchesMap, InDirection
<1>3. \A dir \in Directions : dir # s[1] => InDirection(dir)' = InDirection(dir)
  BY DEF InDirection
<1>4. /\ InDirection(s[1])' = InDirection(s[1]) \ {s}
      /\ s \in InDirection(s[1])
  BY DEF InDirection
<1>5. /\ IsFiniteSet(InDirection(s[1])')
      /\ Cardinality(InDirection(s[1])') = Cardinality(InDirection(s[1])) - 1
  BY <1>1, <1>2, <1>4, FS_RemoveElement
<1>6. Cardinality(InDirection(s[1])') \in Nat
  BY <1>5, FS_CardinalityType
<1>7. \A dir \in Directions : counter'[dir] = Cardinality(InDirection(dir)')
  <2> SUFFICES ASSUME NEW dir \in Directions
               PROVE  counter'[dir] = Cardinality(InDirection(dir)')
    OBVIOUS
  <2>1. CASE dir = s[1]
    <3>1. counter'[dir] = (counter[dir] + 255) % 256
      BY <1>1, <2>1 DEF Uncount, MapTypeOK
    <3>2. counter[dir] \in 1 .. 255
      BY <1>2, <1>5, <1>6, <2>1, CoreConstants
    <3>3. (counter[dir] + 255) % 256 = counter[dir] - 1
      BY <3>2
    <3> QED
      BY <1>2, <1>5, <2>1, <3>1, <3>3
  <2>2. CASE dir # s[1]
    BY <1>2, <1>3, <2>2 DEF Uncount, MapTypeOK
  <2> QED
    BY <2>1, <2>2
<1>8. counter' \in [Directions -> 0 .. 255]
  <2>1. \A dir \in Directions : counter'[dir] \in 0 .. 255
    BY <1>1, <1>2, <1>3, <1>5, <1>6, <1>7, CoreConstants
  <2> QED
    BY <2>1 DEF Uncount, MapTypeOK
<1>9. /\ Cardinality(OpenedByTx)' <= Cardinality(OpenedByTx)
      /\ Cardinality(OpenedByTx)' \in Nat
  <2>1. OpenedByTx' \subseteq OpenedByTx
    BY DEF OpenedByTx
  <2>2. IsFiniteSet(OpenedByTx)
    BY FiniteMap DEF MapTypeOK
  <2> QED
    BY <2>1, <2>2, FS_Subset, FS_CardinalityType
<1> QED
  BY <1>1, <1>7, <1>8, <1>9 DEF MapTypeOK, CounterMatchesMap, InDirection

-----------------------------------------------------------------------------
(* The inductive invariant.                                                *)
IInv ==
    /\ TypeOK
    /\ CounterMatchesMap
    /\ RoomForName
    /\ LockDiscipline
    /\ OnlyReleasedStop

(* The initial states satisfy it: both maps are empty, nobody holds the    *)
(* mutex and no session has begun.                                         *)
LEMMA InitIInv == Init => IInv
<1> SUFFICES ASSUME Init PROVE IInv
  OBVIOUS
<1> USE DEF Init, SessionInit
<1>1. TypeOK
  <2>1. SessionTypeOK
    BY NoSessionTyped DEF SessionTypeOK
  <2>2. FlagTypeOK /\ MapTypeOK
    BY DEF FlagTypeOK, MapTypeOK
  <2>3. QueueTypeOK
    <3>1. <<>> \in Seq(Items) /\ <<>> \in Seq(Messages)
      OBVIOUS
    <3> QED
      BY <3>1 DEF QueueTypeOK
  <2>4. LoopTypeOK
    BY CoreConstants DEF LoopTypeOK, AtTop
  <2>5. VisitTypeOK
    BY CoreConstants DEF VisitTypeOK, VisitState
  <2> QED
    BY <2>1, <2>2, <2>3, <2>4, <2>5, TypeOKParts
<1>2. CounterMatchesMap
  BY FS_EmptySet DEF CounterMatchesMap
<1>3. RoomForName
  BY DEF RoomForName, AtTop
<1>4. LockDiscipline
  BY DEF LockDiscipline, Holding, Releasing
<1>5. OnlyReleasedStop
  BY DEF OnlyReleasedStop, NoSession
<1> QED
  BY <1>1, <1>2, <1>3, <1>4, <1>5 DEF IInv

-----------------------------------------------------------------------------
(* The maps and counters under a step.                                     *)

(* Only three actions touch the maps.                                      *)
LEMMA MapSteps ==
    ASSUME Next
    PROVE  \/ UNCHANGED mapVars
           \/ TxEmplace
           \/ RxOpen
           \/ ClErase
BY DEF Next, EnqueueFromOrchestator, EnqueueFromStack, Enqueue, Tx, Rx,
       Waiting, LoopTop, LoopTake, LoopFindNothing, LoopSleep, TxAdmit,
       TxRefuse, TxName, TxIgnore, RxSkip, RxWarn, RxDeliver, Cleaner, Stop,
       Visit, StartVisit, PassOver, ReleaseSession, FreeMachine,
       NotifySession, StopJoined, ClWake, ClUnlock, StopCall, StopFlag,
       StopNotify, StopJoinLoop, StopJoinCleaner, Session, coreVars, mapVars

LEMMA MapStep ==
    ASSUME IInv, Next
    PROVE  MapTypeOK' /\ CounterMatchesMap'
<1> USE DEF IInv
<1>1. MapTypeOK /\ LoopTypeOK /\ VisitTypeOK
  BY TypeOKParts
<1>2. CASE UNCHANGED mapVars
  BY <1>1, <1>2 DEF MapTypeOK, CounterMatchesMap, mapVars
<1>3. CASE TxEmplace
  <2>1. loop["tx"].slot \in Sessions
    BY <1>1 DEF LoopTypeOK, LoopState
  <2> QED
    BY <1>1, <1>3, <2>1, MapOpens DEF TxEmplace, TxInserts, Open
<1>4. CASE RxOpen
  <2>1. RxSlot \in Sessions
    BY <1>1, <1>4, CoreConstants DEF RxOpen, RxSlot, LoopTypeOK, Messages
  <2> QED
    BY <1>1, <1>4, <2>1, MapOpens DEF RxOpen, Open
<1>5. CASE ClErase
  <2>1. visit["cleaner"].target \in inMap
    BY <1>5 DEF ClErase, Joined, LockDiscipline, Releasing, Holding
  <2> QED
    BY <1>1, <1>5, <2>1, MapCloses DEF ClErase
<1> QED
  BY <1>2, <1>3, <1>4, <1>5, MapSteps

(* runRx() and the cleaner leave runTx() the room it saw.                  *)
LEMMA RoomStep ==
    ASSUME IInv, Next
    PROVE  RoomForName'
<1> USE DEF IInv
<1>1. MapTypeOK /\ LoopTypeOK /\ VisitTypeOK
  BY TypeOKParts
<1> SUFFICES ASSUME loop'["tx"].pc = "name"
             PROVE  Cardinality(OpenedByTx)' < MaxSessions
  BY DEF RoomForName
<1>2. CASE TxAdmit
  <2>1. OpenedByTx' = OpenedByTx
    BY <1>2 DEF TxAdmit, mapVars, OpenedByTx
  <2>2. Cardinality(InDirection(TxDirection)) < MaxSessions
    BY <1>2, CoreConstants
       DEF TxAdmit, TxHasRoom, CounterMatchesMap, InDirection
  <2>3. /\ Cardinality(OpenedByTx) \in Nat
        /\ Cardinality(InDirection(TxDirection)) \in Nat
        /\ Cardinality(OpenedByTx) <= Cardinality(InDirection(TxDirection))
    BY <1>1, FiniteMap, CoreConstants DEF MapTypeOK
  <2> QED
    BY <2>1, <2>2, <2>3, CoreConstants
<1>3. CASE ~TxAdmit
  <2>1. loop["tx"].pc = "name"
    <3>1. loop \in [{"tx", "rx"} -> LoopState]
      BY <1>1 DEF LoopTypeOK
    <3> QED
      BY <1>3, <3>1
      DEF LoopState, Next, EnqueueFromOrchestator, EnqueueFromStack, Enqueue,
          Woken, Tx, Rx, Waiting, LoopTop, LoopTake, LoopFindNothing,
          LoopSleep, TxRefuse, TxName, TxEmplace, TxIgnore, RxSkip, RxOpen,
          RxWarn, RxDeliver, GoTo, LoopNext, AtTop, Cleaner, Stop, Visit,
          StartVisit, PassOver, ReleaseSession, FreeMachine, NotifySession,
          StopJoined, ClErase, ClWake, ClUnlock, StopCall, StopFlag,
          StopNotify, StopJoinLoop, StopJoinCleaner, Session, coreVars
  <2>2. Cardinality(OpenedByTx) < MaxSessions /\ Cardinality(OpenedByTx) \in Nat
    BY <1>1, <2>1, FiniteMap DEF RoomForName, MapTypeOK
  <2>3. CASE UNCHANGED mapVars
    BY <2>2, <2>3 DEF mapVars, OpenedByTx
  <2>4. CASE TxEmplace
    BY <2>1, <2>4 DEF TxEmplace
  <2>5. CASE RxOpen
    <3>1. RxSlot \in Sessions /\ RxSlot[2] = 0
      BY <1>1, <2>5, CoreConstants
         DEF RxOpen, RxSlot, Slot, LoopTypeOK, Messages
    <3> QED
      BY <1>1, <2>2, <2>5, <3>1, MapOpens DEF RxOpen, Open
  <2>6. CASE ClErase
    <3>1. visit["cleaner"].target \in inMap
      BY <2>6 DEF ClErase, Joined, LockDiscipline, Releasing, Holding
    <3> QED
      BY <1>1, <2>2, <2>6, <3>1, MapCloses, CoreConstants DEF ClErase
  <2> QED
    BY <2>3, <2>4, <2>5, <2>6, MapSteps
<1> QED
  BY <1>2, <1>3

-----------------------------------------------------------------------------
(* Types under a step.                                                     *)

LEMMA SessionTypeStep ==
    ASSUME IInv, Next
    PROVE  SessionTypeOK'
<1> USE DEF IInv
<1>1. SessionTypeOK /\ LoopTypeOK /\ VisitTypeOK
  BY TypeOKParts
<1>2. CASE UNCHANGED sessionVars
  BY <1>1, <1>2 DEF SessionTypeOK, sessionVars
<1>3. \A type \in EventTypes, dev \in Devices :
        [type |-> type, dev |-> dev] \in Events
  BY DEF Events
<1>4. CASE TxEmplace
  <2>1. /\ loop["tx"].slot \in Sessions
        /\ loop["tx"].item.dev \in Devices
    BY <1>1, <1>4 DEF TxEmplace, LoopTypeOK, LoopState, Messages
  <2> DEFINE e == [type |-> "core", dev |-> loop["tx"].item.dev]
  <2>2. e \in Events /\ e.dev = loop["tx"].item.dev
    BY <1>3, <2>1 DEF EventTypes
  <2>3. Create(loop["tx"].slot, e.dev, e)
    BY <1>4, <2>2 DEF TxEmplace, Open
  <2> HIDE DEF e
  <2> QED
    BY <1>1, <2>1, <2>2, <2>3, CallsTyped
<1>5. CASE RxOpen \/ RxDeliver
  <2>1. /\ RxSlot \in Sessions
        /\ loop["rx"].item.dev \in Devices
    BY <1>1, <1>5, CoreConstants
       DEF RxOpen, RxDeliver, RxSlot, LoopTypeOK, Messages
  <2> DEFINE e == [type |-> "stack", dev |-> loop["rx"].item.dev]
  <2>2. e \in Events /\ e.dev = loop["rx"].item.dev
    BY <1>3, <2>1 DEF EventTypes
  <2>3. Create(RxSlot, e.dev, e) \/ EnqueueEvent(RxSlot, e)
    BY <1>5, <2>2 DEF RxOpen, RxDeliver, Open
  <2> HIDE DEF e
  <2> QED
    BY <1>1, <2>1, <2>2, <2>3, CallsTyped
<1>6. CASE \E v \in {"cleaner", "main"} :
             ReleaseSession(v) \/ FreeMachine(v) \/ NotifySession(v)
  <2>1. PICK v \in {"cleaner", "main"} :
             ReleaseSession(v) \/ FreeMachine(v) \/ NotifySession(v)
    BY <1>6
  <2>2. visit[v].todo \subseteq Sessions /\ visit[v].target \in Sessions
    BY <1>1, <2>1 DEF VisitTypeOK, VisitState
  <2>3. \E s \in Sessions :
          ReleaseFlag(s) \/ ReleaseMachine(s) \/ ReleaseNotify(s)
    BY <2>1, <2>2
       DEF ReleaseSession, FreeMachine, NotifySession, Foremost
  <2>4. \E e : e \in Events
    BY NoSessionTyped
  <2> QED
    BY <1>1, <2>3, <2>4, CallsTyped
<1>7. CASE ClErase
  <2>1. visit["cleaner"].target \in Sessions /\ \E e : e \in Events
    BY <1>1, NoSessionTyped DEF VisitTypeOK, VisitState
  <2> QED
    BY <1>1, <1>7, <2>1, CallsTyped DEF ClErase
<1>8. CASE \E s \in Sessions : Session(s)
  BY <1>1, <1>8, SessionStepsTyped DEF Session
<1> QED
  BY <1>2, <1>4, <1>5, <1>6, <1>7, <1>8
  DEF Next, EnqueueFromOrchestator, EnqueueFromStack, Enqueue, Tx, Rx,
      Waiting, LoopTop, LoopTake, LoopFindNothing, LoopSleep, TxAdmit,
      TxRefuse, TxName, TxIgnore, RxSkip, RxWarn, Cleaner, Stop, Visit,
      StartVisit, PassOver, StopJoined, ClWake, ClUnlock, StopCall, StopFlag,
      StopNotify, StopJoinLoop, StopJoinCleaner

LEMMA QueueTypeStep ==
    ASSUME IInv, Next
    PROVE  QueueTypeOK'
<1> USE DEF IInv
<1>1. QueueTypeOK
  BY TypeOKParts
<1>2. CASE UNCHANGED queue
  BY <1>1, <1>2 DEF QueueTypeOK
<1>3. CASE EnqueueFromOrchestator
  <2>1. PICK p \in Offered : Enqueue("tx", Item(TxDirection, p))
    BY <1>3 DEF EnqueueFromOrchestator
  <2>2. Item(TxDirection, p) \in Items
    BY CoreAssumption, CoreConstants DEF Item, Items, CoreAssumption
  <2>3. Append(queue["tx"], Item(TxDirection, p)) \in Seq(Items)
    BY <1>1, <2>2 DEF QueueTypeOK
  <2> QED
    BY <1>1, <2>1, <2>3 DEF Enqueue, QueueTypeOK
<1>4. CASE EnqueueFromStack
  <2>1. PICK dir \in Heard, dev \in Devices : Enqueue("rx", Item(dir, dev))
    BY <1>4 DEF EnqueueFromStack
  <2>2. Item(dir, dev) \in Messages /\ Item(dir, dev) \in Items
    BY CoreAssumption DEF Item, Items, Messages, CoreAssumption
  <2>3. /\ Append(queue["rx"], Item(dir, dev)) \in Seq(Items)
        /\ Append(queue["rx"], Item(dir, dev)) \in Seq(Messages)
    BY <1>1, <2>2 DEF QueueTypeOK
  <2> QED
    BY <1>1, <2>1, <2>3 DEF Enqueue, QueueTypeOK
<1>5. CASE \E l \in {"tx", "rx"} : LoopTake(l)
  <2>1. PICK l \in {"tx", "rx"} : LoopTake(l)
    BY <1>5
  <2>2. /\ Tail(queue[l]) \in Seq(Items)
        /\ l = "rx" => Tail(queue[l]) \in Seq(Messages)
    BY <1>1, <2>1 DEF LoopTake, QueueTypeOK
  <2> QED
    BY <1>1, <2>1, <2>2 DEF LoopTake, QueueTypeOK
<1> QED
  BY <1>2, <1>3, <1>4, <1>5
  DEF Next, Tx, Rx, Waiting, LoopTop, LoopFindNothing, LoopSleep, TxAdmit,
      TxRefuse, TxName, TxEmplace, TxIgnore, RxSkip, RxOpen, RxWarn,
      RxDeliver, GoTo, LoopNext, Cleaner, Stop, Visit, StartVisit, PassOver,
      ReleaseSession, FreeMachine, NotifySession, StopJoined, ClErase, ClWake,
      ClUnlock, StopCall, StopFlag, StopNotify, StopJoinLoop,
      StopJoinCleaner, Session, coreVars

LEMMA LoopTypeStep ==
    ASSUME IInv, Next
    PROVE  LoopTypeOK'
<1> USE DEF IInv
<1>1. LoopTypeOK /\ QueueTypeOK
  BY TypeOKParts
<1>2. CASE UNCHANGED loop
  BY <1>1, <1>2 DEF LoopTypeOK
<1>3. CASE \E l \in {"tx", "rx"} : \E item : Enqueue(l, item)
  BY <1>1, <1>3 DEF Enqueue, Woken, LoopTypeOK, LoopState
<1>4. CASE \E l \in {"tx", "rx"} :
             LoopTop(l) \/ LoopFindNothing(l) \/ LoopSleep(l)
  BY <1>1, <1>4
  DEF LoopTop, LoopFindNothing, LoopSleep, GoTo, LoopTypeOK, LoopState
<1>5. CASE \E l \in {"tx", "rx"} : LoopTake(l)
  <2>1. PICK l \in {"tx", "rx"} : LoopTake(l)
    BY <1>5
  <2>2. /\ Head(queue[l]) \in Items
        /\ l = "rx" => Head(queue[l]) \in Messages
    BY <1>1, <2>1 DEF LoopTake, QueueTypeOK
  <2> QED
    BY <1>1, <2>1, <2>2 DEF LoopTake, LoopTypeOK, LoopState
<1>6. CASE TxAdmit
  <2>1. loop["tx"].item \in Messages
    BY <1>1, <1>6 DEF TxAdmit, LoopTypeOK, LoopState, Items, Messages
  <2> QED
    BY <1>1, <1>6, <2>1 DEF TxAdmit, GoTo, LoopTypeOK, LoopState
<1>7. CASE TxName
  <2>1. counter[TxDirection] \in 0 .. MaxSessions
    <3>1. MapTypeOK /\ loop["tx"].pc = "name"
      BY <1>7, TypeOKParts DEF TxName
    <3>2. /\ counter[TxDirection] = Cardinality(InDirection(TxDirection))
          /\ Cardinality(InDirection(TxDirection)) \in 0 .. MaxSessions + 1
      BY <3>1, FiniteMap, CoreConstants
         DEF CounterMatchesMap, InDirection, MapTypeOK
    <3>3. /\ Cardinality(OpenedByTx) < MaxSessions
          /\ Cardinality(OpenedByTx) \in Nat
          /\ Cardinality(InDirection(TxDirection)) <= Cardinality(OpenedByTx) + 1
      BY <3>1, FiniteMap DEF RoomForName, MapTypeOK
    <3> QED
      BY <3>2, <3>3, CoreConstants
  <2>2. Slot(TxDirection, counter[TxDirection]) \in Sessions
    BY <2>1, CoreConstants DEF Slot, Sessions
  <2> QED
    BY <1>1, <1>7, <2>2 DEF TxName, LoopTypeOK, LoopState
<1>8. CASE \E l \in {"tx", "rx"} : LoopNext(l)
  BY <1>1, <1>8, CoreConstants DEF LoopNext, LoopTypeOK, AtTop
<1>9. CASE StopNotify
  BY <1>1, <1>9 DEF StopNotify, Woken, LoopTypeOK, LoopState
<1> QED
  BY <1>2, <1>3, <1>4, <1>5, <1>6, <1>7, <1>8, <1>9
  DEF Next, EnqueueFromOrchestator, EnqueueFromStack, Tx, Rx, Waiting,
      TxRefuse, TxEmplace, TxIgnore, RxSkip, RxOpen, RxWarn, RxDeliver,
      Cleaner, Stop, Visit, StartVisit, PassOver, ReleaseSession, FreeMachine,
      NotifySession, StopJoined, ClErase, ClWake, ClUnlock, StopCall,
      StopFlag, StopJoinLoop, StopJoinCleaner, Session, coreVars

LEMMA VisitTypeStep ==
    ASSUME IInv, Next
    PROVE  VisitTypeOK' /\ FlagTypeOK'
<1> USE DEF IInv
<1>1. VisitTypeOK /\ FlagTypeOK /\ MapTypeOK
  BY TypeOKParts
<1>2. CASE UNCHANGED <<visit, running, sessionsMtx>>
  BY <1>1, <1>2 DEF VisitTypeOK, FlagTypeOK
<1>3. CASE \E v \in {"cleaner", "main"} : Visit(v)
  <2>1. NoSlot \in Sessions
    BY CoreConstants
  <2> QED
    BY <1>1, <1>3
    DEF Visit, StartVisit, PassOver, ReleaseSession, FreeMachine,
        NotifySession, Step, Lock, ToVisit, Foremost, VisitTypeOK, VisitState,
        FlagTypeOK, MapTypeOK
<1>4. CASE ClErase \/ StopJoined
  BY <1>1, <1>4, CoreConstants
  DEF ClErase, StopJoined, Joined, VisitTypeOK, VisitState, FlagTypeOK
<1>5. CASE ClWake \/ ClUnlock
  BY <1>1, <1>5 DEF ClWake, ClUnlock, Step, Unlock, VisitTypeOK, VisitState,
     FlagTypeOK
<1>6. CASE \/ StopCall \/ StopFlag \/ StopNotify \/ StopJoinLoop
           \/ StopJoinCleaner
  <2>1. CASE StopCall
    BY <1>1, <2>1 DEF StopCall, Step, VisitTypeOK, VisitState, FlagTypeOK
  <2>2. CASE StopFlag
    BY <1>1, <2>2 DEF StopFlag, Step, VisitTypeOK, VisitState, FlagTypeOK
  <2>3. CASE StopNotify
    BY <1>1, <2>3 DEF StopNotify, Step, VisitTypeOK, VisitState, FlagTypeOK
  <2>4. CASE StopJoinLoop
    BY <1>1, <2>4 DEF StopJoinLoop, Step, VisitTypeOK, VisitState, FlagTypeOK
  <2>5. CASE StopJoinCleaner
    BY <1>1, <2>5
    DEF StopJoinCleaner, Step, Unlock, VisitTypeOK, VisitState, FlagTypeOK
  <2> QED
    BY <1>6, <2>1, <2>2, <2>3, <2>4, <2>5
<1> QED
  BY <1>2, <1>3, <1>4, <1>5, <1>6
  DEF Next, EnqueueFromOrchestator, EnqueueFromStack, Enqueue, Tx, Rx,
      Waiting, LoopTop, LoopTake, LoopFindNothing, LoopSleep, TxAdmit,
      TxRefuse, TxName, TxEmplace, TxIgnore, RxSkip, RxOpen, RxWarn,
      RxDeliver, GoTo, LoopNext, Cleaner, Stop, Session, coreVars

-----------------------------------------------------------------------------
(* What a step does to the sessions, seen from the threads of the core.    *)

(* A step that neither opens, releases nor destroys session s leaves it as *)
(* usable as it was, and never unsays that it is dead.                     *)
Undisturbed(s) ==
    /\ sess'[s].running = sess[s].running
    /\ sess[s].dead => sess'[s].dead
    /\ Usable(s) => Usable(s)'

LEMMA OwnStepsDoNotDisturb ==
    ASSUME SessionTypeOK, NEW s \in Sessions, NEW t \in Sessions
    PROVE  /\ Proc(s) => Undisturbed(t)
           /\ TimerExpires(s) => Undisturbed(t)
           /\ \A e : EnqueueEvent(s, e) => Undisturbed(t)
           /\ ReleaseNotify(s) => Undisturbed(t)
           /\ UNCHANGED sessionVars => Undisturbed(t)
<1> USE DEF SessionTypeOK, Undisturbed, Usable
<1>1. sess[s] \in SessionRecord /\ sess[t] \in SessionRecord
  OBVIOUS
<1>2. \A e : EnqueueEvent(s, e) => Undisturbed(t)
  BY <1>1 DEF EnqueueEvent, SessionRecord, Woken
<1>3. TimerExpires(s) => Undisturbed(t)
  BY <1>2 DEF TimerExpires
<1>4. ReleaseNotify(s) => Undisturbed(t)
  BY <1>1 DEF ReleaseNotify, SessionRecord, Woken
<1>5. UNCHANGED sessionVars => Undisturbed(t)
  BY DEF sessionVars
<1>6. ProcLeave(s) => Undisturbed(t)
  BY <1>1 DEF ProcLeave, SessionRecord
<1>7. ProcTake(s) => Undisturbed(t)
  BY <1>1 DEF ProcTake, SessionRecord
<1>8. ProcFindNothing(s) => Undisturbed(t)
  BY <1>1 DEF ProcFindNothing, SessionRecord
<1>9. ProcSleep(s) => Undisturbed(t)
  BY <1>1 DEF ProcSleep, SessionRecord
<1>10. ProcCall(s) => Undisturbed(t)
  <2>1. CASE sess[s].machine = "live"
    BY <1>1, <2>1 DEF ProcCall, SessionRecord
  <2>2. CASE sess[s].machine # "live"
    BY <1>1, <2>2 DEF ProcCall, SessionRecord
  <2> QED
    BY <2>1, <2>2
<1>11. ProcSetDead(s) => Undisturbed(t)
  BY <1>1 DEF ProcSetDead, SessionRecord
<1>12. ProcReturn(s) => Undisturbed(t)
  BY <1>1 DEF ProcReturn, SessionRecord
<1>13. ProcReturnFreed(s) => Undisturbed(t)
  BY <1>1 DEF ProcReturnFreed, SessionRecord
<1> QED
  BY <1>2, <1>3, <1>4, <1>5, <1>6, <1>7, <1>8, <1>9, <1>10, <1>11, <1>12,
     <1>13 DEF Proc

-----------------------------------------------------------------------------
(* The mutex under a step.                                                 *)

(* The actions that leave the visitors, the mutex and the maps alone.      *)
Bystander ==
    /\ UNCHANGED <<visit, sessionsMtx, mapVars>>
    /\ \A s \in Sessions : Undisturbed(s)

LEMMA Bystanders ==
    ASSUME IInv, Next
    PROVE  \/ Bystander
           \/ TxEmplace \/ RxOpen
           \/ \E v \in {"cleaner", "main"} : Visit(v)
           \/ ClErase \/ StopJoined \/ ClWake \/ ClUnlock
           \/ StopCall \/ StopFlag \/ StopNotify \/ StopJoinLoop
           \/ StopJoinCleaner
<1>1. SessionTypeOK /\ LoopTypeOK
  BY TypeOKParts DEF IInv
<1>2. Sessions # {}
  BY CoreConstants
<1>3. ASSUME UNCHANGED <<visit, sessionsMtx, mapVars>>, UNCHANGED sessionVars
      PROVE  Bystander
  BY <1>1, <1>3, <1>2, OwnStepsDoNotDisturb DEF Bystander
<1>4. ASSUME NEW s \in Sessions, Session(s)
      PROVE  Bystander
  BY <1>1, <1>4, OwnStepsDoNotDisturb DEF Bystander, Session, coreVars, mapVars
<1>5. RxDeliver => Bystander
  <2> SUFFICES ASSUME RxDeliver PROVE Bystander
    OBVIOUS
  <2>1. RxSlot \in Sessions
    BY <1>1, CoreConstants DEF RxDeliver, RxSlot, LoopTypeOK, Messages
  <2> QED
    BY <1>1, <2>1, OwnStepsDoNotDisturb DEF RxDeliver, LoopNext, Bystander
<1> QED
  BY <1>3, <1>4, <1>5
  DEF Next, EnqueueFromOrchestator, EnqueueFromStack, Enqueue, Tx, Rx,
      Waiting, LoopTop, LoopTake, LoopFindNothing, LoopSleep, TxAdmit,
      TxRefuse, TxName, TxIgnore, RxSkip, RxWarn, GoTo, LoopNext, Cleaner,
      Stop

LEMMA LockStep ==
    ASSUME IInv, Next
    PROVE  LockDiscipline'
<1> USE DEF IInv
<1>1. SessionTypeOK /\ VisitTypeOK /\ MapTypeOK
  BY TypeOKParts
<1>2. CASE Bystander
  <2>1. \A v \in {"cleaner", "main"} : visit[v].target \in Sessions
    BY <1>1 DEF VisitTypeOK, VisitState
  <2> QED
    BY <1>2, <2>1
    DEF Bystander, mapVars, LockDiscipline, Due, Undisturbed
<1>3. CASE TxEmplace \/ RxOpen
  BY <1>3 DEF TxEmplace, RxOpen, LoopNext, LockDiscipline, Holding, Releasing
<1>4. CASE \E v \in {"cleaner", "main"} : StartVisit(v)
  BY <1>1, <1>4
  DEF StartVisit, Lock, ToVisit, LockDiscipline, Holding, Releasing,
      VisitTypeOK, VisitState, mapVars
<1>5. CASE \E v \in {"cleaner", "main"} : PassOver(v)
  BY <1>1, <1>5
  DEF PassOver, LockDiscipline, Holding, Releasing, VisitTypeOK, VisitState,
      mapVars, sessionVars
<1>6. CASE \E v \in {"cleaner", "main"} : ReleaseSession(v)
  <2>1. PICK v \in {"cleaner", "main"} : ReleaseSession(v)
    BY <1>6
  <2>2. PICK s \in Foremost(visit[v].todo) :
          /\ Due(v, s)
          /\ ReleaseFlag(s)
          /\ visit' = [visit EXCEPT ![v] =
               [pc |-> "free", todo |-> visit[v].todo \ {s}, target |-> s]]
    BY <2>1 DEF ReleaseSession
  <2>3. /\ visit[v].pc = "scan" /\ sessionsMtx = v
        /\ visit[v].todo \subseteq inMap
        /\ \A w \in {"cleaner", "main"} : w # v => visit[w].pc \notin Holding[w]
    BY <2>1 DEF ReleaseSession, LockDiscipline, Holding
  <2>4. s \in inMap /\ s \in Sessions
    BY <1>1, <2>2, <2>3 DEF Foremost, MapTypeOK
  <2>5. sess[s] \in SessionRecord
    BY <1>1, <2>4 DEF SessionTypeOK
  <2>6. ~sess'[s].running /\ (Due(v, s))'
    BY <1>1, <2>2, <2>4, <2>5
       DEF ReleaseFlag, Due, SessionTypeOK, SessionRecord
  <2>7. UNCHANGED <<sessionsMtx, inMap>>
    BY <2>1 DEF ReleaseSession, mapVars
  <2>8. /\ visit'[v] =
              [pc |-> "free", todo |-> visit[v].todo \ {s}, target |-> s]
        /\ \A w \in {"cleaner", "main"} : w # v => visit'[w] = visit[w]
    BY <1>1, <2>2 DEF VisitTypeOK
  <2>9. \A w \in {"cleaner", "main"} : w # v => visit'[w].pc \notin Releasing
    BY <2>3, <2>8 DEF Holding
  <2> QED
    BY <2>3, <2>4, <2>6, <2>7, <2>8, <2>9
       DEF LockDiscipline, Holding, Releasing
<1>7. CASE \E v \in {"cleaner", "main"} : FreeMachine(v) \/ NotifySession(v)
  <2>1. PICK v \in {"cleaner", "main"} : FreeMachine(v) \/ NotifySession(v)
    BY <1>7
  <2>2. visit[v].target \in Sessions
    BY <1>1 DEF VisitTypeOK, VisitState
  <2>3. \A s \in Sessions : /\ sess'[s].running = sess[s].running
                            /\ sess'[s].dead = sess[s].dead
    <3> SUFFICES ASSUME NEW s \in Sessions
                 PROVE  /\ sess'[s].running = sess[s].running
                        /\ sess'[s].dead = sess[s].dead
      OBVIOUS
    <3>1. sess[s] \in SessionRecord
      BY <1>1 DEF SessionTypeOK
    <3>2. CASE FreeMachine(v)
      BY <1>1, <2>2, <3>1, <3>2
         DEF FreeMachine, ReleaseMachine, SessionTypeOK, SessionRecord
    <3>3. CASE NotifySession(v)
      BY <1>1, <2>2, <3>1, <3>3
         DEF NotifySession, ReleaseNotify, SessionTypeOK, SessionRecord
    <3> QED
      BY <2>1, <3>2, <3>3
  <2>4. UNCHANGED <<sessionsMtx, inMap>>
    BY <2>1 DEF FreeMachine, NotifySession, mapVars
  <2>5. /\ visit[v].pc \in Releasing /\ visit'[v].pc \in Releasing
        /\ visit'[v].todo = visit[v].todo
        /\ visit'[v].target = visit[v].target
        /\ \A w \in {"cleaner", "main"} : w # v => visit'[w] = visit[w]
    BY <1>1, <2>1
       DEF FreeMachine, NotifySession, Step, Releasing, VisitTypeOK, VisitState
  <2>6. \A w \in {"cleaner", "main"} : visit[w].target \in Sessions
    BY <1>1 DEF VisitTypeOK, VisitState
  <2> QED
    BY <2>3, <2>4, <2>5, <2>6 DEF LockDiscipline, Holding, Due
<1>8. CASE ClErase
  BY <1>1, <1>8
  DEF ClErase, Joined, LockDiscipline, Holding, Releasing, VisitTypeOK,
      VisitState
<1>9. CASE StopJoined
  BY <1>1, <1>9
  DEF StopJoined, Joined, LockDiscipline, Holding, Releasing, VisitTypeOK,
      VisitState, mapVars, sessionVars
<1>10. CASE ClWake
  BY <1>1, <1>10
  DEF ClWake, Step, LockDiscipline, Due, Holding, Releasing,
      VisitTypeOK, VisitState, mapVars, sessionVars
<1>11. CASE ClUnlock
  BY <1>1, <1>11
  DEF ClUnlock, Step, Unlock, LockDiscipline, Due, Holding, Releasing,
      VisitTypeOK, VisitState, mapVars, sessionVars
<1>12. CASE StopCall
  BY <1>1, <1>12
  DEF StopCall, Step, LockDiscipline, Due, Holding, Releasing,
      VisitTypeOK, VisitState, mapVars, sessionVars
<1>13. CASE StopFlag
  BY <1>1, <1>13
  DEF StopFlag, Step, LockDiscipline, Due, Holding, Releasing,
      VisitTypeOK, VisitState, mapVars, sessionVars
<1>14. CASE StopNotify
  BY <1>1, <1>14
  DEF StopNotify, Step, LockDiscipline, Due, Holding, Releasing,
      VisitTypeOK, VisitState, mapVars, sessionVars
<1>15. CASE StopJoinLoop \/ StopJoinCleaner
  BY <1>1, <1>15
  DEF StopJoinLoop, StopJoinCleaner, Step, Unlock, LockDiscipline, Holding,
      Releasing, VisitTypeOK, VisitState, mapVars, sessionVars
<1> QED
  BY <1>2, <1>3, <1>4, <1>5, <1>6, <1>7, <1>8, <1>9, <1>10, <1>11,
     <1>12, <1>13, <1>14, <1>15, Bystanders DEF Visit

-----------------------------------------------------------------------------
(* Sessions under a step.                                                  *)

LEMMA ReleasedStep ==
    ASSUME IInv, Next
    PROVE  OnlyReleasedStop'
<1> USE DEF IInv
<1>1. SessionTypeOK /\ VisitTypeOK /\ MapTypeOK /\ LoopTypeOK
  BY TypeOKParts
<1>2. \A s \in Sessions : sess[s] \in SessionRecord
  BY <1>1 DEF SessionTypeOK
(* A step that disturbs no session and takes none away from its holder.    *)
<1>3. ASSUME \A s \in Sessions : Undisturbed(s),
             UNCHANGED inMap,
             \A s \in Sessions : ToldToStop(s) => ToldToStop(s)'
      PROVE  OnlyReleasedStop'
  BY <1>3 DEF OnlyReleasedStop, Undisturbed
<1>4. UNCHANGED sessionVars => \A s \in Sessions : Undisturbed(s)
  BY <1>1, CoreConstants, OwnStepsDoNotDisturb
<1>5. CASE Bystander
  BY <1>3, <1>5 DEF Bystander, ToldToStop, mapVars
<1>6. CASE TxEmplace \/ RxOpen
  <2>1. PICK s \in Sessions, dev \in Devices, type \in EventTypes :
          Open(s, dev, type) /\ UNCHANGED visit
    BY <1>1, <1>6, CoreConstants
    DEF TxEmplace, RxOpen, RxSlot, LoopNext, LoopTypeOK, LoopState, Messages,
        EventTypes
  <2>2. /\ sess'[s].running /\ Usable(s)'
        /\ \A t \in Sessions : t # s => sess'[t] = sess[t]
    BY <1>1, <2>1 DEF Open, Create, Usable, SessionTypeOK
  <2> QED
    BY <2>1, <2>2 DEF OnlyReleasedStop, Usable, ToldToStop, Open
<1>7. CASE \E v \in {"cleaner", "main"} :
             StartVisit(v) \/ PassOver(v) \/ NotifySession(v)
  <2>1. PICK v \in {"cleaner", "main"} :
             StartVisit(v) \/ PassOver(v) \/ NotifySession(v)
    BY <1>7
  <2>2. \A s \in Sessions : Undisturbed(s)
    <3>1. visit[v].target \in Sessions
      BY <1>1 DEF VisitTypeOK, VisitState
    <3> QED
      BY <1>1, <1>4, <2>1, <3>1, OwnStepsDoNotDisturb
         DEF StartVisit, PassOver, NotifySession
  <2>3. \A s \in Sessions : ToldToStop(s) => ToldToStop(s)'
    BY <1>1, <2>1
    DEF StartVisit, PassOver, NotifySession, Step, ToldToStop, Releasing,
        Holding, VisitTypeOK, VisitState
  <2> QED
    BY <1>3, <2>1, <2>2, <2>3 DEF StartVisit, PassOver, NotifySession, mapVars
<1>8. CASE \E v \in {"cleaner", "main"} : ReleaseSession(v)
  <2>1. PICK v \in {"cleaner", "main"} : ReleaseSession(v)
    BY <1>8
  <2>2. PICK s \in Foremost(visit[v].todo) :
          /\ ReleaseFlag(s)
          /\ visit' = [visit EXCEPT ![v] =
               [pc |-> "free", todo |-> visit[v].todo \ {s}, target |-> s]]
    BY <2>1 DEF ReleaseSession
  <2>3. /\ visit[v].pc = "scan" /\ UNCHANGED inMap
        /\ s \in Sessions
        /\ sess' = [sess EXCEPT ![s] = [sess[s] EXCEPT !.running = FALSE]]
    BY <1>1, <2>1, <2>2
    DEF ReleaseSession, ReleaseFlag, Foremost, VisitTypeOK, VisitState, mapVars
  <2>4. /\ ~sess'[s].running
        /\ \A t \in Sessions : t # s => sess'[t] = sess[t]
    BY <1>1, <1>2, <2>3 DEF SessionTypeOK, SessionRecord
  <2>5. /\ visit'[v].pc = "free" /\ visit'[v].target = s
        /\ \A w \in {"cleaner", "main"} : w # v => visit'[w] = visit[w]
    BY <1>1, <2>2 DEF VisitTypeOK
  <2>6. ToldToStop(s)'
    BY <2>5 DEF ToldToStop, Releasing, Holding
  <2>7. \A t \in Sessions : ToldToStop(t) => ToldToStop(t)'
    BY <2>3, <2>5 DEF ToldToStop, Releasing, Holding
  <2> QED
    BY <2>3, <2>4, <2>6, <2>7 DEF OnlyReleasedStop, Usable
<1>9. CASE \E v \in {"cleaner", "main"} : FreeMachine(v)
  <2>1. PICK v \in {"cleaner", "main"} : FreeMachine(v)
    BY <1>9
  <2> DEFINE s == visit[v].target
  <2>2. /\ s \in Sessions /\ ~sess[s].running
        /\ UNCHANGED inMap
        /\ sess' = [sess EXCEPT ![s] = [sess[s] EXCEPT !.machine = "freed"]]
    BY <1>1, <2>1
    DEF FreeMachine, ReleaseMachine, Step, LockDiscipline, Holding, Releasing,
        VisitTypeOK, VisitState, mapVars
  <2>3. /\ sess'[s].running = sess[s].running
        /\ \A t \in Sessions : t # s => sess'[t] = sess[t]
    BY <1>1, <1>2, <2>2 DEF SessionTypeOK, SessionRecord
  <2>4. \A t \in Sessions : ToldToStop(t) => ToldToStop(t)'
    BY <1>1, <2>1
    DEF FreeMachine, Step, ToldToStop, Releasing, Holding, VisitTypeOK,
        VisitState
  <2> QED
    BY <2>2, <2>3, <2>4 DEF OnlyReleasedStop, Usable
<1>10. CASE ClErase
  <2> DEFINE s == visit["cleaner"].target
  <2>1. /\ s \in Sessions
        /\ inMap' = inMap \ {s}
        /\ ~sess'[s].running
        /\ \A t \in Sessions : t # s => sess'[t] = sess[t]
    BY <1>1, <1>10
    DEF ClErase, Destroy, NoSession, VisitTypeOK, VisitState, SessionTypeOK
  <2>2. \A t \in Sessions : t # s /\ ToldToStop(t) => ToldToStop(t)'
    BY <1>1, <1>10 DEF ClErase, Joined, ToldToStop, VisitTypeOK
  <2> QED
    BY <2>1, <2>2 DEF OnlyReleasedStop, Usable
<1>11. CASE StopJoined \/ StopFlag \/ StopNotify
  <2>1. \A s \in Sessions : ToldToStop(s) => ToldToStop(s)'
    BY <1>1, <1>11
    DEF StopJoined, Joined, StopFlag, StopNotify, Step, ToldToStop, Releasing,
        Holding, VisitTypeOK, VisitState
  <2> QED
    BY <1>3, <1>4, <1>11, <2>1 DEF StopJoined, StopFlag, StopNotify, mapVars
<1>12. CASE StopCall \/ StopJoinLoop \/ StopJoinCleaner
  <2>1. \A s \in Sessions : ToldToStop(s) => ToldToStop(s)'
    BY <1>1, <1>12
    DEF StopCall, StopJoinLoop, StopJoinCleaner, Step, ToldToStop, Releasing,
        Holding, VisitTypeOK, VisitState
  <2> QED
    BY <1>3, <1>4, <1>12, <2>1
       DEF StopCall, StopJoinLoop, StopJoinCleaner, mapVars
<1>13. CASE ClWake \/ ClUnlock
  <2>1. \A s \in Sessions : ToldToStop(s) => ToldToStop(s)'
    BY <1>1, <1>13
    DEF ClWake, ClUnlock, Step, ToldToStop, Releasing, Holding, VisitTypeOK,
        VisitState
  <2> QED
    BY <1>3, <1>4, <1>13, <2>1 DEF ClWake, ClUnlock, mapVars
<1> QED
  BY <1>5, <1>6, <1>7, <1>8, <1>9, <1>10, <1>11, <1>12, <1>13, Bystanders
  DEF Visit

-----------------------------------------------------------------------------
(* The invariant holds throughout.                                         *)

LEMMA NextIInv == IInv /\ [Next]_vars => IInv'
<1> SUFFICES ASSUME IInv, [Next]_vars PROVE IInv'
  OBVIOUS
<1>1. CASE Next
  <2>1. TypeOK'
    <3>1. SessionTypeOK' /\ QueueTypeOK' /\ LoopTypeOK'
      BY <1>1, SessionTypeStep, QueueTypeStep, LoopTypeStep
    <3>2. VisitTypeOK' /\ FlagTypeOK' /\ MapTypeOK'
      BY <1>1, VisitTypeStep, MapStep
    <3> QED
      BY <3>1, <3>2
      DEF TypeOK, FlagTypeOK, MapTypeOK, QueueTypeOK, LoopTypeOK, VisitTypeOK
  <2> QED
    BY <1>1, <2>1, MapStep, RoomStep, LockStep, ReleasedStep DEF IInv
<1>2. CASE UNCHANGED vars
  BY <1>2
  DEF vars, IInv, TypeOK, SessionTypeOK, CounterMatchesMap, RoomForName,
      OpenedByTx, LockDiscipline, Due, OnlyReleasedStop, Usable, ToldToStop
<1> QED
  BY <1>1, <1>2

THEOREM Invariance == Spec => []IInv
BY InitIInv, NextIInv, PTL DEF Spec

(* Every variable keeps its type; in particular runTx() never names a slot *)
(* that is not a key.                                                      *)
THEOREM TypeCorrect == Spec => []TypeOK
<1>1. IInv => TypeOK
  BY DEF IInv
<1> QED
  BY <1>1, Invariance, PTL

(* The session counters agree with the maps at every moment, also when     *)
(* runTx() reads them without the mutex, and never wrap.                   *)
THEOREM CountersExact == Spec => []CounterMatchesMap
<1>1. IInv => CounterMatchesMap
  BY DEF IInv
<1> QED
  BY <1>1, Invariance, PTL

(* One thread at a time visits the maps, and the session it is releasing   *)
(* stays in them until it has been joined.                                 *)
THEOREM MutexRespected == Spec => []LockDiscipline
<1>1. IInv => LockDiscipline
  BY DEF IInv
<1> QED
  BY <1>1, Invariance, PTL

(* A thread that finds a session in a map with the mutex free may give it  *)
(* an event: the session is not half released.                             *)
THEOREM MappedUsable == Spec => []MappedSessionsUsable
<1>1. IInv => MappedSessionsUsable
  <2> SUFFICES ASSUME IInv, sessionsMtx = "none", visit["main"].pc # "done",
                      NEW s \in inMap
               PROVE  Usable(s)
    BY DEF MappedSessionsUsable
  <2>1. s \in Sessions
    BY DEF IInv, TypeOK
  <2>2. ~ToldToStop(s)
    BY DEF IInv, LockDiscipline, Holding, ToldToStop
  <2>3. sess[s] \in SessionRecord
    BY <2>1 DEF IInv, TypeOK, SessionTypeOK
  <2> QED
    BY <2>1, <2>2 DEF IInv, OnlyReleasedStop
<1> QED
  BY <1>1, Invariance, PTL

(* The cleaner never touches a session that works.                         *)
THEOREM WorkingUndisturbed == Spec => []WorkingSessionUndisturbed
<1>1. IInv => WorkingSessionUndisturbed
  <2> SUFFICES ASSUME IInv, visit["main"].pc = "idle", NEW s \in inMap,
                      ~sess[s].dead
               PROVE  Usable(s)
    BY DEF WorkingSessionUndisturbed
  <2>1. s \in Sessions
    BY DEF IInv, TypeOK
  <2>2. visit["cleaner"].pc \in Releasing => visit["cleaner"].target # s
    BY DEF IInv, LockDiscipline, Due
  <2>3. ~ToldToStop(s)
    BY <2>2 DEF ToldToStop, Holding, Releasing
  <2> QED
    BY <2>1, <2>3 DEF IInv, OnlyReleasedStop
<1> QED
  BY <1>1, Invariance, PTL

-----------------------------------------------------------------------------
(* The core implements the pool of session slots.                          *)

LEMMA InitPool == Init => Pool!Init
BY DEF Init, Pool!Init, phase

(* The steps of the core are steps of the pool: an opening begins a        *)
(* session, the first setDead() finishes it, the cleaner's erase reaps it, *)
(* and every other step leaves the phases alone.                           *)
LEMMA NextPool == IInv /\ [Next]_vars => [Pool!Next]_phase
<1> SUFFICES ASSUME IInv, [Next]_vars PROVE [Pool!Next]_phase
  OBVIOUS
<1> USE DEF IInv
<1>1. SessionTypeOK /\ VisitTypeOK /\ MapTypeOK /\ LoopTypeOK
  BY TypeOKParts
<1>2. ASSUME UNCHANGED inMap,
             \A s \in Sessions : sess'[s].dead = sess[s].dead
      PROVE  phase' = phase
  BY <1>2 DEF phase
<1>3. CASE UNCHANGED vars
  BY <1>2, <1>3 DEF vars
<1>4. CASE \E s \in Sessions : Session(s)
  <2>1. PICK s \in Sessions : Session(s)
    BY <1>4
  <2>2. UNCHANGED inMap
    BY <2>1 DEF Session, coreVars
  <2>3. sess[s] \in SessionRecord
    BY <1>1 DEF SessionTypeOK
  <2>4. CASE ProcSetDead(s)
    <3>1. /\ sess'[s].dead
          /\ \A t \in Sessions : t # s => sess'[t] = sess[t]
      BY <1>1, <2>3, <2>4 DEF ProcSetDead, SessionTypeOK, SessionRecord
    <3>2. CASE s \in inMap /\ ~sess[s].dead
      <4>1. phase[s] = "working"
        BY <3>2 DEF phase
      <4>2. phase' = [phase EXCEPT ![s] = "over"]
        BY <2>2, <3>1, <3>2 DEF phase
      <4> QED
        BY <4>1, <4>2 DEF Pool!Next, Pool!Finish
    <3>3. CASE ~(s \in inMap /\ ~sess[s].dead)
      <4>1. phase' = phase
        BY <2>2, <3>1, <3>3 DEF phase
      <4> QED
        BY <4>1
    <3> QED
      BY <3>2, <3>3
  <2>5. CASE ~ProcSetDead(s)
    <3>1. \/ UNCHANGED sess
          \/ \E r : /\ sess' = [sess EXCEPT ![s] = r]
                    /\ r.dead = sess[s].dead
      <4> DEFINE r(q, c, st, pc) == [sess[s] EXCEPT !.queue = q, !.cur = c,
                                                !.stage = st, !.pc = pc]
      <4>1. \A q, c, st, pc : r(q, c, st, pc).dead = sess[s].dead
        BY <2>3 DEF SessionRecord
      <4>2. CASE ProcTake(s)
        <5>1. sess' = [sess EXCEPT ![s] = r(Tail(sess[s].queue),
                         Head(sess[s].queue), sess[s].stage, "popped")]
          BY <1>1, <2>3, <4>2 DEF ProcTake, SessionTypeOK, SessionRecord
        <5> HIDE DEF r
        <5> QED
          BY <4>1, <5>1
      <4>3. CASE ProcReturn(s)
        <5>1. PICK again \in BOOLEAN :
                sess' = [sess EXCEPT
                  ![s].queue = IF again
                                 THEN Append(@, SelfEvent(sess[s].dev)) ELSE @,
                  ![s].stage = "busy",
                  ![s].cur = SelfEvent(sess[s].dev),
                  ![s].pc = "check"]
          BY <4>3 DEF ProcReturn
        <5> DEFINE q == IF again
                          THEN Append(sess[s].queue, SelfEvent(sess[s].dev))
                          ELSE sess[s].queue
        <5>2. sess' = [sess EXCEPT ![s] =
                         r(q, SelfEvent(sess[s].dev), "busy", "check")]
          BY <1>1, <2>3, <5>1 DEF SessionTypeOK, SessionRecord
        <5>3. r(q, SelfEvent(sess[s].dev), "busy", "check").dead
                = sess[s].dead
          BY <4>1
        <5> HIDE DEF r, q
        <5> QED
          BY <5>2, <5>3
      <4>4. CASE TimerExpires(s)
        <5> DEFINE e == SelfEvent(sess[s].dev)
        <5>1. sess' = [sess EXCEPT ![s] =
                         r(Append(sess[s].queue, e), sess[s].cur,
                           sess[s].stage, Woken(sess[s].pc))]
          BY <1>1, <2>3, <4>4
          DEF TimerExpires, EnqueueEvent, SessionTypeOK, SessionRecord
        <5> DEFINE q == Append(sess[s].queue, e)
        <5>2. sess' = [sess EXCEPT ![s] =
                         r(q, sess[s].cur, sess[s].stage, Woken(sess[s].pc))]
          BY <5>1
        <5>3. r(q, sess[s].cur, sess[s].stage, Woken(sess[s].pc)).dead
                = sess[s].dead
          BY <4>1
        <5> HIDE DEF r, q
        <5> QED
          BY <5>2, <5>3
      <4>5. CASE ~ProcTake(s) /\ ~ProcReturn(s) /\ ~TimerExpires(s)
        <5>1. \/ UNCHANGED sess
              \/ \E pc : sess' = [sess EXCEPT ![s].pc = pc]
          BY <2>1, <2>5, <4>5
          DEF Session, Proc, ProcLeave, ProcFindNothing, ProcSleep, ProcCall,
              ProcReturnFreed
        <5>2. CASE \E pc : sess' = [sess EXCEPT ![s].pc = pc]
          <6>1. PICK pc : sess' = [sess EXCEPT ![s].pc = pc]
            BY <5>2
          <6>2. sess' = [sess EXCEPT ![s] =
                   r(sess[s].queue, sess[s].cur, sess[s].stage, pc)]
            BY <1>1, <2>3, <6>1 DEF SessionTypeOK, SessionRecord
          <6>3. r(sess[s].queue, sess[s].cur, sess[s].stage, pc).dead
                  = sess[s].dead
            BY <4>1
          <6> HIDE DEF r
          <6> QED
            BY <6>2, <6>3
        <5> QED
          BY <5>1, <5>2
      <4> QED
        BY <4>2, <4>3, <4>4, <4>5
    <3>2. \A t \in Sessions : sess'[t].dead = sess[t].dead
      BY <1>1, <3>1 DEF SessionTypeOK
    <3> QED
      BY <1>2, <2>2, <3>2
  <2> QED
    BY <2>4, <2>5
<1>5. CASE TxEmplace \/ RxOpen
  <2>1. PICK s \in Sessions, dev \in Devices, type \in EventTypes :
          Open(s, dev, type) /\ s \notin inMap
    BY <1>1, <1>5, CoreConstants
    DEF TxEmplace, TxInserts, RxOpen, RxSlot, LoopTypeOK, LoopState, Messages,
        EventTypes
  <2>2. /\ inMap' = inMap \cup {s} /\ ~sess'[s].dead
        /\ \A t \in Sessions : t # s => sess'[t] = sess[t]
    BY <1>1, <2>1 DEF Open, Create, SessionTypeOK
  <2>3. phase[s] = "free" /\ phase' = [phase EXCEPT ![s] = "working"]
    BY <2>1, <2>2 DEF phase
  <2> QED
    BY <2>3 DEF Pool!Next, Pool!Begin
<1>6. CASE ClErase
  <2> DEFINE s == visit["cleaner"].target
  <2>1. s \in inMap /\ s \in Sessions /\ sess[s].dead
    BY <1>1, <1>6
    DEF ClErase, Joined, LockDiscipline, Due, Holding, Releasing, MapTypeOK
  <2>2. /\ inMap' = inMap \ {s}
        /\ \A t \in Sessions : t # s => sess'[t] = sess[t]
    BY <1>1, <1>6 DEF ClErase, Destroy, SessionTypeOK
  <2> HIDE DEF s
  <2>3. phase[s] = "over" /\ phase' = [phase EXCEPT ![s] = "free"]
    BY <2>1, <2>2 DEF phase
  <2> QED
    BY <2>1, <2>3 DEF Pool!Next, Pool!Reap
<1>7. CASE RxDeliver
  <2>1. PICK s \in Sessions, e \in Events : EnqueueEvent(s, e)
    BY <1>1, <1>7, CoreConstants
    DEF RxDeliver, RxSlot, LoopTypeOK, Messages, Events, EventTypes
  <2>2. sess[s] \in SessionRecord
    BY <1>1 DEF SessionTypeOK
  <2>3. sess' = [sess EXCEPT ![s] = [sess[s] EXCEPT
           !.queue = Append(sess[s].queue, e), !.pc = Woken(sess[s].pc)]]
    BY <1>1, <2>1, <2>2 DEF EnqueueEvent, SessionTypeOK, SessionRecord
  <2>4. \A t \in Sessions : sess'[t].dead = sess[t].dead
    BY <1>1, <2>2, <2>3 DEF SessionTypeOK, SessionRecord
  <2> QED
    BY <1>2, <1>7, <2>4 DEF RxDeliver, mapVars
<1>8. CASE \E v \in {"cleaner", "main"} :
             ReleaseSession(v) \/ FreeMachine(v) \/ NotifySession(v)
  <2>1. PICK v \in {"cleaner", "main"} :
             ReleaseSession(v) \/ FreeMachine(v) \/ NotifySession(v)
    BY <1>8
  <2>2. PICK s \in Sessions :
             ReleaseFlag(s) \/ ReleaseMachine(s) \/ ReleaseNotify(s)
    BY <1>1, <2>1
    DEF ReleaseSession, FreeMachine, NotifySession, Foremost, VisitTypeOK,
        VisitState
  <2>3. sess[s] \in SessionRecord
    BY <1>1 DEF SessionTypeOK
  <2>4. \E r : sess' = [sess EXCEPT ![s] = r] /\ r.dead = sess[s].dead
    <3>1. CASE ReleaseFlag(s)
      <4> WITNESS [sess[s] EXCEPT !.running = FALSE]
      <4> QED
        BY <2>3, <3>1 DEF ReleaseFlag, SessionRecord
    <3>2. CASE ReleaseMachine(s)
      <4> WITNESS [sess[s] EXCEPT !.machine = "freed"]
      <4> QED
        BY <2>3, <3>2 DEF ReleaseMachine, SessionRecord
    <3>3. CASE ReleaseNotify(s)
      <4> WITNESS [sess[s] EXCEPT !.pc = Woken(@)]
      <4> QED
        BY <2>3, <3>3 DEF ReleaseNotify, SessionRecord
    <3> QED
      BY <2>2, <3>1, <3>2, <3>3
  <2>5. \A t \in Sessions : sess'[t].dead = sess[t].dead
    BY <1>1, <2>4 DEF SessionTypeOK
  <2> QED
    BY <1>2, <2>1, <2>5
    DEF ReleaseSession, FreeMachine, NotifySession, mapVars
<1>9. CASE UNCHANGED <<sess, inMap>>
  BY <1>2, <1>9
<1> QED
  BY <1>3, <1>4, <1>5, <1>6, <1>7, <1>8, <1>9
  DEF Next, EnqueueFromOrchestator, EnqueueFromStack, Enqueue, Tx, Rx,
      Waiting, LoopTop, LoopTake, LoopFindNothing, LoopSleep, TxAdmit,
      TxRefuse, TxName, TxIgnore, RxSkip, RxWarn, Cleaner, Stop, Visit,
      StartVisit, PassOver, StopJoined, ClWake, ClUnlock, StopCall, StopFlag,
      StopNotify, StopJoinLoop, StopJoinCleaner, sessionVars, mapVars

(* A slot is filled only when it is free and emptied only when its session *)
(* has declared itself dead, whatever the four threads do.                 *)
THEOREM PoolRefined == Spec => PoolSpec
BY InitPool, NextPool, Invariance, PTL DEF Spec, PoolSpec, Pool!Spec

-----------------------------------------------------------------------------
(* The maximum.                                                            *)

(* Where runRx() opens no session in runTx()'s direction, the room runTx() *)
(* saw is still there when it has the mutex, and the other map holds no    *)
(* more than the slot of the rule.                                         *)
RoomKept ==
    /\ Cardinality(InDirection(TxDirection)) <= MaxSessions
    /\ loop["tx"].pc \in {"name", "emplace"} =>
         Cardinality(InDirection(TxDirection)) < MaxSessions
    /\ loop["tx"].pc = "emplace" => loop["tx"].slot[1] = TxDirection
    /\ \A s \in inMap : s[1] # TxDirection => s[2] = 0

LEMMA RoomKeptStep ==
    ASSUME TxDirection \notin RxCreates, IInv, RoomKept, Next
    PROVE  RoomKept'
<1> USE DEF IInv
<1>1. MapTypeOK /\ LoopTypeOK /\ VisitTypeOK /\ inMap \subseteq Sessions
  BY TypeOKParts DEF MapTypeOK
<1> DEFINE mine == InDirection(TxDirection)
<1>2. IsFiniteSet(mine) /\ Cardinality(mine) \in Nat
  BY <1>1, FiniteMap, CoreConstants
<1>3. /\ loop'["tx"].pc \in {"name", "emplace"} =>
             TxAdmit \/ loop["tx"].pc \in {"name", "emplace"}
      /\ loop'["tx"].pc = "emplace" => loop'["tx"].slot[1] = TxDirection
  <2>1. loop \in [{"tx", "rx"} -> LoopState]
    BY <1>1 DEF LoopTypeOK
  <2>2. CASE TxName
    BY <2>1, <2>2 DEF TxName, LoopState, Slot
  <2>3. CASE ~TxName
    BY <2>1, <2>3
    DEF RoomKept, LoopState, Next, EnqueueFromOrchestator, EnqueueFromStack,
        Enqueue, Woken, Tx, Rx, Waiting, LoopTop, LoopTake, LoopFindNothing,
        LoopSleep, TxAdmit, TxRefuse, TxEmplace, TxIgnore, RxSkip, RxOpen,
        RxWarn, RxDeliver, GoTo, LoopNext, AtTop, Cleaner, Stop, Visit,
        StartVisit, PassOver, ReleaseSession, FreeMachine, NotifySession,
        StopJoined, ClErase, ClWake, ClUnlock, StopCall, StopFlag, StopNotify,
        StopJoinLoop, StopJoinCleaner, Session, coreVars
  <2> QED
    BY <2>2, <2>3
<1>4. CASE UNCHANGED mapVars
  <2>1. mine' = mine /\ UNCHANGED inMap
    BY <1>4 DEF InDirection, mapVars
  <2>2. TxAdmit => Cardinality(mine) < MaxSessions
    BY CoreConstants DEF TxAdmit, TxHasRoom, CounterMatchesMap, InDirection
  <2> QED
    BY <1>3, <2>1, <2>2 DEF RoomKept
<1>5. CASE TxEmplace
  <2> DEFINE s == loop["tx"].slot
  <2>1. /\ Cardinality(mine) < MaxSessions
        /\ s[1] = TxDirection
        /\ inMap' = inMap \cup {s}
        /\ loop'["tx"].pc = "top"
    BY <1>1, <1>5 DEF TxEmplace, Open, LoopNext, AtTop, RoomKept, LoopTypeOK
  <2>2. mine' = mine \cup {s}
    BY <2>1 DEF InDirection
  <2>3. /\ Cardinality(mine') <= Cardinality(mine) + 1
        /\ Cardinality(mine') \in Nat
    <3>1. /\ IsFiniteSet(mine \cup {s})
          /\ Cardinality(mine \cup {s}) =
               IF s \in mine THEN Cardinality(mine) ELSE Cardinality(mine) + 1
      BY <1>2, FS_AddElement
    <3> QED
      BY <1>2, <2>2, <3>1
  <2> QED
    BY <1>2, <2>1, <2>3, CoreConstants DEF RoomKept
<1>6. CASE RxOpen
  <2>1. RxSlot[1] # TxDirection /\ RxSlot[2] = 0 /\ inMap' = inMap \cup {RxSlot}
    BY <1>6 DEF RxOpen, RxSlot, Slot, Open
  <2>2. mine' = mine
    BY <2>1 DEF InDirection
  <2>3. loop'["tx"] = loop["tx"]
    BY <1>1, <1>6 DEF RxOpen, LoopNext, LoopTypeOK
  <2> QED
    BY <2>1, <2>2, <2>3 DEF RoomKept
<1>7. CASE ClErase
  <2>1. inMap' \subseteq inMap /\ UNCHANGED loop
    BY <1>7 DEF ClErase
  <2>2. mine' \subseteq mine
    BY <2>1 DEF InDirection
  <2>3. Cardinality(mine') <= Cardinality(mine) /\ Cardinality(mine') \in Nat
    BY <1>2, <2>2, FS_Subset, FS_CardinalityType
  <2> QED
    BY <1>2, <2>1, <2>3, CoreConstants DEF RoomKept
<1> QED
  BY <1>4, <1>5, <1>6, <1>7, MapSteps

LEMMA RoomIsKept ==
    ASSUME TxDirection \notin RxCreates
    PROVE  Spec => []RoomKept
<1>1. Init => RoomKept
  <2> SUFFICES ASSUME Init PROVE RoomKept
    OBVIOUS
  <2>1. InDirection(TxDirection) = {} /\ inMap = {}
    BY DEF Init, InDirection
  <2> QED
    BY <2>1, FS_EmptySet, CoreConstants DEF Init, AtTop, RoomKept
<1>2. IInv /\ RoomKept /\ [Next]_vars => RoomKept'
  <2>1. RoomKept /\ UNCHANGED vars => RoomKept'
    BY DEF vars, RoomKept, InDirection
  <2> QED
    BY <2>1, RoomKeptStep
<1> QED
  BY <1>1, <1>2, Invariance, PTL DEF Spec

(* On a node, and on the gateway that hears no downlink message, no map    *)
(* ever holds more sessions than start() allows, although runTx() compares *)
(* the counter and reads it again without the mutex.                       *)
THEOREM WithinMax ==
    ASSUME TxDirection \notin RxCreates
    PROVE  Spec => []MapWithinMax
<1>1. IInv /\ RoomKept => MapWithinMax
  <2> SUFFICES ASSUME IInv, RoomKept, NEW dir \in Directions
               PROVE  Cardinality(InDirection(dir)) <= MaxSessions
    BY DEF MapWithinMax, InDirection
  <2>1. CASE dir = TxDirection
    BY <2>1 DEF RoomKept
  <2>2. CASE dir # TxDirection
    <3>1. InDirection(dir) \subseteq {Slot(dir, 0)}
      BY <2>2 DEF RoomKept, InDirection, Slot, IInv, TypeOK, Sessions
    <3>2. /\ IsFiniteSet({Slot(dir, 0)}) /\ Cardinality({Slot(dir, 0)}) = 1
      BY FS_Singleton
    <3>3. /\ Cardinality(InDirection(dir)) <= 1
          /\ Cardinality(InDirection(dir)) \in Nat
      BY <3>1, <3>2, FS_Subset, FS_CardinalityType
    <3> QED
      BY <3>3, CoreConstants
  <2> QED
    BY <2>1, <2>2
<1> QED
  BY <1>1, Invariance, RoomIsKept, PTL

(* start() allows one session in each map.  There runTx(), where runRx()   *)
(* does not take its direction, finds the slot it named free when it gets  *)
(* the mutex, and no packet it admitted is dropped as a duplicate.  With   *)
(* two sessions it is not so: the slot is named by their number, and the   *)
(* first to end leaves the second under the name of the next.              *)
THEOREM GrantedIsFree ==
    ASSUME TxDirection \notin RxCreates, MaxSessions = 1
    PROVE  Spec => []GrantedSlotIsFree
<1>1. IInv /\ RoomKept => GrantedSlotIsFree
  <2> SUFFICES ASSUME IInv, RoomKept, loop["tx"].pc = "emplace"
               PROVE  loop["tx"].slot \notin inMap
    BY DEF GrantedSlotIsFree
  <2> DEFINE mine == InDirection(TxDirection)
  <2>1. IsFiniteSet(mine) /\ Cardinality(mine) \in Nat
    BY FiniteMap, CoreConstants DEF IInv, TypeOK
  <2>2. Cardinality(mine) = 0
    BY <2>1 DEF RoomKept
  <2>3. mine = {}
    BY <2>1, <2>2, FS_EmptySet
  <2>4. loop["tx"].slot[1] = TxDirection
    BY DEF RoomKept
  <2> QED
    BY <2>3, <2>4 DEF InDirection
<1> QED
  BY <1>1, Invariance, RoomIsKept, PTL

-----------------------------------------------------------------------------
(* The first event of a session.                                           *)

(* A session that sends, and whose machine has executed nothing yet, has   *)
(* the packet at the head of its queue, or its thread has taken it; one    *)
(* that has been told to stop takes nothing more.                          *)
HasPacket(s) ==
    sess[s].stage = "init" =>
      /\ sess[s].pc \in {"popped", "executing"} => sess[s].cur.type = "core"
      /\ sess[s].running /\ sess[s].pc \notin {"popped", "executing", "done"} =>
           sess[s].queue # <<>> /\ Head(sess[s].queue).type = "core"

FedPacket == \A s \in Sessions : s[1] = TxDirection => HasPacket(s)

(* What the core does to a session that it does not create keeps it fed.   *)
LEMMA CallsKeepPacket ==
    ASSUME SessionTypeOK, NEW s \in Sessions, NEW e \in Events, HasPacket(s)
    PROVE  /\ EnqueueEvent(s, e) => HasPacket(s)'
           /\ ReleaseFlag(s) => HasPacket(s)'
           /\ ReleaseMachine(s) => HasPacket(s)'
           /\ ReleaseNotify(s) => HasPacket(s)'
           /\ Destroy(s) => HasPacket(s)'
<1> USE DEF SessionTypeOK
<1>1. sess[s] \in SessionRecord
  OBVIOUS
<1>2. \A pc : Woken(pc) \in {"popped", "executing", "done"} <=>
              pc \in {"popped", "executing", "done"}
  BY DEF Woken
<1>3. \A pc : Woken(pc) \in {"popped", "executing"} <=>
              pc \in {"popped", "executing"}
  BY DEF Woken
<1>4. EnqueueEvent(s, e) => HasPacket(s)'
  <2> SUFFICES ASSUME EnqueueEvent(s, e) PROVE HasPacket(s)'
    OBVIOUS
  <2>1. sess' = [sess EXCEPT ![s] = [sess[s] EXCEPT
                    !.queue = Append(sess[s].queue, e),
                    !.pc = Woken(sess[s].pc)]]
    BY <1>1 DEF EnqueueEvent, SessionRecord
  <2>2. /\ sess'[s].queue = Append(sess[s].queue, e)
        /\ sess'[s].pc = Woken(sess[s].pc)
        /\ sess'[s].running = sess[s].running
        /\ sess'[s].stage = sess[s].stage
        /\ sess'[s].cur = sess[s].cur
    BY <1>1, <2>1 DEF SessionRecord
  <2>3. sess[s].queue # <<>> =>
          /\ sess'[s].queue # <<>>
          /\ Head(sess'[s].queue) = Head(sess[s].queue)
    BY <1>1, <2>2 DEF SessionRecord
  <2> QED
    BY <1>2, <1>3, <2>2, <2>3 DEF HasPacket
<1>5. ReleaseFlag(s) => HasPacket(s)'
  BY <1>1 DEF ReleaseFlag, SessionRecord, HasPacket
<1>6. ReleaseMachine(s) => HasPacket(s)'
  BY <1>1 DEF ReleaseMachine, SessionRecord, HasPacket
<1>7. ReleaseNotify(s) => HasPacket(s)'
  BY <1>1, <1>2, <1>3 DEF ReleaseNotify, SessionRecord, HasPacket
<1>8. Destroy(s) => HasPacket(s)'
  BY DEF Destroy, NoSession, HasPacket
<1> QED
  BY <1>4, <1>5, <1>6, <1>7, <1>8

(* So does its own thread: the first event it takes is the packet, and the *)
(* machine leaves STATE_INIT with it.  The timer is not set before.        *)
LEMMA OwnStepsKeepPacket ==
    ASSUME SessionTypeOK, NEW s \in Sessions, HasPacket(s),
           sess[s].running => sess[s].machine = "live",
           Proc(s) \/ TimerExpires(s)
    PROVE  HasPacket(s)'
<1> USE DEF SessionTypeOK
<1>1. sess[s] \in SessionRecord
  OBVIOUS
<1>2. CASE ProcLeave(s)
  BY <1>1, <1>2 DEF ProcLeave, SessionRecord, HasPacket
<1>3. CASE ProcTake(s)
  BY <1>1, <1>3 DEF ProcTake, SessionRecord, HasPacket
<1>4. CASE ProcFindNothing(s)
  BY <1>1, <1>4 DEF ProcFindNothing, SessionRecord, HasPacket
<1>5. CASE ProcSleep(s)
  BY <1>1, <1>5 DEF ProcSleep, SessionRecord, HasPacket
<1>6. CASE ProcCall(s)
  <2>1. CASE sess[s].machine = "live"
    BY <1>1, <1>6, <2>1 DEF ProcCall, SessionRecord, HasPacket
  <2>2. CASE sess[s].machine # "live"
    BY <1>6, <2>2 DEF ProcCall, HasPacket
  <2> QED
    BY <2>1, <2>2
<1>7. CASE ProcSetDead(s)
  BY <1>1, <1>7 DEF ProcSetDead, SessionRecord, HasPacket
<1>8. CASE ProcReturn(s)
  <2>1. sess'[s].stage = "busy"
    BY <1>1, <1>8 DEF ProcReturn, SessionRecord
  <2> QED
    BY <2>1 DEF HasPacket
<1>9. CASE ProcReturnFreed(s)
  <2>1. ~sess[s].running
    BY <1>9 DEF ProcReturnFreed
  <2> QED
    BY <1>1, <1>9, <2>1 DEF ProcReturnFreed, SessionRecord, HasPacket
<1>10. CASE TimerExpires(s)
  BY <1>1, <1>10, NoSessionTyped, CallsKeepPacket
  DEF TimerExpires, SessionRecord
<1> QED
  BY <1>2, <1>3, <1>4, <1>5, <1>6, <1>7, <1>8, <1>9, <1>10 DEF Proc

(* An operation on one session leaves the others as they are.              *)
LEMMA OneSessionAtATime ==
    ASSUME SessionTypeOK, NEW s \in Sessions, NEW t \in Sessions, t # s
    PROVE  /\ Proc(s) \/ TimerExpires(s) => sess'[t] = sess[t]
           /\ \A e : EnqueueEvent(s, e) => sess'[t] = sess[t]
           /\ \A d, e : Create(s, d, e) => sess'[t] = sess[t]
           /\ (\/ ReleaseFlag(s) \/ ReleaseMachine(s) \/ ReleaseNotify(s)
               \/ Destroy(s)) => sess'[t] = sess[t]
BY Zenon
   DEF SessionTypeOK, Proc, TimerExpires, EnqueueEvent, Create, ReleaseFlag,
       ReleaseMachine, ReleaseNotify, Destroy, ProcLeave, ProcTake,
       ProcFindNothing, ProcSleep, ProcCall, ProcSetDead, ProcReturn,
       ProcReturnFreed

(* runTx() opens a session with a packet in its queue; runRx(), which puts *)
(* a message there, opens none that sends.                                 *)
LEMMA FedPacketStep ==
    ASSUME TxDirection \notin RxCreates, IInv, FedPacket, Next
    PROVE  FedPacket'
<1> SUFFICES ASSUME NEW t \in Sessions, t[1] = TxDirection
             PROVE  HasPacket(t)'
  BY DEF FedPacket
<1> USE DEF IInv
<1>1. SessionTypeOK /\ LoopTypeOK /\ VisitTypeOK
  BY TypeOKParts
<1>2. HasPacket(t)
  BY DEF FedPacket
<1>3. sess'[t] = sess[t] => HasPacket(t)'
  BY <1>2 DEF HasPacket
<1>4. CASE UNCHANGED sessionVars
  BY <1>3, <1>4 DEF sessionVars
<1>5. CASE TxEmplace
  <2> DEFINE s == loop["tx"].slot
  <2>1. s \in Sessions
    BY <1>1 DEF LoopTypeOK, LoopState
  <2>2. Create(s, loop["tx"].item.dev,
               [type |-> "core", dev |-> loop["tx"].item.dev])
    BY <1>5 DEF TxEmplace, Open
  <2>3. CASE t = s
    BY <1>1, <2>1, <2>2, <2>3 DEF Create, SessionTypeOK, HasPacket
  <2>4. CASE t # s
    BY <1>1, <1>3, <2>1, <2>2, <2>4, OneSessionAtATime
  <2> QED
    BY <2>3, <2>4
<1>6. CASE RxOpen
  <2>1. RxSlot \in Sessions /\ RxSlot # t
    BY <1>1, <1>6, CoreConstants
    DEF RxOpen, RxSlot, Slot, LoopTypeOK, Messages
  <2>2. Create(RxSlot, loop["rx"].item.dev,
               [type |-> "stack", dev |-> loop["rx"].item.dev])
    BY <1>6 DEF RxOpen, Open
  <2> QED
    BY <1>1, <1>3, <2>1, <2>2, OneSessionAtATime
<1>7. CASE RxDeliver
  <2>1. PICK s \in Sessions, e \in Events : EnqueueEvent(s, e)
    BY <1>1, <1>7, CoreConstants
    DEF RxDeliver, RxSlot, LoopTypeOK, Messages, Events, EventTypes
  <2> QED
    BY <1>1, <1>2, <1>3, <2>1, OneSessionAtATime, CallsKeepPacket
<1>8. CASE \/ ClErase
           \/ \E v \in {"cleaner", "main"} :
                ReleaseSession(v) \/ FreeMachine(v) \/ NotifySession(v)
  <2>1. PICK s \in Sessions :
          \/ ReleaseFlag(s) \/ ReleaseMachine(s) \/ ReleaseNotify(s)
          \/ Destroy(s)
    BY <1>1, <1>8
    DEF ReleaseSession, FreeMachine, NotifySession, Foremost, ClErase,
        VisitTypeOK, VisitState
  <2>2. \E e : e \in Events
    BY NoSessionTyped
  <2> QED
    BY <1>1, <1>2, <1>3, <2>1, <2>2, OneSessionAtATime, CallsKeepPacket
<1>9. CASE \E s \in Sessions : Session(s)
  <2>1. PICK s \in Sessions : Proc(s) \/ TimerExpires(s)
    BY <1>9 DEF Session
  <2>2. sess[t].running => sess[t].machine = "live"
    BY DEF OnlyReleasedStop, Usable
  <2> QED
    BY <1>1, <1>2, <1>3, <2>1, <2>2, OneSessionAtATime, OwnStepsKeepPacket
<1> QED
  BY <1>4, <1>5, <1>6, <1>7, <1>8, <1>9
  DEF Next, EnqueueFromOrchestator, EnqueueFromStack, Enqueue, Tx, Rx,
      Waiting, LoopTop, LoopTake, LoopFindNothing, LoopSleep, TxAdmit,
      TxRefuse, TxName, TxIgnore, RxSkip, RxWarn, Cleaner, Stop, Visit,
      StartVisit, PassOver, StopJoined, ClWake, ClUnlock, StopCall, StopFlag,
      StopNotify, StopJoinLoop, StopJoinCleaner

(* The cast of the first message to a packet is right: on a node, and on   *)
(* the gateway that hears no downlink message, a machine that sends never  *)
(* executes a message of the stack or a timer before its packet, also when *)
(* its session is released, and its machine freed, on the way.             *)
THEOREM PacketComesFirst ==
    ASSUME TxDirection \notin RxCreates
    PROVE  Spec => []SenderStartsWithPacket
<1>1. Init => FedPacket
  BY DEF Init, SessionInit, FedPacket, HasPacket, NoSession
<1>2. IInv /\ FedPacket /\ [Next]_vars => FedPacket'
  <2>1. FedPacket /\ UNCHANGED vars => FedPacket'
    BY DEF vars, FedPacket, HasPacket
  <2> QED
    BY <2>1, FedPacketStep
<1>3. FedPacket => SenderStartsWithPacket
  BY DEF FedPacket, HasPacket, SenderStartsWithPacket
<1> QED
  BY <1>1, <1>2, <1>3, Invariance, PTL DEF Spec

-----------------------------------------------------------------------------
(* What stop() leaves behind.                                              *)

(* Once stop() has returned, every thread it knows of is at its end, and   *)
(* no session has a machine whose timer could go off.                      *)
StopLeavesNobody ==
    visit["main"].pc = "done" =>
      /\ \A l \in {"tx", "rx"} : loop[l].pc = "done"
      /\ visit["cleaner"].pc = "done"
      /\ \A s \in Sessions :
           sess[s].pc \in {"none", "done"} /\ sess[s].machine # "live"

Absent(s) == sess[s].pc = "none" /\ sess[s].machine = "none"
Over(s) == sess[s].pc = "done" /\ sess[s].machine = "freed"

(* stop() joins the threads of the core one after the other.               *)
ThreadsJoined ==
    LET pc == visit["main"].pc
    IN  /\ pc \in {"joinTx", "joinCleaner", "done"} => loop["rx"].pc = "done"
        /\ pc \in {"joinCleaner", "done"} => loop["tx"].pc = "done"
        /\ pc = "done" => visit["cleaner"].pc = "done"

(* A slot without a session has nothing that runs.                         *)
AbsentOutside == \A s \in Sessions \ inMap : Absent(s)

(* The sessions that stop() has been through are over, but for the one it  *)
(* is releasing; when it goes on to the threads it has been through all.   *)
SessionsReleased ==
    LET pc == visit["main"].pc
    IN  /\ pc \in Holding["main"] \cup {"done"} =>
             \A s \in inMap \ visit["main"].todo :
               \/ Over(s)
               \/ /\ pc \in Releasing /\ s = visit["main"].target
                  /\ pc # "free" => sess[s].machine = "freed"
        /\ pc \in {"wake", "joinRx", "joinTx", "joinCleaner", "done"} =>
             visit["main"].todo = {}

Stopping == ThreadsJoined /\ AbsentOutside /\ SessionsReleased

(* A session at rest stays there, and a freed machine freed.               *)
LeftAtRest(t) ==
    /\ Absent(t) => Absent(t)'
    /\ Over(t) => Over(t)'
    /\ sess[t].machine = "freed" => sess'[t].machine = "freed"

LEMMA CallsLeaveAtRest ==
    ASSUME SessionTypeOK, NEW s \in Sessions, NEW t \in Sessions
    PROVE  /\ Proc(s) => LeftAtRest(t)
           /\ TimerExpires(s) => LeftAtRest(t)
           /\ \A e : EnqueueEvent(s, e) => LeftAtRest(t)
           /\ ReleaseFlag(s) => LeftAtRest(t)
           /\ ReleaseNotify(s) => LeftAtRest(t)
           /\ UNCHANGED sessionVars => LeftAtRest(t)
<1> USE DEF SessionTypeOK, LeftAtRest, Absent, Over
<1>1. sess[s] \in SessionRecord /\ sess[t] \in SessionRecord
  OBVIOUS
<1>2. \A e : EnqueueEvent(s, e) => LeftAtRest(t)
  BY <1>1 DEF EnqueueEvent, SessionRecord, Woken
<1>3. TimerExpires(s) => LeftAtRest(t)
  BY <1>2 DEF TimerExpires
<1>4. ReleaseNotify(s) => LeftAtRest(t)
  BY <1>1 DEF ReleaseNotify, SessionRecord, Woken
<1>5. UNCHANGED sessionVars => LeftAtRest(t)
  BY DEF sessionVars
<1>6. ReleaseFlag(s) => LeftAtRest(t)
  BY <1>1 DEF ReleaseFlag, SessionRecord
<1>7. ProcLeave(s) => LeftAtRest(t)
  BY <1>1 DEF ProcLeave, SessionRecord
<1>8. ProcTake(s) => LeftAtRest(t)
  BY <1>1 DEF ProcTake, SessionRecord
<1>13. ProcFindNothing(s) => LeftAtRest(t)
  BY <1>1 DEF ProcFindNothing, SessionRecord
<1>14. ProcSleep(s) => LeftAtRest(t)
  BY <1>1 DEF ProcSleep, SessionRecord
<1>9. ProcCall(s) => LeftAtRest(t)
  <2>1. CASE sess[s].machine = "live"
    BY <1>1, <2>1 DEF ProcCall, SessionRecord
  <2>2. CASE sess[s].machine # "live"
    BY <1>1, <2>2 DEF ProcCall, SessionRecord
  <2> QED
    BY <2>1, <2>2
<1>10. ProcSetDead(s) => LeftAtRest(t)
  BY <1>1 DEF ProcSetDead, SessionRecord
<1>11. ProcReturn(s) => LeftAtRest(t)
  BY <1>1 DEF ProcReturn, SessionRecord
<1>12. ProcReturnFreed(s) => LeftAtRest(t)
  BY <1>1, ZenonT(60) DEF ProcReturnFreed, SessionRecord
<1> QED
  BY <1>2, <1>3, <1>4, <1>5, <1>6, <1>7, <1>8, <1>9, <1>10, <1>11, <1>12,
     <1>13, <1>14 DEF Proc

(* Three operations bring a session out of its rest or into it.            *)
LEMMA RestOfSteps ==
    ASSUME IInv, Next
    PROVE  \/ TxEmplace \/ RxOpen \/ ClErase
           \/ \E v \in {"cleaner", "main"} : FreeMachine(v)
           \/ UNCHANGED mapVars /\ \A t \in Sessions : LeftAtRest(t)
<1> USE DEF IInv
<1>1. SessionTypeOK /\ LoopTypeOK /\ VisitTypeOK /\ MapTypeOK
  BY TypeOKParts
<1>2. UNCHANGED sessionVars => \A t \in Sessions : LeftAtRest(t)
  BY <1>1, CoreConstants, CallsLeaveAtRest
<1>3. (\E s \in Sessions : Session(s)) => \A t \in Sessions : LeftAtRest(t)
  BY <1>1, CallsLeaveAtRest DEF Session
<1>4. RxDeliver => \A t \in Sessions : LeftAtRest(t)
  <2>1. RxDeliver => RxSlot \in Sessions
    BY <1>1, CoreConstants DEF RxDeliver, RxSlot, LoopTypeOK, Messages
  <2> QED
    BY <1>1, <2>1, CallsLeaveAtRest DEF RxDeliver
<1>5. ASSUME NEW v \in {"cleaner", "main"}, ReleaseSession(v)
      PROVE  \A t \in Sessions : LeftAtRest(t)
  <2>1. PICK s \in Foremost(visit[v].todo) : ReleaseFlag(s)
    BY <1>5 DEF ReleaseSession
  <2>2. s \in Sessions
    BY <1>1, <2>1 DEF Foremost, VisitTypeOK, VisitState
  <2> QED
    BY <1>1, <2>1, <2>2, CallsLeaveAtRest
<1>6. ASSUME NEW v \in {"cleaner", "main"}, NotifySession(v)
      PROVE  \A t \in Sessions : LeftAtRest(t)
  <2>1. visit[v].target \in Sessions
    BY <1>1 DEF VisitTypeOK, VisitState
  <2> QED
    BY <1>1, <1>6, <2>1, CallsLeaveAtRest DEF NotifySession
<1>7. TxEmplace \/ RxOpen \/ ClErase \/ UNCHANGED mapVars
  BY MapSteps
<1> QED
  BY <1>2, <1>3, <1>4, <1>5, <1>6, <1>7
  DEF Next, EnqueueFromOrchestator, EnqueueFromStack, Enqueue, Tx, Rx,
      Waiting, LoopTop, LoopTake, LoopFindNothing, LoopSleep, TxAdmit,
      TxRefuse, TxName, TxIgnore, RxSkip, RxWarn, Cleaner, Stop, Visit,
      StartVisit, PassOver, StopJoined, ClWake, ClUnlock, StopCall, StopFlag,
      StopNotify, StopJoinLoop, StopJoinCleaner

(* A thread that is done stays done.                                       *)
LEMMA LoopsStayDone ==
    ASSUME IInv, Next, NEW l \in {"tx", "rx"}, loop[l].pc = "done"
    PROVE  loop'[l].pc = "done"
<1>1. LoopTypeOK /\ loop[l] \in LoopState
  BY TypeOKParts DEF IInv, LoopTypeOK
<1>2. EnqueueFromOrchestator \/ EnqueueFromStack => loop'[l].pc = "done"
  BY <1>1 DEF EnqueueFromOrchestator, EnqueueFromStack, Enqueue, Woken,
              LoopTypeOK, LoopState
<1>3. StopNotify => loop'[l].pc = "done"
  BY <1>1 DEF StopNotify, Woken, LoopState
<1>4. (\E k \in {"tx", "rx"} : Waiting(k)) => loop'[l].pc = "done"
  BY <1>1 DEF Waiting, LoopTop, LoopTake, LoopFindNothing, LoopSleep, GoTo,
              LoopTypeOK, LoopState
<1>5. /\ TxAdmit \/ TxRefuse \/ TxName \/ TxEmplace \/ TxIgnore =>
           loop'[l].pc = "done"
      /\ RxSkip \/ RxOpen \/ RxWarn \/ RxDeliver => loop'[l].pc = "done"
  BY <1>1 DEF TxAdmit, TxRefuse, TxName, TxEmplace, TxIgnore, RxSkip, RxOpen,
              RxWarn, RxDeliver, GoTo, LoopNext, LoopTypeOK, LoopState
<1>6. (\E v \in {"cleaner", "main"} : Visit(v)) \/ ClErase \/ StopJoined =>
        loop' = loop
  BY DEF Visit, StartVisit, PassOver, ReleaseSession, FreeMachine,
         NotifySession, ClErase, StopJoined
<1>7. ClWake \/ ClUnlock \/ StopCall \/ StopFlag \/ StopJoinLoop
        \/ StopJoinCleaner => loop' = loop
  BY DEF ClWake, ClUnlock, StopCall, StopFlag, StopJoinLoop, StopJoinCleaner
<1>8. (\E s \in Sessions : Session(s)) => loop' = loop
  BY DEF Session, coreVars
<1> QED
  BY <1>2, <1>3, <1>4, <1>5, <1>6, <1>7, <1>8
  DEF Next, Tx, Rx, Cleaner, Stop

LEMMA CleanerStaysDone ==
    ASSUME IInv, Next, visit["cleaner"].pc = "done"
    PROVE  visit'["cleaner"].pc = "done"
<1>1. VisitTypeOK
  BY TypeOKParts DEF IInv
<1>2. Bystander \/ TxEmplace \/ RxOpen => visit' = visit
  BY DEF Bystander, TxEmplace, RxOpen, LoopNext
<1>3. (\E v \in {"cleaner", "main"} : Visit(v)) => visit'["cleaner"].pc = "done"
  BY <1>1 DEF Visit, StartVisit, PassOver, ReleaseSession, FreeMachine,
              NotifySession, Step, VisitTypeOK, VisitState
<1>4. ~(ClErase \/ ClWake \/ ClUnlock)
  BY DEF ClErase, Joined, ClWake, ClUnlock, Step
<1>5. StopJoined \/ StopCall \/ StopFlag \/ StopNotify \/ StopJoinLoop
        \/ StopJoinCleaner => visit'["cleaner"].pc = "done"
  BY <1>1 DEF StopJoined, Joined, StopCall, StopFlag, StopNotify,
              StopJoinLoop, StopJoinCleaner, Step, VisitTypeOK, VisitState
<1> QED
  BY <1>2, <1>3, <1>4, <1>5, Bystanders

(* What moves the caller of stop().                                        *)
LEMMA MainSteps ==
    ASSUME IInv, Next
    PROVE  \/ visit'["main"] = visit["main"]
           \/ Visit("main") \/ StopJoined
           \/ StopCall \/ StopFlag \/ StopNotify \/ StopJoinLoop
           \/ StopJoinCleaner
<1>1. VisitTypeOK
  BY TypeOKParts DEF IInv
<1>2. Bystander \/ TxEmplace \/ RxOpen => visit' = visit
  BY DEF Bystander, TxEmplace, RxOpen, LoopNext
<1>3. Visit("cleaner") => visit'["main"] = visit["main"]
  BY <1>1 DEF Visit, StartVisit, PassOver, ReleaseSession, FreeMachine,
              NotifySession, Step, VisitTypeOK
<1>4. ClErase \/ ClWake \/ ClUnlock => visit'["main"] = visit["main"]
  BY <1>1 DEF ClErase, Joined, ClWake, ClUnlock, Step, VisitTypeOK
<1> QED
  BY <1>2, <1>3, <1>4, Bystanders

LEMMA ThreadsJoinedStep ==
    ASSUME IInv, ThreadsJoined, Next
    PROVE  ThreadsJoined'
<1>1. VisitTypeOK
  BY TypeOKParts DEF IInv
<1>2. /\ \A l \in {"tx", "rx"} :
           loop[l].pc = "done" => loop'[l].pc = "done"
      /\ visit["cleaner"].pc = "done" => visit'["cleaner"].pc = "done"
  BY LoopsStayDone, CleanerStaysDone
<1>3. CASE visit'["main"] = visit["main"]
  BY <1>2, <1>3 DEF ThreadsJoined
<1>4. CASE Visit("main") \/ StopJoined \/ StopCall \/ StopFlag \/ StopNotify
  <2>1. visit'["main"].pc \notin {"joinTx", "joinCleaner", "done"}
    BY <1>1, <1>4
    DEF Visit, StartVisit, PassOver, ReleaseSession, FreeMachine,
        NotifySession, StopJoined, Joined, StopCall, StopFlag, StopNotify,
        Step, VisitTypeOK, VisitState
  <2> QED
    BY <2>1 DEF ThreadsJoined
<1>5. CASE StopJoinLoop \/ StopJoinCleaner
  BY <1>1, <1>2, <1>5
  DEF ThreadsJoined, StopJoinLoop, StopJoinCleaner, Step, VisitTypeOK,
      VisitState
<1> QED
  BY <1>3, <1>4, <1>5, MainSteps

(* What a release, a creation and a destruction do to the other sessions.  *)
LEMMA OthersUntouched ==
    ASSUME SessionTypeOK, NEW s \in Sessions, NEW t \in Sessions \ {s}
    PROVE  /\ ReleaseMachine(s) => sess'[t] = sess[t]
           /\ Destroy(s) => sess'[t] = sess[t]
           /\ \A dev, type : Open(s, dev, type) => sess'[t] = sess[t]
BY DEF SessionTypeOK, ReleaseMachine, Destroy, Open, Create

LEMMA AbsentOutsideStep ==
    ASSUME IInv, AbsentOutside, Next
    PROVE  AbsentOutside'
<1> USE DEF IInv
<1>1. SessionTypeOK /\ LoopTypeOK /\ VisitTypeOK /\ MapTypeOK
  BY TypeOKParts
<1>2. CASE TxEmplace \/ RxOpen
  <2>1. PICK s \in Sessions, dev \in Devices, type \in EventTypes :
          Open(s, dev, type)
    BY <1>1, <1>2, CoreConstants
    DEF TxEmplace, RxOpen, RxSlot, LoopTypeOK, LoopState, Messages, EventTypes
  <2>2. inMap' = inMap \cup {s}
    BY <2>1 DEF Open
  <2>3. \A t \in Sessions \ {s} : sess'[t] = sess[t]
    BY <1>1, <2>1, OthersUntouched
  <2> QED
    BY <2>2, <2>3 DEF AbsentOutside, Absent
<1>3. CASE ClErase
  <2> DEFINE s == visit["cleaner"].target
  <2>1. s \in Sessions /\ Destroy(s) /\ inMap' = inMap \ {s}
    BY <1>1, <1>3 DEF ClErase, VisitTypeOK, VisitState
  <2>2. sess'[s] = NoSession
    BY <1>1, <2>1 DEF Destroy, SessionTypeOK
  <2>3. \A t \in Sessions \ {s} : sess'[t] = sess[t]
    BY <1>1, <2>1, OthersUntouched
  <2> QED
    BY <2>1, <2>2, <2>3 DEF AbsentOutside, Absent, NoSession
<1>4. CASE \E v \in {"cleaner", "main"} : FreeMachine(v)
  <2>1. PICK v \in {"cleaner", "main"} : FreeMachine(v)
    BY <1>4
  <2>2. visit[v].target \in inMap /\ visit[v].target \in Sessions
    BY <1>1, <2>1 DEF FreeMachine, Step, LockDiscipline, Releasing, MapTypeOK
  <2>3. /\ \A t \in Sessions \ {visit[v].target} : sess'[t] = sess[t]
        /\ inMap' = inMap
    BY <1>1, <2>1, <2>2, OthersUntouched DEF FreeMachine, mapVars
  <2> QED
    BY <2>2, <2>3 DEF AbsentOutside, Absent
<1>5. CASE UNCHANGED mapVars /\ \A t \in Sessions : LeftAtRest(t)
  BY <1>5 DEF mapVars, AbsentOutside, LeftAtRest
<1> QED
  BY <1>2, <1>3, <1>4, <1>5, RestOfSteps

(* While stop() holds the mutex, and when it has returned, no other thread *)
(* opens, frees or erases a session.                                       *)
LEMMA MainExcludes ==
    ASSUME IInv, ThreadsJoined, Next,
           visit["main"].pc \in Holding["main"] \cup {"done"}
    PROVE  ~(TxEmplace \/ RxOpen \/ ClErase \/ FreeMachine("cleaner"))
<1>1. CASE visit["main"].pc \in Holding["main"]
  <2>1. sessionsMtx = "main"
    BY <1>1 DEF IInv, LockDiscipline
  <2>2. visit["cleaner"].pc \notin Holding["cleaner"]
    BY <2>1 DEF IInv, LockDiscipline
  <2> QED
    BY <2>1, <2>2
    DEF TxEmplace, RxOpen, ClErase, Joined, FreeMachine, Step, Holding,
        Releasing
<1>2. CASE visit["main"].pc = "done"
  BY <1>2 DEF ThreadsJoined, TxEmplace, RxOpen, ClErase, Joined, FreeMachine,
              Step
<1> QED
  BY <1>1, <1>2

LEMMA SessionsReleasedStep ==
    ASSUME IInv, ThreadsJoined, SessionsReleased, Next
    PROVE  SessionsReleased'
<1> USE DEF IInv
<1>1. SessionTypeOK /\ VisitTypeOK /\ MapTypeOK
  BY TypeOKParts
<1>2. visit["main"] \in VisitState
  BY <1>1 DEF VisitTypeOK
(* A step of another thread.                                               *)
<1>3. CASE visit'["main"] = visit["main"]
  <2>1. CASE visit["main"].pc \in Holding["main"] \cup {"done"}
    <3>1. ~(TxEmplace \/ RxOpen \/ ClErase \/ FreeMachine("cleaner"))
      BY <2>1, MainExcludes
    <3>2. ~FreeMachine("main")
      BY <1>2, <1>3, <1>1 DEF FreeMachine, Step, VisitTypeOK, VisitState
    <3>3. UNCHANGED mapVars /\ \A t \in Sessions : LeftAtRest(t)
      BY <3>1, <3>2, RestOfSteps
    <3> QED
      BY <1>1, <1>3, <2>1, <3>3
      DEF SessionsReleased, LeftAtRest, mapVars, MapTypeOK
  <2>2. CASE visit["main"].pc \notin Holding["main"] \cup {"done"}
    BY <1>3, <2>2 DEF SessionsReleased, Holding
  <2> QED
    BY <2>1, <2>2
<1>4. CASE StartVisit("main")
  <2>1. visit'["main"].pc = "scan" /\ visit'["main"].todo = inMap'
    BY <1>1, <1>4 DEF StartVisit, ToVisit, mapVars, VisitTypeOK, VisitState
  <2> QED
    BY <2>1 DEF SessionsReleased
<1>5. ~PassOver("main")
  BY DEF PassOver, Due
<1>6. CASE ReleaseSession("main")
  <2>1. PICK s \in Foremost(visit["main"].todo) :
          visit' = [visit EXCEPT !["main"] =
            [pc |-> "free", todo |-> visit["main"].todo \ {s}, target |-> s]]
    BY <1>6 DEF ReleaseSession
  <2>2. visit'["main"] =
          [pc |-> "free", todo |-> visit["main"].todo \ {s}, target |-> s]
    BY <1>1, <2>1 DEF VisitTypeOK
  <2>3. visit["main"].pc = "scan"
    BY <1>6 DEF ReleaseSession
  <2>4. \A t \in inMap \ visit["main"].todo : Over(t)
    BY <2>3 DEF SessionsReleased, Holding, Releasing
  <2>5. UNCHANGED mapVars /\ \A t \in Sessions : LeftAtRest(t)
    <3>1. ~(\E v \in {"cleaner", "main"} : FreeMachine(v))
      BY <2>3, MainExcludes DEF Holding, FreeMachine, Step
    <3> QED
      BY <2>3, <3>1, MainExcludes, RestOfSteps DEF Holding
  <2> QED
    BY <1>1, <2>2, <2>4, <2>5
    DEF SessionsReleased, LeftAtRest, mapVars, MapTypeOK, Releasing
<1>7. CASE FreeMachine("main")
  <2> DEFINE s == visit["main"].target
  <2>1. /\ visit["main"].pc = "free" /\ visit'["main"].pc = "notify"
        /\ visit'["main"].todo = visit["main"].todo /\ visit'["main"].target = s
        /\ inMap' = inMap /\ ReleaseMachine(s)
    BY <1>1, <1>7
    DEF FreeMachine, Step, mapVars, VisitTypeOK, VisitState
  <2>2. s \in Sessions
    BY <1>2 DEF VisitState
  <2>3. sess'[s].machine = "freed"
    BY <1>1, <2>1, <2>2 DEF ReleaseMachine, SessionTypeOK, SessionRecord
  <2>4. \A t \in Sessions \ {s} : sess'[t] = sess[t]
    BY <1>1, <2>1, <2>2, OthersUntouched
  <2>5. \A t \in inMap \ visit["main"].todo : t # s => Over(t)
    BY <2>1 DEF SessionsReleased, Holding, Releasing
  <2> HIDE DEF s
  <2>6. \A t \in inMap \ visit["main"].todo :
          (t # s => Over(t)') /\ (t = s => sess'[t].machine = "freed")
    BY <1>1, <2>3, <2>4, <2>5 DEF Over, MapTypeOK
  <2> QED
    BY <2>1, <2>6 DEF SessionsReleased, Releasing
<1>8. CASE NotifySession("main") \/ StopJoined \/ StopFlag \/ StopNotify
            \/ StopJoinLoop \/ StopJoinCleaner
  <2>1. visit["main"].pc \in Holding["main"]
    BY <1>8 DEF NotifySession, StopJoined, Joined, StopFlag, StopNotify,
                StopJoinLoop, StopJoinCleaner, Step, Holding, Releasing
  <2>2. ~FreeMachine("main")
    BY <1>8 DEF NotifySession, StopJoined, Joined, StopFlag, StopNotify,
                StopJoinLoop, StopJoinCleaner, Step, FreeMachine
  <2>3. UNCHANGED mapVars /\ \A t \in Sessions : LeftAtRest(t)
    BY <2>1, <2>2, MainExcludes, RestOfSteps
  <2>4. visit'["main"].todo = visit["main"].todo
    BY <1>1, <1>8
    DEF NotifySession, StopJoined, Joined, StopFlag, StopNotify, StopJoinLoop,
        StopJoinCleaner, Step, VisitTypeOK, VisitState
  <2>5. CASE NotifySession("main")
    <3>1. /\ visit["main"].pc = "notify" /\ visit'["main"].pc = "join"
          /\ visit'["main"].target = visit["main"].target
      BY <1>1, <2>5 DEF NotifySession, Step, VisitTypeOK, VisitState
    <3> QED
      BY <1>1, <2>1, <2>3, <2>4, <3>1
      DEF SessionsReleased, LeftAtRest, Releasing, mapVars, MapTypeOK
  <2>6. CASE StopJoined
    <3>1. /\ visit["main"].pc = "join" /\ visit'["main"].pc = "scan"
          /\ sess[visit["main"].target].pc = "done"
      BY <1>1, <2>6
      DEF StopJoined, Joined, Joinable, VisitTypeOK, VisitState
    <3>2. \A t \in inMap \ visit["main"].todo : Over(t)
      BY <2>1, <3>1 DEF SessionsReleased, Over
    <3> QED
      BY <1>1, <2>3, <2>4, <3>1, <3>2
      DEF SessionsReleased, LeftAtRest, mapVars, MapTypeOK
  <2>7. CASE StopFlag \/ StopNotify \/ StopJoinLoop \/ StopJoinCleaner
    <3>1. /\ visit["main"].pc \notin Releasing
          /\ visit["main"].todo = {}
      BY <2>7
      DEF StopFlag, StopNotify, StopJoinLoop, StopJoinCleaner, Step,
          Releasing, SessionsReleased
    <3>2. \A t \in inMap \ visit["main"].todo : Over(t)
      BY <2>1, <3>1 DEF SessionsReleased
    <3> QED
      BY <1>1, <2>3, <2>4, <3>1, <3>2
      DEF SessionsReleased, LeftAtRest, mapVars, MapTypeOK
  <2> QED
    BY <1>8, <2>5, <2>6, <2>7
<1>9. CASE StopCall
  <2>1. visit'["main"].pc = "lock"
    BY <1>1, <1>9 DEF StopCall, Step, VisitTypeOK, VisitState
  <2> QED
    BY <2>1 DEF SessionsReleased, Holding, Releasing
<1> QED
  BY <1>3, <1>4, <1>5, <1>6, <1>7, <1>8, <1>9, MainSteps DEF Visit

LEMMA StoppingInvariance == Spec => []Stopping
<1>1. Init => Stopping
  BY DEF Init, SessionInit, Stopping, ThreadsJoined, AbsentOutside, Absent,
         SessionsReleased, Holding, Releasing, NoSession
<1>2. IInv /\ Stopping /\ [Next]_vars => Stopping'
  <2>1. IInv /\ Stopping /\ Next => Stopping'
    BY ThreadsJoinedStep, AbsentOutsideStep, SessionsReleasedStep DEF Stopping
  <2>2. Stopping /\ UNCHANGED vars => Stopping'
    BY DEF vars, Stopping, ThreadsJoined, AbsentOutside, Absent,
           SessionsReleased, Over
  <2> QED
    BY <2>1, <2>2
<1> QED
  BY <1>1, <1>2, Invariance, PTL DEF Spec

(* When stop() returns, in every deployment and whatever was going on when *)
(* it was called, no thread of the core or of a session runs any more, and *)
(* no machine is left whose timer could wake one.                          *)
THEOREM NobodyLeftRunning == Spec => []StopLeavesNobody
<1>1. Stopping => StopLeavesNobody
  <2> SUFFICES ASSUME Stopping, visit["main"].pc = "done"
               PROVE  StopLeavesNobody
    BY DEF StopLeavesNobody
  <2>1. \A s \in inMap : Over(s)
    BY DEF Stopping, SessionsReleased, Releasing
  <2>2. \A s \in Sessions : Over(s) \/ Absent(s)
    BY <2>1 DEF Stopping, AbsentOutside
  <2> QED
    BY <2>2 DEF Stopping, ThreadsJoined, StopLeavesNobody, Over, Absent
<1> QED
  BY <1>1, StoppingInvariance, PTL

-----------------------------------------------------------------------------
(* How the program may crash.                                              *)

(* The only undefined behaviour of the core is that of a session that is   *)
(* being released, by stop() or, when it is dead, by the cleaner, while    *)
(* its thread has an event in its hands: release() deletes the machine     *)
(* before it joins the thread that calls it.                               *)
CrashesInRelease ==
    crashed =>
      \E v \in {"cleaner", "main"} :
        LET s == visit[v].target
        IN  /\ visit[v].pc \in Releasing
            /\ s \in inMap
            /\ sess[s].machine # "live"
            /\ sess[s].pc \in {"popped", "executing"}
            /\ v = "cleaner" => sess[s].dead

(* What stop() has yet to visit, it has not told to stop.                  *)
StillRunning ==
    visit["main"].pc \in Holding["main"] =>
      \A s \in visit["main"].todo : sess[s].running

LEMMA StillRunningStep ==
    ASSUME IInv, ThreadsJoined, StillRunning, Next
    PROVE  StillRunning'
<1> USE DEF IInv
<1>1. SessionTypeOK /\ VisitTypeOK /\ MapTypeOK
  BY TypeOKParts
<1>2. visit["main"].todo \subseteq Sessions
  BY <1>1 DEF VisitTypeOK, VisitState
<1>3. UNCHANGED sessionVars => \A s \in Sessions : Undisturbed(s)
  BY <1>1, CoreConstants, OwnStepsDoNotDisturb
(* A step that keeps every session running and adds none to be visited.    *)
<1>4. ASSUME visit["main"].pc \in Holding["main"],
             visit'["main"].todo \subseteq visit["main"].todo,
             \A s \in visit'["main"].todo : sess'[s].running = sess[s].running
      PROVE  StillRunning'
  BY <1>4 DEF StillRunning
<1>5. CASE StartVisit("main")
  <2>1. /\ sessionsMtx = "none" /\ visit["main"].pc = "lock"
        /\ visit'["main"].todo = inMap /\ sess' = sess
    BY <1>1, <1>5
    DEF StartVisit, Lock, ToVisit, sessionVars, VisitTypeOK, VisitState
  <2>2. \A s \in inMap : sess[s].running
    BY <1>1, <2>1
    DEF OnlyReleasedStop, ToldToStop, LockDiscipline, Holding, MapTypeOK
  <2> QED
    BY <2>1, <2>2 DEF StillRunning
<1>6. CASE visit["main"].pc \notin Holding["main"] /\ ~StartVisit("main")
  <2>1. visit'["main"].pc \notin Holding["main"]
    <3>1. ~(PassOver("main") \/ ReleaseSession("main")
              \/ FreeMachine("main") \/ NotifySession("main"))
      BY <1>6 DEF PassOver, ReleaseSession, FreeMachine, NotifySession, Step,
                  Holding, Releasing
    <3>2. ~(StopJoined \/ StopFlag \/ StopNotify \/ StopJoinLoop
              \/ StopJoinCleaner)
      BY <1>6 DEF StopJoined, Joined, StopFlag, StopNotify, StopJoinLoop,
                  StopJoinCleaner, Step, Holding, Releasing
    <3>3. CASE StopCall
      <4>1. visit'["main"].pc = "lock"
        BY <1>1, <3>3 DEF StopCall, Step, VisitTypeOK, VisitState
      <4> QED
        BY <4>1 DEF Holding, Releasing
    <3>4. CASE visit'["main"] = visit["main"]
      BY <1>6, <3>4
    <3> QED
      BY <1>6, <3>1, <3>2, <3>3, <3>4, MainSteps DEF Visit
  <2> QED
    BY <2>1 DEF StillRunning
<1>7. CASE visit["main"].pc \in Holding["main"]
  <2>1. ~(TxEmplace \/ RxOpen \/ ClErase \/ FreeMachine("cleaner"))
    BY <1>7, MainExcludes
  <2>2. visit["cleaner"].pc \notin Holding["cleaner"]
    BY <1>7 DEF LockDiscipline
  <2>3. CASE Bystander
    BY <1>2, <1>4, <1>7, <2>3 DEF Bystander, Undisturbed
  <2>4. CASE ReleaseSession("main")
    <3>1. PICK s \in Foremost(visit["main"].todo) :
            /\ ReleaseFlag(s)
            /\ visit' = [visit EXCEPT !["main"] =
                 [pc |-> "free", todo |-> visit["main"].todo \ {s},
                  target |-> s]]
      BY <2>4 DEF ReleaseSession
    <3>2. visit'["main"].todo = visit["main"].todo \ {s}
      BY <1>1, <3>1 DEF VisitTypeOK
    <3>3. s \in Sessions
      BY <1>2, <3>1 DEF Foremost
    <3>4. \A t \in Sessions \ {s} : sess'[t] = sess[t]
      BY <1>1, <3>1, <3>3 DEF ReleaseFlag, SessionTypeOK
    <3> QED
      BY <1>2, <1>4, <1>7, <3>2, <3>4
  <2>5. CASE FreeMachine("main") \/ NotifySession("main")
    <3>1. visit["main"].target \in Sessions
      BY <1>1 DEF VisitTypeOK, VisitState
    <3>2. \A s \in Sessions : sess'[s].running = sess[s].running
      <4>1. CASE FreeMachine("main")
        BY <1>1, <3>1, <4>1
        DEF FreeMachine, ReleaseMachine, SessionTypeOK, SessionRecord
      <4>2. CASE NotifySession("main")
        BY <1>1, <3>1, <4>2
        DEF NotifySession, ReleaseNotify, SessionTypeOK, SessionRecord
      <4> QED
        BY <2>5, <4>1, <4>2
    <3>3. visit'["main"].todo = visit["main"].todo
      BY <1>1, <2>5
      DEF FreeMachine, NotifySession, Step, VisitTypeOK, VisitState
    <3> QED
      BY <1>2, <1>4, <1>7, <3>2, <3>3
  <2>6. CASE StopJoined \/ StopFlag \/ StopNotify \/ StopJoinLoop
               \/ StopJoinCleaner
    <3>1. /\ visit'["main"].todo = visit["main"].todo
          /\ UNCHANGED sessionVars
      BY <1>1, <2>6
      DEF StopJoined, Joined, StopFlag, StopNotify, StopJoinLoop,
          StopJoinCleaner, Step, VisitTypeOK, VisitState
    <3> QED
      BY <1>2, <1>3, <1>4, <1>7, <3>1 DEF Undisturbed
  <2>7. CASE ClWake
    BY <1>1, <1>2, <1>3, <1>4, <1>7, <2>7
    DEF ClWake, Step, Undisturbed, VisitTypeOK, VisitState
  <2>8. ~(ClUnlock \/ StopCall \/ StartVisit("main") \/ PassOver("main"))
    BY <1>7, <2>2
    DEF ClUnlock, StopCall, StartVisit, PassOver, Due, Step, Holding, Releasing
  <2>9. ~Visit("cleaner")
    <3>1. sessionsMtx = "main"
      BY <1>7 DEF LockDiscipline
    <3> QED
      BY <2>2, <3>1
      DEF Visit, StartVisit, Lock, PassOver, ReleaseSession, FreeMachine,
          NotifySession, Step, Holding, Releasing
  <2> QED
    BY <2>1, <2>3, <2>4, <2>5, <2>6, <2>7, <2>8, <2>9, Bystanders DEF Visit
<1> QED
  BY <1>5, <1>6, <1>7

LEMMA CrashStep ==
    ASSUME IInv, Stopping, StillRunning, Next
    PROVE  CrashesInRelease'
<1> USE DEF IInv
<1>1. SessionTypeOK /\ VisitTypeOK /\ MapTypeOK /\ ~crashed
  BY TypeOKParts DEF Next
<1>2. ASSUME NEW s \in Sessions, Session(s), crashed'
      PROVE  CrashesInRelease'
  <2>1. /\ ~TimerExpires(s)
        /\ Proc(s) => ProcCall(s) \/ ProcReturnFreed(s)
    BY <1>1, <1>2, Zenon
    DEF TimerExpires, EnqueueEvent, Proc, ProcLeave, ProcTake,
        ProcFindNothing, ProcSleep, ProcSetDead, ProcReturn
  <2>2. /\ sess[s].pc \in {"popped", "executing"}
        /\ sess[s].machine # "live" /\ sess' = sess
    BY <1>1, <1>2, <2>1 DEF Session, ProcCall, ProcReturnFreed
  <2>3. s \in inMap
    BY <2>2 DEF Stopping, AbsentOutside, Absent
  <2>4. ~sess[s].running /\ ToldToStop(s)
    BY <2>2, <2>3 DEF OnlyReleasedStop, Usable
  <2>5. visit' = visit /\ inMap' = inMap
    BY <1>2 DEF Session, coreVars
  <2>6. \E v \in {"cleaner", "main"} :
          visit[v].pc \in Releasing /\ visit[v].target = s
    <3>1. CASE visit["main"].pc \in Holding["main"] \cup {"done"}
      <4>1. s \notin visit["main"].todo
        BY <2>4, <3>1
        DEF StillRunning, Stopping, SessionsReleased
      <4> QED
        BY <2>2, <2>3, <3>1, <4>1 DEF Stopping, SessionsReleased, Over
    <3> QED
      BY <2>4, <3>1 DEF ToldToStop
  <2>7. PICK v \in {"cleaner", "main"} :
          visit[v].pc \in Releasing /\ visit[v].target = s
    BY <2>6
  <2>8. v = "cleaner" => sess[s].dead
    BY <2>7 DEF LockDiscipline, Due
  <2> QED
    BY <2>2, <2>3, <2>5, <2>7, <2>8 DEF CrashesInRelease
<1>3. Tx \/ Rx \/ EnqueueFromOrchestator \/ EnqueueFromStack => crashed' = crashed
  BY DEF EnqueueFromOrchestator, EnqueueFromStack, Enqueue, Tx, Rx, Waiting,
         LoopTop, LoopTake, LoopFindNothing, LoopSleep, TxAdmit, TxRefuse,
         TxName, TxEmplace, TxIgnore, RxSkip, RxOpen, RxWarn, RxDeliver, Open,
         Create, EnqueueEvent, sessionVars
<1>4. Cleaner \/ Stop => crashed' = crashed
  BY DEF Cleaner, Stop, Visit, StartVisit, PassOver, ReleaseSession,
         ReleaseFlag, FreeMachine, ReleaseMachine, NotifySession,
         ReleaseNotify, StopJoined, ClErase, Destroy, ClWake, ClUnlock,
         StopCall, StopFlag, StopNotify, StopJoinLoop, StopJoinCleaner,
         sessionVars
<1>5. (\E s \in Sessions : Session(s)) \/ crashed' = crashed
  BY <1>3, <1>4, Zenon DEF Next
<1>6. crashed' = crashed => ~crashed'
  <2>1. crashed = FALSE
    BY <1>1 DEF SessionTypeOK
  <2>2. crashed' = crashed => crashed' = FALSE
    BY <2>1, Zenon
  <2> QED
    BY <2>2, Zenon
<1>7. ~crashed' => CrashesInRelease'
  BY Zenon DEF CrashesInRelease
<1> QED
  BY <1>2, <1>5, <1>6, <1>7, Zenon

(* In every deployment: nothing but such a release ever calls into a       *)
(* machine that is gone, and the cleaner releases dead sessions only.      *)
THEOREM OnlyReleasesCrash == Spec => []CrashesInRelease
<1>1. Init => StillRunning /\ CrashesInRelease
  BY DEF Init, SessionInit, StillRunning, Holding, Releasing, CrashesInRelease
<1>2. IInv /\ Stopping /\ StillRunning /\ CrashesInRelease /\ [Next]_vars
        => StillRunning' /\ CrashesInRelease'
  <2>1. IInv /\ Stopping /\ StillRunning /\ Next
          => StillRunning' /\ CrashesInRelease'
    BY StillRunningStep, CrashStep DEF Stopping
  <2>2. StillRunning /\ CrashesInRelease /\ UNCHANGED vars
          => StillRunning' /\ CrashesInRelease'
    BY DEF vars, StillRunning, CrashesInRelease
  <2> QED
    BY <2>1, <2>2
<1> QED
  BY <1>1, <1>2, Invariance, StoppingInvariance, PTL DEF Spec

=============================================================================
