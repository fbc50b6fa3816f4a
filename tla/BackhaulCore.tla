---------------------------- MODULE BackhaulCore ----------------------------
(***************************************************************************)
(* The backhaul core (BackhaulCore.cpp): the threads runRx, between a raw  *)
(* socket and the orchestrator, and runTx, between its queue and the same  *)
(* socket, and the steps of stop() that the main thread takes.             *)
(***************************************************************************)
EXTENDS Integers, Sequences

CONSTANT Packets    \* what the SCHC core may hand over to be sent

(* Of a frame it matters whether it is shorter than the header of IPv6.    *)
Frames == {"packet", "runt"}

VARIABLES
    bh,         \* the core: running, stopfd, whether sockfd is open, the
                \* threads rx and tx with their frame and msg, txQueue
    net,        \* frames the interface holds, packets sent through it,
                \* packets whose send() failed, which is logged
    crashed     \* the program was ended by an exception, or worse

backhaulVars == <<bh, net, crashed>>

RxStates == {"none", "poll", "recv", "forward", "done"}
TxStates == {"none", "top", "check", "parking", "parked", "send", "done"}

BackhaulTypeOK ==
    /\ bh \in [running : BOOLEAN, stopfd : BOOLEAN, open : BOOLEAN,
               rx : RxStates, frame : Seq(Frames),
               tx : TxStates, msg : Seq(Packets), queue : Seq(Packets)]
    /\ net \in [in : Seq(Frames), out : Seq(Packets),
               refused : Seq(Packets)]
    /\ crashed \in BOOLEAN
    /\ (bh.rx = "forward") <=> (Len(bh.frame) = 1)
    /\ (bh.tx = "send") <=> (Len(bh.msg) = 1)

BackhaulInit ==
    /\ bh = [running |-> FALSE, stopfd |-> FALSE, open |-> FALSE,
             rx |-> "none", frame |-> <<>>,
             tx |-> "none", msg |-> <<>>, queue |-> <<>>]
    /\ net = [in |-> <<>>, out |-> <<>>, refused |-> <<>>]
    /\ crashed = FALSE

(* start(), of an interface that there is.                                 *)
BackhaulStart ==
    /\ bh' = [bh EXCEPT !.running = TRUE, !.open = TRUE,
                        !.rx = "poll", !.tx = "top"]
    /\ UNCHANGED <<net, crashed>>

FrameArrives(f) ==
    /\ bh.open
    /\ net' = [net EXCEPT !.in = Append(@, f)]
    /\ UNCHANGED <<bh, crashed>>

-----------------------------------------------------------------------------
(* runRx().                                                                *)

(* The test of running and poll(): stopfd is looked at before the socket,  *)
(* and a wait for neither ends after 100 ms.                               *)
RxPoll ==
    /\ bh.rx = "poll"
    /\ ~bh.running \/ bh.stopfd \/ (bh.open /\ net.in # <<>>)
    /\ bh' = [bh EXCEPT !.rx =
                IF ~bh.running \/ bh.stopfd THEN "done" ELSE "recv"]
    /\ UNCHANGED <<net, crashed>>

(* The socket was closed, or the core stopped, since poll(): the frame,    *)
(* read or not, is dropped.                                                *)
RxRecvStopped ==
    /\ bh.rx = "recv"
    /\ ~bh.running
    /\ bh' = [bh EXCEPT !.rx = "done"]
    /\ UNCHANGED <<net, crashed>>

(* poll() or recvfrom() fails: the thread ends, or goes on when the call   *)
(* was interrupted; whatever the socket holds it keeps.                    *)
RxFails ==
    /\ \/ bh.rx \in {"poll", "recv"} /\ bh' = [bh EXCEPT !.rx = "done"]
       \/ bh.rx = "recv" /\ bh.running /\ bh' = [bh EXCEPT !.rx = "poll"]
    /\ UNCHANGED <<net, crashed>>

(* Only in the mode of the tunnel are the length of a frame and its        *)
(* version checked.                                                        *)
RxDrop(tunnel) ==
    /\ bh.rx = "recv"
    /\ bh.running
    /\ tunnel /\ Head(net.in) = "runt"
    /\ bh' = [bh EXCEPT !.rx = "poll"]
    /\ net' = [net EXCEPT !.in = Tail(@)]
    /\ UNCHANGED crashed

RxTake(tunnel) ==
    /\ bh.rx = "recv"
    /\ bh.running
    /\ ~(tunnel /\ Head(net.in) = "runt")
    /\ bh' = [bh EXCEPT !.rx = "forward", !.frame = <<Head(net.in)>>]
    /\ net' = [net EXCEPT !.in = Tail(@)]
    /\ UNCHANGED crashed

(* handleRxFrame() gives the frame to the orchestrator; getIPv6Addresses() *)
(* throws when it is too short.                                            *)
RxThrow ==
    /\ bh.rx = "forward"
    /\ bh.frame = <<"runt">>
    /\ crashed' = TRUE
    /\ UNCHANGED <<bh, net>>

RxForward ==
    /\ bh' = [bh EXCEPT !.rx = "poll", !.frame = <<>>]
    /\ UNCHANGED <<net, crashed>>

-----------------------------------------------------------------------------
(* runTx(), which waits on txCv with txMtx.                                *)

TxNotified(pc) == IF pc = "parked" THEN "check" ELSE pc

(* enqueueFromOrchestator(), from the thread of a session.                 *)
BackhaulEnqueue(p) ==
    /\ bh.tx # "parking"
    /\ bh' = [bh EXCEPT !.queue = Append(@, p), !.tx = TxNotified(@)]
    /\ UNCHANGED <<net, crashed>>

TxTop ==
    /\ bh.tx = "top"
    /\ bh' = [bh EXCEPT !.tx = IF bh.running THEN "check" ELSE "done"]
    /\ UNCHANGED <<net, crashed>>

TxTake ==
    /\ bh.tx = "check"
    /\ bh.queue # <<>>
    /\ bh' = [bh EXCEPT !.tx = "send", !.msg = <<Head(bh.queue)>>,
                        !.queue = Tail(@)]
    /\ UNCHANGED <<net, crashed>>

(* The predicate of wait() is false until the mutex is released by going   *)
(* to sleep, and nobody who takes the mutex gets in between.               *)
TxFindNothing ==
    /\ bh.tx = "check"
    /\ bh.queue = <<>>
    /\ bh' = [bh EXCEPT !.tx = IF bh.running THEN "parking" ELSE "done"]
    /\ UNCHANGED <<net, crashed>>

TxSleep ==
    /\ bh.tx = "parking"
    /\ bh' = [bh EXCEPT !.tx = "parked"]
    /\ UNCHANGED <<net, crashed>>

(* Mutant: the packet is sent twice.                                       *)
TxSendTwice ==
    /\ bh.tx = "send"
    /\ bh' = [bh EXCEPT !.tx = "top", !.msg = <<>>]
    /\ net' = [net EXCEPT !.out = @ \o bh.msg \o bh.msg]
    /\ UNCHANGED crashed

(* sendFrame(): send() may fail at any time, and does once the socket is   *)
(* closed; the packet is not tried again.                                  *)
TxSend ==
    /\ bh.tx = "send"
    /\ bh' = [bh EXCEPT !.tx = "top", !.msg = <<>>]
    /\ \/ bh.open /\ net' = [net EXCEPT !.out = @ \o bh.msg]
       \/ net' = [net EXCEPT !.refused = @ \o bh.msg]
    /\ UNCHANGED crashed

-----------------------------------------------------------------------------
(* stop(), step by step; the two joins are guards of the main thread.      *)

StopRunning ==
    /\ bh' = [bh EXCEPT !.running = FALSE]
    /\ UNCHANGED <<net, crashed>>

StopSignal ==
    /\ bh' = [bh EXCEPT !.stopfd = TRUE]
    /\ UNCHANGED <<net, crashed>>

(* notify_all(), without the mutex.                                        *)
StopNotifyTx ==
    /\ bh' = [bh EXCEPT !.tx = TxNotified(@)]
    /\ UNCHANGED <<net, crashed>>

StopClose ==
    /\ bh' = [bh EXCEPT !.open = FALSE]
    /\ UNCHANGED <<net, crashed>>

=============================================================================
