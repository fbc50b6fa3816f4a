------------------------------- MODULE Relay -------------------------------
(***************************************************************************)
(* What a queue between two threads promises: what was accepted is passed  *)
(* on in order, once, or refused; a loss nobody is told of comes only      *)
(* after the queue began to close.                                         *)
(***************************************************************************)
EXTENDS Naturals, Sequences

CONSTANT Items

VARIABLES
    pending,    \* accepted, not passed on yet
    passed,     \* passed on
    refused,    \* could not be passed on, and this was reported
    closing

vars == <<pending, passed, refused, closing>>

Init == pending = <<>> /\ passed = <<>> /\ refused = <<>> /\ ~closing

Accept ==
    /\ \E i \in Items : pending' = Append(pending, i)
    /\ UNCHANGED <<passed, refused, closing>>

Pass ==
    /\ pending # <<>>
    /\ pending' = Tail(pending)
    /\ passed' = Append(passed, Head(pending))
    /\ UNCHANGED <<refused, closing>>

Refuse ==
    /\ pending # <<>>
    /\ pending' = Tail(pending)
    /\ refused' = Append(refused, Head(pending))
    /\ UNCHANGED <<passed, closing>>

Close == closing' = TRUE /\ UNCHANGED <<pending, passed, refused>>

(* What is lost is the oldest or the newest of what is pending, or all.    *)
Lose ==
    /\ closing
    /\ \E i \in 0 .. Len(pending) :
         pending' \in {SubSeq(pending, 1, i),
                      SubSeq(pending, i + 1, Len(pending))}
    /\ UNCHANGED <<passed, refused, closing>>

Next == Accept \/ Pass \/ Refuse \/ Close \/ Lose

InOrder == Init /\ [][Next]_vars

(* Until it begins to close, it passes on or refuses all of it.            *)
Spec == InOrder /\ WF_vars(~closing /\ (Pass \/ Refuse))

=============================================================================
