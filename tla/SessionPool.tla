---------------------------- MODULE SessionPool ----------------------------
(***************************************************************************)
(* What the SCHC core promises about its session slots: a slot is free, or *)
(* holds a session that works, or one that is over and waits to be reaped. *)
(* A session is opened only in a free slot, reaped only when it is over,   *)
(* and never comes back to life.                                           *)
(***************************************************************************)
CONSTANT Slots
VARIABLE phase

Init == phase = [s \in Slots |-> "free"]

Begin(s) == phase[s] = "free" /\ phase' = [phase EXCEPT ![s] = "working"]
Finish(s) == phase[s] = "working" /\ phase' = [phase EXCEPT ![s] = "over"]
Reap(s) == phase[s] = "over" /\ phase' = [phase EXCEPT ![s] = "free"]

Next == \E s \in Slots : Begin(s) \/ Finish(s) \/ Reap(s)

Spec == Init /\ [][Next]_phase

=============================================================================
