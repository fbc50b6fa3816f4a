--------------------------- MODULE MCApplication ---------------------------
(***************************************************************************)
(* The daemon with each of its stacks for TLC: two sessions, and a bounded *)
(* number of frames, packets, commands and uplinks, in any mixture.        *)
(***************************************************************************)
EXTENDS Application

CONSTANTS w1, w2

TwoWorkers == {main, w1, w2}
AllStacks == {"lorawan", "myriota", "mqtt"}
Numbers == 1 .. MaxEvents

=============================================================================
