----------------------------- MODULE MCArqFec -----------------------------
(***************************************************************************)
(* Small instances of ArqFec for TLC: windows of a few tiles, one packet   *)
(* or two, and a bounded number of losses.                                 *)
(***************************************************************************)
EXTENDS ArqFec

CONSTANTS p1, p2

OnePacket == {p1}
TwoPackets == {p1, p2}

=============================================================================
