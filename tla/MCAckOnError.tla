--------------------------- MODULE MCAckOnError ---------------------------
(***************************************************************************)
(* Small instances of AckOnError for TLC: windows of a few tiles, packets  *)
(* of one or two windows and one that is too large.                        *)
(***************************************************************************)
EXTENDS AckOnError

(* With windows of three tiles: one window; two, the last of which has no  *)
(* full tile; two, with a last fragment that begins in the first, or not;  *)
(* and more than four.                                                     *)
PacketSizes == {2, 3, 4, 5, 12}

AllMechanisms == {"ack_end_win", "ack_end_session", "compound_ack"}

=============================================================================
