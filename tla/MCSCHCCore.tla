---------------------------- MODULE MCSCHCCore ----------------------------
(***************************************************************************)
(* Small instances of SCHCCore for TLC: one end device and a foreign one,  *)
(* and the packets and messages an instance lets in.                       *)
(***************************************************************************)
EXTENDS SCHCCore

CONSTANT d1

OneDevice == {d1}

Nobody == {}
KnownOnly == {d1}
KnownAndForeign == {d1, Foreign}

NothingHeard == {}
UplinkHeard == {"up"}
DownlinkHeard == {"down"}
BothHeard == Directions

=============================================================================
