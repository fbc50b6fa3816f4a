------------------------- MODULE MCMessageExchange -------------------------
(***************************************************************************)
(* Messages for TLC to write: every place of the last missing tile of a    *)
(* window, every set of windows, and payloads of none to two short tiles.  *)
(***************************************************************************)
EXTENDS MessageExchange

ArqFecOnly == {"ArqFec"}
AckOnErrorOnly == {"AckOnError"}

SomePayloads == {<<>>, <<0>>, <<255, 63>>}
SomeFCNs == {0, 1, 31, 32, 61, 62}
SomeRCSs == {0, 66051, 2147483647}

(* One missing tile, anywhere, or two, or none, or all.                    *)
SomeBitmaps ==
    {[i \in 1 .. windowSize |-> IF i \in missing THEN 0 ELSE 1] :
       missing \in {{k} : k \in 1 .. windowSize}
                   \cup {{1, 62}, {2, 5, 61}, {}, 1 .. windowSize}}

FewBitmaps ==
    {[i \in 1 .. windowSize |-> IF i \in missing THEN 0 ELSE 1] :
       missing \in {{1}, {63}, {}, {2, 61}, 1 .. windowSize}}

AllWindowLists ==
    {SetToSortSeq(s, <) : s \in SUBSET (0 .. 3) \ {{}}}

=============================================================================
