--------------------------- MODULE MCFlashSession ---------------------------
(***************************************************************************)
(* A device of 16 blocks whose firmware volume starts at block 3 and takes *)
(* 2 blocks (8 bytes of 4-byte blocks), written as 2 chunks.  Tables have  *)
(* two slots: the authored one, the stock one whose data partition starts  *)
(* inside the enlarged region, a whole-disk filesystem, a filesystem below *)
(* the volume, a firmware partition too small, one with the data first, a  *)
(* data partition at the volume, and one with both partitions at it.       *)
(***************************************************************************)
EXTENDS FlashSession

P(ty, s, n) == [type |-> ty, start |-> s, size |-> n]
Unused == P(0, 0, 0)
Firmware == P(0, 3, 2)

MCAuthored == <<Firmware, P(11, 5, 8)>>

MCTables ==
  { MCAuthored,
    <<Firmware, P(11, 4, 9)>>,
    <<P(11, 1, 12), Unused>>,
    <<P(0, 3, 1), P(11, 5, 8)>>,
    <<P(11, 5, 8), Firmware>>,
    <<P(11, 3, 10), Unused>>,
    <<P(11, 3, 10), Firmware>> }
(* The authored table and the stock overlapping one.                       *)
FewTables == {MCAuthored, <<Firmware, P(11, 4, 9)>>}
=============================================================================
