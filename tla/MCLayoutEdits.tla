--------------------------- MODULE MCLayoutEdits ---------------------------
(* Three slots on a device of 12 blocks, the volume in blocks 3 and 4:     *)
(* entries start before, at, inside, at the end of and past the region.    *)
EXTENDS LayoutEdits

MCSlots == 1 .. 3
MCEntries ==
  [type : {0, 11}, start : {0, 2, 3, 4, 5}, size : {0, 1, 2, 7}]
=============================================================================
