---------------------------- MODULE LayoutEdits ----------------------------
(***************************************************************************)
(* A partition table under the hands of partitioning tools: starting from  *)
(* an empty table, one slot at a time gets any entry.  Every table over    *)
(* Entries is reached, so an invariant of this module is a statement about *)
(* CheckN3GLayout's verdict on all of them.                                *)
(***************************************************************************)
EXTENDS N3GLayout

CONSTANTS Slots, Entries, FwBlocks

ASSUME EditsAssumption ==
  /\ Slots \subseteq Nat /\ Entries \subseteq MBRPartition
  /\ FwBlocks \in Nat \ {0} /\ VolumeLBA + FwBlocks < WordSize

VARIABLE table

TableInit == table = [i \in Slots |-> [type |-> 0, start |-> 0, size |-> 0]]

Edit(i, e) == table' = [table EXCEPT ![i] = e]

TableNext == \E i \in Slots, e \in Entries : Edit(i, e)

TableSpec == TableInit /\ [][TableNext]_table

(* A table with one slot at the volume is accepted when the firmware volume *)
(* is kept to itself - no other partition reaches into the region, from     *)
(* below or from inside, up to the last block before fwEnd - and only then. *)
(* It is not accepted for what lies below the volume or has no blocks, but  *)
(* for that, --firmware-only erases no data without need.                   *)
VerdictIsRight ==
  SingleAtVolume(table) =>
    /\ CheckN3GLayout(table, FwBlocks) => Reserved(table, FwBlocks)
    /\ Reserved(table, FwBlocks)
         /\ (\A i \in Used(table) : table[i].start >= VolumeLBA /\ table[i].size > 0)
       => CheckN3GLayout(table, FwBlocks)

(* CheckN3GLayout's doc comment, taken at its word.  Two slots at the       *)
(* volume, one of them a data partition, are accepted all the same.         *)
DocumentedCheck == CheckN3GLayout(table, FwBlocks) => Reserved(table, FwBlocks)
=============================================================================
