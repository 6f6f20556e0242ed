----------------------------- MODULE N3GLayout -----------------------------
(***************************************************************************)
(* The partition table of an iPod nano 3G and the check that guards every  *)
(* firmware write (pkg/cfw/partition_n3g.go).                              *)
(*                                                                         *)
(* A table is a function from slot numbers to MBR entries, in the device's *)
(* own blocks.  All block numbers are 32-bit words: arithmetic on them is  *)
(* taken modulo WordSize.                                                  *)
(***************************************************************************)
EXTENDS Integers, FiniteSets

CONSTANTS
  WordSize,    \* 2^32: one past the largest block number a table can hold
  VolumeLBA    \* 63: N3GFirmwareVolumeLBA

ASSUME WordAssumption == WordSize \in Nat /\ VolumeLBA \in Nat /\ VolumeLBA < WordSize

Word == 0 .. WordSize - 1

(* MBRPartition without the slot index, which is the table's domain. *)
MBRPartition == [type : Nat, start : Word, size : Word]

(* MBRPartition.Empty: a slot counts as unused only if type and size are 0. *)
Empty(p) == p.type = 0 /\ p.size = 0

Used(t) == {i \in DOMAIN t : ~Empty(t[i])}

AtVolume(t) == {i \in Used(t) : t[i].start = VolumeLBA}

(* The variable fw after the loop: the last slot that starts at the volume. *)
FirmwareSlot(t) == CHOOSE i \in AtVolume(t) : \A j \in AtVolume(t) : j <= i

(* The bound of the overlap test off by one.                               *)
CheckLaxOverlap(t, fwBlocks) ==
  LET fwEnd == (VolumeLBA + fwBlocks) % WordSize
  IN  /\ \A i \in Used(t) \ AtVolume(t) : t[i].start >= fwEnd - 1
      /\ AtVolume(t) # {} /\ t[FirmwareSlot(t)].size >= fwBlocks

(* CheckN3GLayout returns nil: some used slot starts at the volume, the     *)
(* last such slot is big enough, and every other used slot starts past the  *)
(* region.  A slot that starts at the volume skips the overlap test.        *)
CheckN3GLayout(t, fwBlocks) ==
  LET fwEnd == (VolumeLBA + fwBlocks) % WordSize
  IN  /\ \A i \in Used(t) \ AtVolume(t) : t[i].start >= fwEnd
      /\ AtVolume(t) # {}
      /\ t[FirmwareSlot(t)].size >= fwBlocks

-----------------------------------------------------------------------------
(* What the check is for.                                                   *)

(* The blocks a partition's owner may write. *)
Extent(p) == p.start .. (p.start + p.size - 1)

FirmwareRegion(fwBlocks) == VolumeLBA .. (VolumeLBA + fwBlocks - 1)

(* The doc comment of CheckN3GLayout: one partition starts at the volume    *)
(* and is big enough to hold it, and no other partition reaches into it.    *)
Reserved(t, fwBlocks) ==
  \E i \in Used(t) :
    /\ t[i].start = VolumeLBA
    /\ t[i].size >= fwBlocks
    /\ \A j \in Used(t) \ {i} : Extent(t[j]) \cap FirmwareRegion(fwBlocks) = {}

(* The one shape CheckN3GLayout does not look into: it keeps the last slot  *)
(* that starts at the volume and forgets the earlier ones.                  *)
SingleAtVolume(t) == \E i \in Used(t) : AtVolume(t) = {i}
=============================================================================
