----------------------------- MODULE SharedFlash -----------------------------
(***************************************************************************)
(* One flash under three programs: the EFI boots from it, RetailOS plays   *)
(* from it and disk mode fills it, each through a bridge of its own        *)
(* (EfiBlockIo, OsosBridge, FtlBridge).  The FTL's pages are all that they *)
(* share; a reboot takes everything else.                                  *)
(***************************************************************************)
EXTENDS StorageDomain

CONSTANTS
  WordSize, Codes,   \* of the RetailOS bridge
  MaxFaults,         \* bound: inner calls that fail in one behaviour
  MaxBoots           \* bound: reboots

ASSUME SharedAssumption ==
  /\ WordSize \in Nat /\ Buffer < WordSize /\ Codes \subseteq Nat \ {0}
  /\ MaxFaults \in Nat /\ MaxBoots \in Nat

VARIABLES
  mode,                            \* the program that runs
  pages,                           \* the FTL's logical pages, by half
  req, buf, result, pc, faults,    \* as in the bridges
  lba, dst, blocks, bio_scratch,   \* EfiBlockIo's
  count, at, scratch, status,      \* OsosBridge's, with lba
  i, ftl_scr, hurt,                \* FtlBridge's
  boots

request == <<pages, req, buf, result, pc, faults>>
efi == <<dst, blocks, bio_scratch>>
osos == <<count, at, scratch, status>>
disk == <<i, ftl_scr, hurt>>
vars == <<mode, request, lba, efi, osos, disk, boots>>

Efi == INSTANCE EfiBlockIo
RetailOS == INSTANCE OsosBridge
DiskMode == INSTANCE FtlBridge

Init ==
  /\ mode \in {"efi", "osos", "disk"} /\ boots = 0
  /\ Efi!Init /\ count = 0 /\ at = 0 /\ status = 0 /\ i = 0 /\ hurt = FALSE
  /\ scratch = bio_scratch /\ ftl_scr = bio_scratch

EfiStep == mode = "efi" /\ Efi!Next /\ UNCHANGED <<mode, osos, disk, boots>>
RetailStep == mode = "osos" /\ RetailOS!Next /\ UNCHANGED <<mode, efi, disk, boots>>
DiskStep == mode = "disk" /\ DiskMode!Next /\ UNCHANGED <<mode, lba, efi, osos, boots>>

(* The EFI starts either of the others, and either ends in a reset.         *)
Boot ==
  /\ pc = "idle" /\ boots < MaxBoots /\ boots' = boots + 1
  /\ mode' \in (IF mode = "efi" THEN {"osos", "disk"} ELSE {"efi"})
  /\ buf' = [s \in Slots |-> Erased] /\ result' = "none"
  /\ bio_scratch' = [h \in 0 .. 1 |-> Erased]
  /\ scratch' = [h \in 0 .. 1 |-> Erased] /\ ftl_scr' = [h \in 0 .. 1 |-> Erased]
  /\ UNCHANGED <<pages, req, pc, faults, lba, dst, blocks, count, at, status, i, hurt>>

Next == EfiStep \/ RetailStep \/ DiskStep \/ Boot
Spec == Init /\ [][Next]_vars

-----------------------------------------------------------------------------
(* Properties.                                                              *)

(* Every program sees the data where the others put it: its steps are those *)
(* of a device of 4 KiB blocks, the same whoever runs, over the one array   *)
(* of blocks that the pages of the FTL are.                                 *)
blocksOf == [b \in Blocks |-> pages[b \div 2][b % 2]]
phase == IF pc = "idle" THEN "idle" ELSE "busy"

(* Under RetailOS a failure is always reported, and what it costs is        *)
(* confined to the pages of the request.                                    *)
Reporting == INSTANCE BlockStore WITH
  disk <- blocksOf, wrong <- status # 0, MayHarm <- TRUE, MaySwallow <- FALSE
ImplementsReportingStore ==
  [][mode = "osos" /\ mode' = "osos" => Reporting!Next \/ UNCHANGED Reporting!storeVars]_vars

(* In disk mode the damage is confined likewise, though the answer may hide *)
(* it.                                                                      *)
Confined == INSTANCE BlockStore WITH
  disk <- blocksOf, wrong <- hurt, MayHarm <- TRUE, MaySwallow <- TRUE
ImplementsConfinedStore ==
  [][mode = "disk" /\ mode' = "disk" => Confined!Next \/ UNCHANGED Confined!storeVars]_vars

(* And what a write in disk mode that could not read its page leaves in the *)
(* other half is what was there, erased or broken, never the data of some   *)
(* other page that the scratch was last used for: a host can tell it from a *)
(* file.                                                                    *)
NoForeignData ==
  [][mode = "disk" => \A b \in Blocks :
       blocksOf'[b] = blocksOf[b] \/ blocksOf'[b].addr \in {b, -1}]_vars

(* The EFI sees a perfect device, whatever the other two have left in it.   *)
Perfect == INSTANCE BlockStore WITH
  disk <- blocksOf, wrong <- FALSE, MayHarm <- FALSE, MaySwallow <- FALSE
EfiIsPerfect ==
  [][mode = "efi" /\ mode' = "efi" => Perfect!Next \/ UNCHANGED Perfect!storeVars]_vars
=============================================================================
