----------------------------- MODULE NandBlocks -----------------------------
(***************************************************************************)
(* The 16 GB chip's blocks under the patched NAND driver of the firmware   *)
(* (nand_planeerase.S, nand_bbtscan.S).                                    *)
(*                                                                         *)
(* The driver works on superblocks of Ppb pages; the chip has blocks half  *)
(* as long in two planes, so a superblock has a half in each: pages below  *)
(* Ppb/2 in plane 0, the rest in plane 1.  Both fixes make the driver see  *)
(* the second half: the bad-block scan reads its marker pages too, and an  *)
(* erase, which the driver issues for plane 0 alone, runs a second time    *)
(* for plane 1.  The translation layer above, which is not in this         *)
(* repository, appears as the owner of hyperblocks: a hyperblock is the    *)
(* superblocks of one number on all banks, and is erased, then written     *)
(* half by half, then recycled.  Power may fail between any two steps.     *)
(***************************************************************************)
EXTENDS Integers, FiniteSets

CONSTANTS
  Banks,        \* number of banks: superblocks in a hyperblock
  Blocks,       \* superblock numbers
  Ppb,          \* pages per superblock: 256
  PlanePages,   \* pages per block of the chip: 128
  MaxMarks,     \* bound: marked pages on the chip
  MaxMishaps    \* bound: failed reads and timeouts of the sequencer

ASSUME NandBlocksAssumption ==
  /\ Banks \in Nat \ {0} /\ MaxMarks \in Nat /\ MaxMishaps \in Nat
  /\ PlanePages \in Nat \ {0, 1} /\ Ppb = 2 * PlanePages

VARIABLES
  marks,      \* the pages <<bank, block, page>> with a factory bad-block marker
  bbt,        \* verdict of the scan on each superblock
  scan,       \* the scan of one superblock: [bank, block, idx], or Idle
  half,       \* what each half of a superblock holds: "FF" or "data"
  owner,      \* the translation layer's view of each hyperblock
  erase,      \* the erase under way, or Idle
  mishaps

nandVars == <<marks, bbt, scan, half, owner, erase, mishaps>>

Bank == 1 .. Banks
Idle == [at |-> "idle"]

(* The plane a page of a superblock lies in: bit 7 of its row. *)
PlaneOf(page) == IF page < PlanePages THEN 0 ELSE 1

(* Plane p of superblock b on bank k, as a row the sequencer is given. *)
Row(k, b, p) == [bank |-> k, block |-> b, plane |-> p]
Rows == {Row(k, b, p) : k \in Bank, b \in Blocks, p \in {0, 1}}

(* A defective half carries the marker on its first page, its second, or    *)
(* both; nothing written to it can be read back.                            *)
MarkerPages == {0, 1, PlanePages, PlanePages + 1}
Defective(r) ==
  \E m \in marks : m[1] = r.bank /\ m[2] = r.block /\ PlaneOf(m[3]) = r.plane

NandInit ==
  /\ marks = {} /\ bbt = [s \in Bank \X Blocks |-> "unknown"]
  /\ scan = Idle /\ erase = Idle /\ mishaps = 0
  /\ half = [r \in Rows |-> "data"]
  /\ owner = [b \in Blocks |-> "factory"]

(* The chip is what the factory made it.  This choice comes first. *)
Manufacture ==
  /\ \A b \in Blocks : owner[b] = "factory"
  /\ \E M \in SUBSET (Bank \X Blocks \X MarkerPages) :
       Cardinality(M) <= MaxMarks /\ marks' = M
  /\ owner' = [b \in Blocks |-> "free"]
  /\ UNCHANGED <<bbt, scan, half, erase, mishaps>>

-----------------------------------------------------------------------------
(* The bad-block scan, type 4 (tramp_bbt4).                                 *)

StartScan(k, b) ==
  /\ owner[b] = "free" /\ scan = Idle /\ erase = Idle /\ bbt[<<k, b>>] = "unknown"
  /\ scan' = [at |-> "scan", bank |-> k, block |-> b, idx |-> 0]
  /\ UNCHANGED <<marks, bbt, half, owner, erase, mishaps>>

(* The stock scan: pages 0 and 1 of the superblock only.                    *)
TwoReads == 2

(* .Lbbt_loop: four reads for a superblock in two planes, two otherwise. *)
ScanReads == IF Ppb <= PlanePages THEN 2 ELSE 4

(* Read idx is of page 0 or 1 of the first or of the second half. *)
ScanPage(idx) == (IF idx < 2 THEN 0 ELSE Ppb \div 2) + (idx % 2)

Scanned(verdict) ==
  /\ bbt' = [bbt EXCEPT ![<<scan.bank, scan.block>>] = verdict]
  /\ scan' = Idle

ScanStep ==
  /\ scan # Idle
  /\ IF <<scan.bank, scan.block, ScanPage(scan.idx)>> \in marks
       THEN Scanned("bad")
       ELSE IF scan.idx + 1 < ScanReads
              THEN scan' = [scan EXCEPT !.idx = @ + 1] /\ UNCHANGED bbt
              ELSE Scanned("good")
  /\ UNCHANGED <<marks, half, owner, erase, mishaps>>

(* .Lbbt_err: the scan returns 0 and has said nothing of the superblock. *)
ScanError ==
  /\ scan # Idle /\ mishaps < MaxMishaps
  /\ mishaps' = mishaps + 1 /\ scan' = Idle
  /\ UNCHANGED <<marks, bbt, half, owner, erase>>

-----------------------------------------------------------------------------
(* The erase.  The driver has staged the rows of one hyperblock, plane bit  *)
(* clear, and their number in the FMC; the sequencer takes the next row     *)
(* from the staged pointer and advances it.                                 *)

StartErase(b) ==
  /\ owner[b] = "free" /\ erase = Idle /\ scan = Idle
  /\ \A k \in Bank : bbt[<<k, b>>] = "good"
  /\ erase' = [at |-> "plane0", rows |-> [k \in Bank |-> Row(k, b, 0)],
               next |-> 1, left |-> Banks, block |-> b]
  /\ UNCHANGED <<marks, bbt, scan, half, owner, mishaps>>

(* NAND_RESET has started the sequencer: it erases one row after another. *)
SequencerRow ==
  /\ erase # Idle /\ erase.left > 0
  /\ half' = [half EXCEPT ![erase.rows[erase.next]] = "FF"]
  /\ erase' = [erase EXCEPT !.next = @ + 1, !.left = @ - 1]
  /\ UNCHANGED <<marks, bbt, scan, owner, mishaps>>

(* Plane 1 without the row bit, and without staging the rows again.         *)
SecondPlaneSameRows(e) ==
  [e EXCEPT !.at = "plane1", !.next = 1, !.left = Banks]

(* .Lseq_or and the re-staging after it; in the single-block path the count *)
(* is 1, as with Banks = 1.                                                 *)
SecondPlane(e) ==
  [e EXCEPT !.at = "plane1", !.rows = [k \in Bank |-> Row(k, e.block, 1)],
            !.next = 1, !.left = Banks]

(* WAIT_CS returns for plane 0: the trampoline goes on with plane 1. *)
PlaneZeroDone ==
  /\ erase.at = "plane0" /\ erase.left = 0
  /\ erase' = SecondPlane(erase)
  /\ UNCHANGED <<marks, bbt, scan, half, owner, mishaps>>

(* WAIT_CS returns for plane 1, and the driver's own status check passes. *)
PlaneOneDone ==
  /\ erase.at = "plane1" /\ erase.left = 0
  /\ owner' = [owner EXCEPT ![erase.block] = "erased"]
  /\ erase' = Idle
  /\ UNCHANGED <<marks, bbt, scan, half, mishaps>>

(* WAIT_CS returns 0, in either plane: plane 1 is skipped or not complete,  *)
(* the status check fails, and the hyperblock remains to be erased.         *)
EraseTimeout ==
  /\ erase # Idle /\ mishaps < MaxMishaps
  /\ mishaps' = mishaps + 1 /\ erase' = Idle
  /\ UNCHANGED <<marks, bbt, scan, half, owner>>

-----------------------------------------------------------------------------
(* The translation layer and the power supply.                              *)

(* Firmware pages go to plane 0 first, then to plane 1. *)
WriteHalf(b) ==
  /\ erase = Idle /\ scan = Idle /\ owner[b] \in {"erased", "half"}
  /\ LET p == IF owner[b] = "erased" THEN 0 ELSE 1
     IN half' = [r \in Rows |->
                   IF r.block = b /\ r.plane = p THEN "data" ELSE half[r]]
  /\ owner' = [owner EXCEPT ![b] = IF @ = "erased" THEN "half" ELSE "full"]
  /\ UNCHANGED <<marks, bbt, scan, erase, mishaps>>

Recycle(b) ==
  /\ owner[b] \in {"half", "full"}
  /\ owner' = [owner EXCEPT ![b] = "free"]
  /\ UNCHANGED <<marks, bbt, scan, half, erase, mishaps>>

(* What the translation layer knew of a fresh hyperblock is gone. *)
PowerLoss ==
  /\ erase' = Idle /\ scan' = Idle
  /\ owner' = [b \in Blocks |-> IF owner[b] = "erased" THEN "free" ELSE owner[b]]
  /\ UNCHANGED <<marks, bbt, half, mishaps>>

NandNext ==
  \/ Manufacture \/ ScanStep \/ ScanError \/ SequencerRow
  \/ PlaneZeroDone \/ PlaneOneDone \/ EraseTimeout \/ PowerLoss
  \/ \E k \in Bank, b \in Blocks : StartScan(k, b)
  \/ \E b \in Blocks : StartErase(b) \/ WriteHalf(b) \/ Recycle(b)

NandSpec == NandInit /\ [][NandNext]_nandVars

-----------------------------------------------------------------------------
(* What the translation layer writes next. *)
Fresh(r) ==
  \/ owner[r.block] = "erased"
  \/ owner[r.block] = "half" /\ r.plane = 1

(* What the translation layer will write next is erased, in both planes and *)
(* on every bank: nothing of an earlier owner is left under a fresh write,  *)
(* however the erase before was cut off (nand_planeerase.S).                *)
FreshIsErased == \A r \in Rows : Fresh(r) => half[r] = "FF"

(* No half the factory marked is ever given data to keep: the scan has      *)
(* found the marker, in whichever half and page it is (nand_bbtscan.S).     *)
NoDataOnDefective ==
  \A r \in Rows : owner[r.block] \in {"erased", "half", "full"} => ~Defective(r)
=============================================================================
