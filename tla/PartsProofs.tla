----------------------------- MODULE PartsProofs -----------------------------
(***************************************************************************)
(* The parts that work alone, for every size of each: the layout check's   *)
(* verdict on every table, what the fixes of the NAND driver are for, the  *)
(* verdict on a page of the flash, the resumable decryption, firmware       *)
(* bundles, the patches for the 16 GB NAND, and those of EFI volumes.       *)
(***************************************************************************)
EXTENDS Decrypt, LayoutEdits, NandBlocks, NandPages, MseBundle, NandPatches, EfiPatching,
  FiniteSetTheorems, SequenceTheorems, WellFoundedInduction, TLAPS

-----------------------------------------------------------------------------
(* CheckN3GLayout: a table with one slot at the volume is accepted just when*)
(* it reserves the firmware region, but for entries below the volume or     *)
(* without blocks, for any number of slots, any entries and any word size   *)
(* the region fits in.                                                      *)

(* A table that passes the check and has one slot at the volume keeps the   *)
(* firmware region to itself, whatever else it holds.                       *)
THEOREM CheckSound ==
  ASSUME NEW S \in SUBSET Int, NEW t \in [S -> MBRPartition], NEW n \in Nat,
         VolumeLBA + n < WordSize, SingleAtVolume(t), CheckN3GLayout(t, n)
  PROVE  Reserved(t, n)
<1>1. PICK k \in Used(t) : AtVolume(t) = {k}
  BY DEF SingleAtVolume
<1>2. FirmwareSlot(t) = k /\ k \in S
  BY <1>1 DEF FirmwareSlot, Used
<1>3. t[k].start = VolumeLBA /\ t[k].size >= n
  BY <1>1, <1>2 DEF CheckN3GLayout, AtVolume
<1>4. (VolumeLBA + n) % WordSize = VolumeLBA + n
  BY WordAssumption
<1>5. ASSUME NEW j \in Used(t) \ {k}
      PROVE  Extent(t[j]) \cap FirmwareRegion(n) = {}
  <2>1. t[j].start >= VolumeLBA + n
    BY <1>1, <1>4 DEF CheckN3GLayout
  <2>2. t[j].start \in Nat /\ t[j].size \in Nat
    BY WordAssumption DEF Used, MBRPartition, Word
  <2>3. QED
    BY <2>1, <2>2, WordAssumption DEF Extent, FirmwareRegion
<1>6. QED
  BY <1>1, <1>3, <1>5 DEF Reserved

(* A table that reserves the region, the rest past the volume, passes.      *)
LEMMA CheckComplete ==
  ASSUME NEW S \in SUBSET Int, NEW t \in [S -> MBRPartition], NEW n \in Nat \ {0},
         VolumeLBA + n < WordSize, SingleAtVolume(t), Reserved(t, n),
         \A i \in Used(t) : t[i].start >= VolumeLBA /\ t[i].size > 0
  PROVE  CheckN3GLayout(t, n)
<1>1. PICK k \in Used(t) : AtVolume(t) = {k}
  BY DEF SingleAtVolume
<1>2. FirmwareSlot(t) = k /\ k \in S
  BY <1>1 DEF FirmwareSlot, Used
<1>3. PICK i \in Used(t) :
        /\ t[i].start = VolumeLBA /\ t[i].size >= n
        /\ \A j \in Used(t) \ {i} : Extent(t[j]) \cap FirmwareRegion(n) = {}
  BY DEF Reserved
<1>4. i = k
  BY <1>1, <1>3 DEF AtVolume
<1>5. (VolumeLBA + n) % WordSize = VolumeLBA + n
  BY WordAssumption
<1>6. ASSUME NEW j \in Used(t) \ AtVolume(t)
      PROVE  t[j].start >= VolumeLBA + n
  <2>1. t[j].start \in Nat /\ t[j].size \in Nat
    BY WordAssumption DEF Used, MBRPartition, Word
  <2>2. t[j].start >= VolumeLBA /\ t[j].size > 0
    BY <1>6
  <2>3. t[j].start \in Extent(t[j])
    BY <2>1, <2>2 DEF Extent
  <2>4. t[j].start \notin FirmwareRegion(n)
    BY <1>1, <1>3, <1>4, <2>3
  <2>5. QED
    BY <2>1, <2>2, <2>4, WordAssumption DEF FirmwareRegion
<1>7. QED
  BY <1>1, <1>2, <1>3, <1>4, <1>5, <1>6 DEF CheckN3GLayout

TableOK == table \in [Slots -> MBRPartition]

LEMMA TableType == TableSpec => []TableOK
<1>1. TableInit => TableOK
  BY WordAssumption DEF TableInit, TableOK, MBRPartition, Word
<1>2. TableOK /\ [TableNext]_table => TableOK'
  BY EditsAssumption DEF TableNext, Edit, TableOK
<1>3. QED
  BY <1>1, <1>2, PTL DEF TableSpec

(* The verdict is right on every table that partitioning tools can make.    *)
THEOREM VerdictCorrect == TableSpec => []VerdictIsRight
<1>1. TableOK => VerdictIsRight
  <2> SUFFICES ASSUME table \in [Slots -> MBRPartition], SingleAtVolume(table)
               PROVE  /\ CheckN3GLayout(table, FwBlocks) => Reserved(table, FwBlocks)
                      /\ Reserved(table, FwBlocks)
                           /\ (\A i \in Used(table) :
                                 table[i].start >= VolumeLBA /\ table[i].size > 0)
                         => CheckN3GLayout(table, FwBlocks)
    BY DEF VerdictIsRight, TableOK
  <2>1. Slots \in SUBSET Int /\ FwBlocks \in Nat \ {0} /\ VolumeLBA + FwBlocks < WordSize
    BY EditsAssumption
  <2>2. QED
    BY <2>1, CheckSound, CheckComplete
<1>2. QED
  BY <1>1, TableType, PTL

-----------------------------------------------------------------------------
(* The chip's blocks, for any number of banks, blocks and pages, any        *)
(* factory marks and any number of mishaps: a fresh hyperblock is erased    *)
(* throughout (FreshIsErased), and no defective half is given data to keep  *)
(* (NoDataOnDefective).                                                     *)

(* The erase.                                                               *)

Owners == {"factory", "free", "erased", "half", "full"}
Plane(at) == IF at = "plane0" THEN 0 ELSE 1

(* An erase under way has staged the rows of one plane of its hyperblock,   *)
(* and has so many of them left.                                            *)
Staged ==
  [at : {"plane0", "plane1"}, rows : [Bank -> Rows], next : 1 .. Banks + 1,
   left : 0 .. Banks, block : Blocks]

Erasing ==
  /\ erase \in Staged /\ erase.left = Banks + 1 - erase.next
  /\ \A k \in Bank : erase.rows[k] = Row(k, erase.block, Plane(erase.at))

EraseShape ==
  /\ owner \in [Blocks -> Owners] /\ half \in [Rows -> {"FF", "data"}]
  /\ erase = Idle \/ Erasing

(* What it has been through is erased, and belongs to nobody.               *)
Progress ==
  erase # Idle =>
    /\ owner[erase.block] = "free"
    /\ \A k \in 1 .. erase.next - 1 : half[Row(k, erase.block, Plane(erase.at))] = "FF"
    /\ erase.at = "plane1" => \A k \in Bank : half[Row(k, erase.block, 0)] = "FF"

EraseInv == EraseShape /\ Progress /\ FreshIsErased

LEMMA RowType ==
  ASSUME NEW k \in Bank, NEW b \in Blocks, NEW p \in {0, 1}
  PROVE  /\ Row(k, b, p) \in Rows
         /\ Row(k, b, p).bank = k /\ Row(k, b, p).block = b /\ Row(k, b, p).plane = p
  BY DEF Row, Rows

LEMMA RowsAre ==
  ASSUME NEW r \in Rows
  PROVE  /\ r.bank \in Bank /\ r.block \in Blocks /\ r.plane \in {0, 1}
         /\ r = Row(r.bank, r.block, r.plane)
  BY DEF Row, Rows

LEMMA Fields ==
  ASSUME Erasing
  PROVE  /\ erase # Idle /\ erase.at \in {"plane0", "plane1"}
         /\ Plane(erase.at) \in {0, 1}
         /\ erase.block \in Blocks /\ erase.rows \in [Bank -> Rows] /\ Banks \in Nat
         /\ erase.next \in Nat /\ 1 <= erase.next /\ erase.next <= Banks + 1
         /\ erase.left \in Nat /\ erase.left = Banks + 1 - erase.next
<1>1. erase \in Staged
  BY DEF Erasing
<1>2. /\ erase.at \in {"plane0", "plane1"} /\ erase.block \in Blocks
      /\ erase.rows \in [Bank -> Rows]
      /\ erase.next \in 1 .. Banks + 1 /\ erase.left \in 0 .. Banks
  BY <1>1 DEF Staged
<1>3. erase # Idle
  <2>1. erase.at # Idle.at
    BY <1>2 DEF Idle
  <2>2. QED
    BY <2>1
<1>4. Plane(erase.at) \in {0, 1}
  BY DEF Plane
<1>5. erase.left = Banks + 1 - erase.next
  BY DEF Erasing
<1>6. /\ Banks \in Nat
      /\ erase.next \in Nat /\ 1 <= erase.next /\ erase.next <= Banks + 1
      /\ erase.left \in Nat
  <2>1. erase.next \in 1 .. Banks + 1 /\ erase.left \in 0 .. Banks
    BY <1>2
  <2>2. QED
    BY <2>1, NandBlocksAssumption
<1>7. QED
  BY <1>2, <1>3, <1>4, <1>5, <1>6

LEMMA EraseStarts == NandInit => EraseInv
  BY RowsAre DEF NandInit, EraseInv, EraseShape, Progress, FreshIsErased, Fresh, Owners

LEMMA StartEraseStep ==
  ASSUME EraseInv, NEW b \in Blocks, StartErase(b)
  PROVE  EraseInv'
<1>1. erase' = [at |-> "plane0", rows |-> [k \in Bank |-> Row(k, b, 0)],
                next |-> 1, left |-> Banks, block |-> b]
  BY DEF StartErase
<1>2. [k \in Bank |-> Row(k, b, 0)] \in [Bank -> Rows]
  BY RowType
<1>3. Erasing'
  BY <1>1, <1>2, NandBlocksAssumption DEF Erasing, Staged, Plane
<1>4. EraseShape'
  BY <1>3 DEF EraseInv, EraseShape, StartErase
<1>5. erase'.block = b /\ erase'.at = "plane0" /\ erase'.next = 1
  BY <1>1
<1>6. Progress'
  BY <1>5 DEF Progress, StartErase
<1>7. FreshIsErased'
  BY DEF EraseInv, FreshIsErased, Fresh, StartErase
<1>8. QED
  BY <1>4, <1>6, <1>7 DEF EraseInv

LEMMA RowStep ==
  ASSUME EraseInv, SequencerRow
  PROVE  EraseInv'
<1> DEFINE row == Row(erase.next, erase.block, Plane(erase.at))
<1>1. Erasing /\ erase # Idle
  BY DEF EraseInv, EraseShape, SequencerRow
<1>2. erase.left > 0 /\ erase.next \in Bank /\ erase.next \in Nat /\ Banks \in Nat
  <2>1. erase.left > 0
    BY DEF SequencerRow
  <2>2. QED
    BY <1>1, <2>1, Fields DEF Bank
<1>3. row \in Rows /\ row.block = erase.block
  BY <1>1, <1>2, Fields, RowType
<1>4. half' = [half EXCEPT ![row] = "FF"]
  BY <1>1, <1>2 DEF SequencerRow, Erasing
<1>5. erase' = [erase EXCEPT !.next = erase.next + 1, !.left = erase.left - 1]
  BY DEF SequencerRow
<1>6. /\ erase'.at = erase.at /\ erase'.rows = erase.rows /\ erase'.block = erase.block
      /\ erase'.next = erase.next + 1 /\ erase'.left = erase.left - 1
      /\ erase' \in Staged
  <2>1. erase.next + 1 \in 1 .. Banks + 1 /\ erase.left - 1 \in 0 .. Banks
    BY <1>1, <1>2, Fields DEF Bank
  <2>2. erase \in Staged
    BY <1>1 DEF Erasing
  <2>3. QED
    BY <1>5, <2>1, <2>2 DEF Staged
<1>7. Erasing'
  BY <1>1, <1>2, <1>6, Fields DEF Erasing
<1>8. EraseShape'
  BY <1>3, <1>4, <1>7 DEF EraseInv, EraseShape, SequencerRow
<1>9. \A r \in Rows : half'[r] = "FF" \/ half'[r] = half[r]
  BY <1>4 DEF EraseInv, EraseShape
<1>10. \A r \in Rows : half[r] = "FF" => half'[r] = "FF"
  BY <1>9
<1>11. Progress'
  <2>1. owner'[erase'.block] = "free"
    BY <1>1, <1>6 DEF EraseInv, Progress, SequencerRow
  <2>2. ASSUME NEW k \in 1 .. erase'.next - 1
        PROVE  half'[Row(k, erase'.block, Plane(erase'.at))] = "FF"
    <3>1. k \in Bank /\ Row(k, erase.block, Plane(erase.at)) \in Rows
      BY <1>1, <1>2, <1>6, <2>2, Fields, RowType DEF Bank
    <3>2. CASE k = erase.next
      BY <1>3, <1>4, <1>6, <3>2 DEF EraseInv, EraseShape
    <3>3. CASE k # erase.next
      <4>1. k \in 1 .. erase.next - 1
        BY <1>2, <1>6, <3>3
      <4>2. half[Row(k, erase.block, Plane(erase.at))] = "FF"
        BY <1>1, <4>1 DEF EraseInv, Progress
      <4>3. QED
        BY <1>6, <1>10, <3>1, <4>2
    <3>4. QED
      BY <3>2, <3>3
  <2>3. ASSUME erase'.at = "plane1", NEW k \in Bank
        PROVE  half'[Row(k, erase'.block, 0)] = "FF"
    <3>1. half[Row(k, erase.block, 0)] = "FF"
      BY <1>1, <1>6, <2>3 DEF EraseInv, Progress
    <3>2. Row(k, erase.block, 0) \in Rows
      BY <1>1, Fields, RowType
    <3>3. QED
      BY <1>6, <1>10, <3>1, <3>2
  <2>4. QED
    BY <2>1, <2>2, <2>3 DEF Progress
<1>12. FreshIsErased'
  BY <1>10 DEF EraseInv, FreshIsErased, Fresh, SequencerRow
<1>13. QED
  BY <1>8, <1>11, <1>12 DEF EraseInv

LEMMA PlaneZeroStep ==
  ASSUME EraseInv, PlaneZeroDone
  PROVE  EraseInv'
<1>1. Erasing /\ erase # Idle
  BY DEF EraseInv, EraseShape, PlaneZeroDone, Idle
<1>2. erase' = [erase EXCEPT !.at = "plane1", !.rows = [k \in Bank |-> Row(k, erase.block, 1)],
                          !.next = 1, !.left = Banks]
  BY DEF PlaneZeroDone, SecondPlane
<1>3. /\ Erasing' /\ erase'.at = "plane1" /\ erase'.block = erase.block
      /\ erase'.next = 1
  <2>1. [k \in Bank |-> Row(k, erase.block, 1)] \in [Bank -> Rows]
    BY <1>1, Fields, RowType
  <2>2. erase \in Staged
    BY <1>1 DEF Erasing
  <2>3. /\ erase'.at = "plane1" /\ erase'.block = erase.block /\ erase'.next = 1
        /\ erase'.left = Banks /\ erase'.rows = [k \in Bank |-> Row(k, erase.block, 1)]
    BY <1>2, <2>2 DEF Staged
  <2>4. erase' \in Staged
    <3>1. 1 \in 1 .. Banks + 1 /\ Banks \in 0 .. Banks
      BY NandBlocksAssumption
    <3>2. QED
      BY <1>2, <2>1, <2>2, <3>1 DEF Staged
  <2>5. QED
    BY <2>3, <2>4, NandBlocksAssumption DEF Erasing, Plane
<1>4. EraseShape'
  BY <1>3 DEF EraseInv, EraseShape, PlaneZeroDone
<1>5. erase.next - 1 = Banks /\ Plane(erase.at) = 0
  BY <1>1, Fields DEF PlaneZeroDone, Plane
<1>6. \A k \in Bank : half[Row(k, erase.block, 0)] = "FF"
  BY <1>1, <1>5 DEF EraseInv, Progress, Bank
<1>7. Progress'
  BY <1>1, <1>3, <1>6 DEF EraseInv, Progress, PlaneZeroDone
<1>8. FreshIsErased'
  BY DEF EraseInv, FreshIsErased, Fresh, PlaneZeroDone
<1>9. QED
  BY <1>4, <1>7, <1>8 DEF EraseInv

LEMMA PlaneOneStep ==
  ASSUME EraseInv, PlaneOneDone
  PROVE  EraseInv'
<1>1. Erasing /\ erase # Idle
  BY DEF EraseInv, EraseShape, PlaneOneDone, Idle
<1>2. erase.next - 1 = Banks /\ Plane(erase.at) = 1
  BY <1>1, Fields DEF PlaneOneDone, Plane
<1>3. \A k \in Bank, p \in {0, 1} : half[Row(k, erase.block, p)] = "FF"
  <2>1. \A k \in Bank : half[Row(k, erase.block, 0)] = "FF"
    BY <1>1 DEF EraseInv, Progress, PlaneOneDone
  <2>2. \A k \in Bank : half[Row(k, erase.block, 1)] = "FF"
    BY <1>1, <1>2 DEF EraseInv, Progress, Bank
  <2>3. QED
    BY <2>1, <2>2
<1>4. FreshIsErased'
  <2> SUFFICES ASSUME NEW r \in Rows, Fresh(r)' PROVE half[r] = "FF"
    BY DEF FreshIsErased, PlaneOneDone
  <2>1. CASE r.block = erase.block
    BY <1>3, <2>1, RowsAre
  <2>2. CASE r.block # erase.block
    <3>1. owner'[r.block] = owner[r.block]
      BY <2>2, RowsAre DEF EraseInv, EraseShape, PlaneOneDone
    <3>2. QED
      BY <3>1 DEF EraseInv, FreshIsErased, Fresh
  <2>3. QED
    BY <2>1, <2>2
<1>5. EraseShape' /\ Progress'
  BY <1>1 DEF EraseInv, EraseShape, Progress, PlaneOneDone, Owners
<1>6. QED
  BY <1>4, <1>5 DEF EraseInv

LEMMA WriteHalfStep ==
  ASSUME EraseInv, NEW b \in Blocks, WriteHalf(b)
  PROVE  EraseInv'
<1> DEFINE p == IF owner[b] = "erased" THEN 0 ELSE 1
<1>1. half' = [r \in Rows |-> IF r.block = b /\ r.plane = p THEN "data" ELSE half[r]]
  BY DEF WriteHalf
<1>2. owner' = [owner EXCEPT ![b] = IF owner[b] = "erased" THEN "half" ELSE "full"]
  BY DEF WriteHalf
<1>3. EraseShape' /\ Progress'
  BY <1>1, <1>2 DEF EraseInv, EraseShape, Progress, WriteHalf, Owners
<1>4. FreshIsErased'
  <2> SUFFICES ASSUME NEW r \in Rows, Fresh(r)' PROVE half'[r] = "FF"
    BY DEF FreshIsErased
  <2>1. CASE r.block # b
    <3>1. owner'[r.block] = owner[r.block] /\ half'[r] = half[r]
      BY <1>1, <1>2, <2>1, RowsAre DEF EraseInv, EraseShape
    <3>2. QED
      BY <3>1 DEF EraseInv, FreshIsErased, Fresh
  <2>2. CASE r.block = b
    <3>1. owner'[b] = IF owner[b] = "erased" THEN "half" ELSE "full"
      BY <1>2 DEF EraseInv, EraseShape
    <3>2. owner[b] = "erased" /\ r.plane = 1
      BY <2>2, <3>1 DEF Fresh
    <3>3. half'[r] = half[r]
      BY <1>1, <3>2
    <3>4. half[r] = "FF"
      BY <2>2, <3>2 DEF EraseInv, FreshIsErased, Fresh
    <3>5. QED
      BY <3>3, <3>4
  <2>3. QED
    BY <2>1, <2>2
<1>5. QED
  BY <1>3, <1>4 DEF EraseInv

(* Steps that leave the halves alone and make no hyperblock fresh.          *)
LEMMA OtherEraseStep ==
  ASSUME EraseInv, half' = half, erase' = erase \/ erase' = Idle,
         owner' \in [Blocks -> Owners],
         \A b \in Blocks :
           owner'[b] = owner[b]
             \/ (owner'[b] = "free" /\ owner[b] # "free")
  PROVE  EraseInv'
<1>1. EraseShape'
  <2>1. CASE erase' = erase
    BY <2>1 DEF EraseInv, EraseShape, Erasing
  <2>2. CASE erase' = Idle
    BY <2>2 DEF EraseInv, EraseShape
  <2>3. QED
    BY <2>1, <2>2
<1>2. Progress'
  BY Fields DEF EraseInv, EraseShape, Progress
<1>3. FreshIsErased'
  BY RowsAre DEF EraseInv, FreshIsErased, Fresh
<1>4. QED
  BY <1>1, <1>2, <1>3 DEF EraseInv

LEMMA EraseNext == EraseInv /\ [NandNext]_nandVars => EraseInv'
<1> SUFFICES ASSUME EraseInv, [NandNext]_nandVars PROVE EraseInv'
  OBVIOUS
<1>1. owner \in [Blocks -> Owners]
  BY DEF EraseInv, EraseShape
<1>2. ASSUME half' = half, erase' = erase \/ erase' = Idle, owner' = owner PROVE EraseInv'
  BY <1>1, <1>2, OtherEraseStep
<1>3. CASE ScanStep \/ ScanError \/ EraseTimeout \/ UNCHANGED nandVars
  BY <1>2, <1>3 DEF ScanStep, ScanError, EraseTimeout, nandVars
<1>4. CASE Manufacture
  BY <1>1, <1>4, OtherEraseStep DEF Manufacture, Owners
<1>5. CASE PowerLoss
  <2>1. owner' = [b \in Blocks |-> IF owner[b] = "erased" THEN "free" ELSE owner[b]]
    BY <1>5 DEF PowerLoss
  <2>2. half' = half /\ erase' = Idle
    BY <1>5 DEF PowerLoss
  <2>3. owner' \in [Blocks -> Owners]
    BY <1>1, <2>1 DEF Owners
  <2>4. \A b \in Blocks : owner'[b] = owner[b] \/ (owner'[b] = "free" /\ owner[b] # "free")
    BY <2>1
  <2>5. QED
    BY <2>2, <2>3, <2>4, OtherEraseStep
<1>6. ASSUME NEW k \in Bank, NEW b \in Blocks, StartScan(k, b) PROVE EraseInv'
  BY <1>2, <1>6 DEF StartScan
<1>7. ASSUME NEW b \in Blocks, Recycle(b) PROVE EraseInv'
  <2>1. owner' = [owner EXCEPT ![b] = "free"] /\ owner[b] # "free"
    BY <1>7 DEF Recycle
  <2>2. half' = half /\ erase' = erase
    BY <1>7 DEF Recycle
  <2>3. owner' \in [Blocks -> Owners]
    BY <1>1, <2>1 DEF Owners
  <2>4. \A c \in Blocks : owner'[c] = owner[c] \/ (owner'[c] = "free" /\ owner[c] # "free")
    BY <1>1, <2>1
  <2>5. QED
    BY <2>2, <2>3, <2>4, OtherEraseStep
<1>8. QED
  BY <1>3, <1>4, <1>5, <1>6, <1>7, StartEraseStep, RowStep, PlaneZeroStep, PlaneOneStep,
     WriteHalfStep DEF NandNext

(* Whatever power losses and timeouts cut off, what the translation layer   *)
(* writes next is erased in both planes and on every bank.                  *)
THEOREM FreshBlocksAreErased == NandSpec => []FreshIsErased
<1>1. EraseInv => FreshIsErased
  BY DEF EraseInv
<1>2. QED
  BY <1>1, EraseStarts, EraseNext, PTL DEF NandSpec

-----------------------------------------------------------------------------
(* The bad-block scan.                                                      *)

Scanning ==
  scan \in [at : {"scan"}, bank : Bank, block : Blocks, idx : 0 .. 3]

ScanShape ==
  /\ marks \subseteq Bank \X Blocks \X MarkerPages
  /\ bbt \in [Bank \X Blocks -> {"unknown", "good", "bad"}]
  /\ scan = Idle \/ Scanning

(* The pages read so far were clean, and the verdict is open.               *)
Reading ==
  scan # Idle =>
    /\ bbt[<<scan.bank, scan.block>>] = "unknown"
    /\ \A i \in 0 .. scan.idx - 1 : <<scan.bank, scan.block, ScanPage(i)>> \notin marks

(* A good verdict is right.                                                 *)
GoodIsClean ==
  \A k \in Bank, b \in Blocks :
    bbt[<<k, b>>] = "good" => \A q \in MarkerPages : <<k, b, q>> \notin marks

(* Nothing has looked at the chip before the factory is done with it.       *)
FactoryFirst ==
  \A b \in Blocks : owner[b] = "factory" =>
    /\ scan = Idle /\ \A c \in Blocks : owner[c] = "factory"
    /\ \A k \in Bank, c \in Blocks : bbt[<<k, c>>] = "unknown"

(* What is erased, or has been, was found good on every bank.               *)
OwnedIsGood ==
  /\ \A b \in Blocks : owner[b] \in {"erased", "half", "full"} =>
       \A k \in Bank : bbt[<<k, b>>] = "good"
  /\ erase # Idle => \A k \in Bank : bbt[<<k, erase.block>>] = "good"

ScanInv == ScanShape /\ Reading /\ GoodIsClean /\ FactoryFirst /\ OwnedIsGood

(* Four reads, of every page that may carry a marker.                       *)
LEMMA ScanPages ==
  /\ ScanReads = 4
  /\ ScanPage(0) = 0 /\ ScanPage(1) = 1
  /\ ScanPage(2) = PlanePages /\ ScanPage(3) = PlanePages + 1
<1>1. ~(Ppb <= PlanePages) /\ Ppb \div 2 = PlanePages
  BY NandBlocksAssumption
<1>2. 0 % 2 = 0 /\ 1 % 2 = 1 /\ 2 % 2 = 0 /\ 3 % 2 = 1
  OBVIOUS
<1>3. QED
  BY <1>1, <1>2, NandBlocksAssumption DEF ScanReads, ScanPage

LEMMA ScanFields ==
  ASSUME Scanning
  PROVE  /\ scan # Idle /\ scan.bank \in Bank /\ scan.block \in Blocks
         /\ scan.idx \in 0 .. 3 /\ <<scan.bank, scan.block>> \in Bank \X Blocks
<1>1. /\ scan.at = "scan" /\ scan.bank \in Bank /\ scan.block \in Blocks
      /\ scan.idx \in 0 .. 3
  BY DEF Scanning
<1>2. scan # Idle
  <2>1. scan.at # Idle.at
    BY <1>1 DEF Idle
  <2>2. QED
    BY <2>1
<1>3. QED
  BY <1>1, <1>2

LEMMA ScanStarts == NandInit => ScanInv
<1> SUFFICES ASSUME NandInit PROVE ScanInv
  OBVIOUS
<1>1. \A k \in Bank, b \in Blocks : bbt[<<k, b>>] = "unknown"
  BY DEF NandInit
<1>2. ScanShape
  BY DEF NandInit, ScanShape
<1>3. QED
  BY <1>1, <1>2 DEF NandInit, ScanInv, Reading, GoodIsClean, FactoryFirst, OwnedIsGood

LEMMA ManufactureScan ==
  ASSUME ScanInv, EraseInv, Manufacture
  PROVE  ScanInv'
<1>1. /\ \A b \in Blocks : owner[b] = "factory"
      /\ marks' \subseteq Bank \X Blocks \X MarkerPages
      /\ owner' = [b \in Blocks |-> "free"]
      /\ bbt' = bbt /\ scan' = scan /\ erase' = erase
  BY DEF Manufacture
<1>2. ScanShape'
  BY <1>1 DEF ScanInv, ScanShape, Scanning
<1>3. \A k \in Bank, b \in Blocks : bbt'[<<k, b>>] = "unknown"
  BY <1>1 DEF ScanInv, FactoryFirst
<1>4. scan' = Idle
  <2>1. ASSUME scan # Idle PROVE FALSE
    <3>1. scan.block \in Blocks
      BY <2>1, ScanFields DEF ScanInv, ScanShape
    <3>2. QED
      BY <1>1, <2>1, <3>1 DEF ScanInv, FactoryFirst
  <2>2. QED
    BY <1>1, <2>1
<1>5. Reading'
  BY <1>4 DEF Reading
<1>6. GoodIsClean'
  BY <1>3 DEF GoodIsClean
<1>7. FactoryFirst' /\ OwnedIsGood'
  BY <1>1 DEF ScanInv, FactoryFirst, OwnedIsGood
<1>8. QED
  BY <1>2, <1>5, <1>6, <1>7 DEF ScanInv

LEMMA StartScanScan ==
  ASSUME ScanInv, EraseInv, NEW k \in Bank, NEW b \in Blocks, StartScan(k, b)
  PROVE  ScanInv'
<1>1. /\ owner[b] = "free" /\ bbt[<<k, b>>] = "unknown"
      /\ scan' = [at |-> "scan", bank |-> k, block |-> b, idx |-> 0]
      /\ marks' = marks /\ bbt' = bbt /\ owner' = owner /\ erase' = erase
  BY DEF StartScan
<1>2. scan'.bank = k /\ scan'.block = b /\ scan'.idx = 0 /\ Scanning'
  BY <1>1 DEF Scanning
<1>3. ScanShape' /\ Reading'
  BY <1>1, <1>2 DEF ScanInv, ScanShape, Reading
<1>4. \A c \in Blocks : owner[c] # "factory"
  <2>1. \A c \in Blocks : owner[c] = "factory" => owner[b] = "factory"
    BY DEF ScanInv, FactoryFirst
  <2>2. QED
    BY <1>1, <2>1
<1>5. GoodIsClean' /\ FactoryFirst' /\ OwnedIsGood'
  BY <1>1, <1>4 DEF ScanInv, GoodIsClean, FactoryFirst, OwnedIsGood
<1>6. QED
  BY <1>3, <1>5 DEF ScanInv

(* A verdict on a superblock that had none, right if it is "good".          *)
LEMMA VerdictStep ==
  ASSUME ScanInv, EraseInv, scan # Idle, NEW v \in {"good", "bad"}, Scanned(v),
         v = "good" =>
           \A q \in MarkerPages : <<scan.bank, scan.block, q>> \notin marks,
         marks' = marks, owner' = owner, erase' = erase
  PROVE  ScanInv'
<1>1. /\ scan.bank \in Bank /\ scan.block \in Blocks
      /\ <<scan.bank, scan.block>> \in Bank \X Blocks
  BY ScanFields DEF ScanInv, ScanShape
<1>2. bbt' = [bbt EXCEPT ![<<scan.bank, scan.block>>] = v] /\ scan' = Idle
  BY DEF Scanned
<1>3. bbt \in [Bank \X Blocks -> {"unknown", "good", "bad"}]
  BY DEF ScanInv, ScanShape
<1>4. \A k \in Bank, b \in Blocks :
        bbt'[<<k, b>>] = IF k = scan.bank /\ b = scan.block THEN v ELSE bbt[<<k, b>>]
  BY <1>1, <1>2, <1>3
<1>5. ScanShape' /\ Reading'
  BY <1>1, <1>2, <1>3 DEF ScanInv, ScanShape, Reading
<1>6. GoodIsClean'
  BY <1>4 DEF ScanInv, GoodIsClean
<1>7. \A k \in Bank, b \in Blocks : bbt[<<k, b>>] = "good" => bbt'[<<k, b>>] = "good"
  BY <1>4 DEF ScanInv, Reading
<1>8. \A b \in Blocks : owner[b] # "factory"
  BY DEF ScanInv, FactoryFirst
<1>9. erase # Idle => erase.block \in Blocks
  BY Fields DEF EraseInv, EraseShape
<1>10. FactoryFirst' /\ OwnedIsGood'
  BY <1>7, <1>8, <1>9 DEF ScanInv, FactoryFirst, OwnedIsGood
<1>11. QED
  BY <1>5, <1>6, <1>10 DEF ScanInv

LEMMA ScanStepScan ==
  ASSUME ScanInv, EraseInv, ScanStep
  PROVE  ScanInv'
<1>1. /\ scan # Idle /\ Scanning /\ scan.idx \in 0 .. 3
  BY ScanFields DEF ScanInv, ScanShape, ScanStep
<1>2. marks' = marks /\ owner' = owner /\ erase' = erase
  BY DEF ScanStep
<1>3. CASE <<scan.bank, scan.block, ScanPage(scan.idx)>> \in marks
  <2>1. Scanned("bad")
    BY <1>3 DEF ScanStep
  <2>2. QED
    BY <1>1, <1>2, <2>1, VerdictStep
<1>4. CASE <<scan.bank, scan.block, ScanPage(scan.idx)>> \notin marks
  <2>1. \A i \in 0 .. scan.idx : <<scan.bank, scan.block, ScanPage(i)>> \notin marks
    <3>1. \A i \in 0 .. scan.idx : i \in 0 .. scan.idx - 1 \/ i = scan.idx
      BY <1>1
    <3>2. \A i \in 0 .. scan.idx - 1 : <<scan.bank, scan.block, ScanPage(i)>> \notin marks
      BY <1>1 DEF ScanInv, Reading
    <3>3. QED
      BY <1>4, <3>1, <3>2
  <2>2. CASE scan.idx + 1 < ScanReads
    <3>1. scan' = [scan EXCEPT !.idx = scan.idx + 1] /\ bbt' = bbt
      BY <1>4, <2>2 DEF ScanStep
    <3>2. scan.idx + 1 \in 0 .. 3
      BY <1>1, <2>2, ScanPages
    <3>3. /\ Scanning' /\ scan'.bank = scan.bank /\ scan'.block = scan.block
          /\ scan'.idx = scan.idx + 1
      BY <1>1, <3>1, <3>2 DEF Scanning
    <3>4. scan'.idx - 1 = scan.idx
      BY <1>1, <3>3
    <3>5. ScanShape'
      BY <1>2, <3>1, <3>3 DEF ScanInv, ScanShape
    <3>6. Reading'
      BY <1>1, <1>2, <2>1, <3>1, <3>3, <3>4 DEF ScanInv, Reading
    <3>7. GoodIsClean' /\ FactoryFirst' /\ OwnedIsGood'
      BY <1>1, <1>2, <3>1 DEF ScanInv, GoodIsClean, FactoryFirst, OwnedIsGood
    <3>8. QED
      BY <3>5, <3>6, <3>7 DEF ScanInv
  <2>3. CASE ~(scan.idx + 1 < ScanReads)
    <3>1. Scanned("good")
      BY <1>4, <2>3 DEF ScanStep
    <3>2. scan.idx = 3
      BY <1>1, <2>3, ScanPages
    <3>3. \A q \in MarkerPages : \E i \in 0 .. 3 : q = ScanPage(i)
      BY ScanPages DEF MarkerPages
    <3>4. \A q \in MarkerPages : <<scan.bank, scan.block, q>> \notin marks
      BY <2>1, <3>2, <3>3
    <3>5. QED
      BY <1>1, <1>2, <3>1, <3>4, VerdictStep
  <2>4. QED
    BY <2>2, <2>3
<1>5. QED
  BY <1>3, <1>4

LEMMA StartEraseScan ==
  ASSUME ScanInv, EraseInv, NEW b \in Blocks, StartErase(b)
  PROVE  ScanInv'
<1>1. /\ \A k \in Bank : bbt[<<k, b>>] = "good"
      /\ erase'.block = b
      /\ marks' = marks /\ bbt' = bbt /\ scan' = scan /\ owner' = owner
  BY DEF StartErase
<1>2. QED
  BY <1>1 DEF ScanInv, ScanShape, Scanning, Reading, GoodIsClean, FactoryFirst, OwnedIsGood

LEMMA PlaneOneScan ==
  ASSUME ScanInv, EraseInv, PlaneOneDone
  PROVE  ScanInv'
<1>1. /\ erase # Idle /\ erase' = Idle
      /\ owner' = [owner EXCEPT ![erase.block] = "erased"]
      /\ marks' = marks /\ bbt' = bbt /\ scan' = scan
  BY DEF PlaneOneDone, Idle
<1>2. owner \in [Blocks -> Owners] /\ erase.block \in Blocks
  BY <1>1, Fields DEF EraseInv, EraseShape
<1>3. \A b \in Blocks : owner'[b] = IF b = erase.block THEN "erased" ELSE owner[b]
  BY <1>1, <1>2
<1>4. \A k \in Bank : bbt[<<k, erase.block>>] = "good"
  BY <1>1 DEF ScanInv, OwnedIsGood
<1>5. OwnedIsGood'
  BY <1>1, <1>3, <1>4 DEF ScanInv, OwnedIsGood
<1>6. FactoryFirst'
  <2>1. owner[erase.block] = "free"
    BY <1>1 DEF EraseInv, Progress
  <2>2. \A b \in Blocks : owner'[b] # "factory"
    BY <1>2, <1>3, <2>1 DEF ScanInv, FactoryFirst
  <2>3. QED
    BY <2>2 DEF FactoryFirst
<1>7. QED
  BY <1>1, <1>5, <1>6 DEF ScanInv, ScanShape, Scanning, Reading, GoodIsClean

(* Steps that leave marks and verdicts alone, may end the scan or the       *)
(* erase, and give no hyperblock away that was not found good.              *)
LEMMA OtherScanStep ==
  ASSUME ScanInv, marks' = marks, bbt' = bbt, scan' = scan \/ scan' = Idle,
         erase' = Idle \/ (erase' # Idle /\ erase # Idle /\ erase'.block = erase.block),
         \A b \in Blocks :
           \/ owner'[b] = owner[b]
           \/ owner[b] # "factory" /\ owner'[b] = "free"
           \/ owner[b] \in {"erased", "half"} /\ owner'[b] # "factory"
  PROVE  ScanInv'
<1>1. ScanShape'
  <2>1. CASE scan' = scan
    BY <2>1 DEF ScanInv, ScanShape, Scanning
  <2>2. CASE scan' = Idle
    BY <2>2 DEF ScanInv, ScanShape
  <2>3. QED
    BY <2>1, <2>2
<1>2. Reading'
  BY DEF ScanInv, Reading
<1>3. GoodIsClean'
  BY DEF ScanInv, GoodIsClean
<1>4. FactoryFirst'
  BY DEF ScanInv, FactoryFirst
<1>5. OwnedIsGood'
  BY DEF ScanInv, OwnedIsGood
<1>6. QED
  BY <1>1, <1>2, <1>3, <1>4, <1>5 DEF ScanInv

LEMMA ScanNext == EraseInv /\ ScanInv /\ [NandNext]_nandVars => ScanInv'
<1> SUFFICES ASSUME EraseInv, ScanInv, [NandNext]_nandVars PROVE ScanInv'
  OBVIOUS
<1>1. owner \in [Blocks -> Owners]
  BY DEF EraseInv, EraseShape
<1>2. CASE ScanError \/ EraseTimeout \/ UNCHANGED nandVars
  <2>1. /\ marks' = marks /\ bbt' = bbt /\ owner' = owner
        /\ scan' = scan \/ scan' = Idle
        /\ erase' = Idle \/ erase' = erase
    BY <1>2 DEF ScanError, EraseTimeout, nandVars
  <2>2. QED
    BY <2>1, OtherScanStep
<1>3. CASE SequencerRow
  <2>1. /\ erase # Idle /\ Erasing
    BY <1>3 DEF SequencerRow, EraseInv, EraseShape
  <2>2. erase'.block = erase.block
    BY <1>3, <2>1 DEF SequencerRow, Erasing, Staged
  <2>3. marks' = marks /\ bbt' = bbt /\ scan' = scan /\ owner' = owner
    BY <1>3 DEF SequencerRow
  <2>4. QED
    BY <2>1, <2>2, <2>3, OtherScanStep
<1>4. CASE PlaneZeroDone
  <2>1. /\ erase # Idle /\ Erasing
    BY <1>4 DEF PlaneZeroDone, EraseInv, EraseShape, Idle
  <2>2. erase'.block = erase.block
    BY <1>4, <2>1 DEF PlaneZeroDone, SecondPlane, Erasing, Staged
  <2>3. marks' = marks /\ bbt' = bbt /\ scan' = scan /\ owner' = owner
    BY <1>4 DEF PlaneZeroDone
  <2>4. QED
    BY <2>1, <2>2, <2>3, OtherScanStep
<1>5. CASE PowerLoss
  <2>1. /\ marks' = marks /\ bbt' = bbt /\ scan' = Idle /\ erase' = Idle
        /\ owner' = [b \in Blocks |-> IF owner[b] = "erased" THEN "free" ELSE owner[b]]
    BY <1>5 DEF PowerLoss
  <2>2. \A b \in Blocks :
          owner'[b] = owner[b] \/ (owner[b] # "factory" /\ owner'[b] = "free")
    BY <2>1
  <2>3. QED
    BY <2>1, <2>2, OtherScanStep
<1>6. ASSUME NEW b \in Blocks, WriteHalf(b) PROVE ScanInv'
  <2>1. /\ owner[b] \in {"erased", "half"} /\ erase' = Idle
        /\ owner' = [owner EXCEPT ![b] = IF owner[b] = "erased" THEN "half" ELSE "full"]
        /\ marks' = marks /\ bbt' = bbt /\ scan' = scan
    BY <1>6 DEF WriteHalf
  <2>2. \A c \in Blocks :
          \/ owner'[c] = owner[c]
          \/ owner[c] \in {"erased", "half"} /\ owner'[c] # "factory"
    BY <1>1, <2>1
  <2>3. QED
    BY <2>1, <2>2, OtherScanStep
<1>7. ASSUME NEW b \in Blocks, Recycle(b) PROVE ScanInv'
  <2>1. /\ owner' = [owner EXCEPT ![b] = "free"] /\ owner[b] # "factory" /\ erase' = erase
        /\ marks' = marks /\ bbt' = bbt /\ scan' = scan
    BY <1>7 DEF Recycle
  <2>2. \A c \in Blocks :
          owner'[c] = owner[c] \/ (owner[c] # "factory" /\ owner'[c] = "free")
    BY <1>1, <2>1
  <2>3. QED
    BY <2>1, <2>2, OtherScanStep
<1>8. QED
  BY <1>2, <1>3, <1>4, <1>5, <1>6, <1>7, ManufactureScan, StartScanScan, ScanStepScan,
     StartEraseScan, PlaneOneScan DEF NandNext

(* No half that left the factory with a marker is ever given data to keep:  *)
(* what is erased and written was found good on every bank, by a scan that  *)
(* reads every page on which a marker may be.                               *)
THEOREM DefectsStayUnused == NandSpec => []NoDataOnDefective
<1>1. ScanInv => NoDataOnDefective
  <2> SUFFICES ASSUME ScanInv, NEW r \in Rows, owner[r.block] \in {"erased", "half", "full"},
                      Defective(r)
               PROVE  FALSE
    BY DEF NoDataOnDefective
  <2>1. PICK m \in marks : m[1] = r.bank /\ m[2] = r.block
    BY DEF Defective
  <2>2. m = <<r.bank, r.block, m[3]>> /\ m[3] \in MarkerPages
    BY <2>1 DEF ScanInv, ScanShape
  <2>3. r.bank \in Bank /\ r.block \in Blocks
    BY RowsAre
  <2>4. bbt[<<r.bank, r.block>>] = "good"
    BY <2>3 DEF ScanInv, OwnedIsGood
  <2>5. QED
    BY <2>1, <2>2, <2>3, <2>4 DEF ScanInv, GoodIsClean
<1>2. QED
  BY <1>1, EraseStarts, EraseNext, ScanStarts, ScanNext, PTL DEF NandSpec

-----------------------------------------------------------------------------
(* A page, for any number of chunks and whatever it holds: no damage is     *)
(* passed off as data and no data as nothing (VerdictIsSound); and, within  *)
(* the clamp on the number of chunks, no erased page is stamped unreadable  *)
(* (ErasedIsNotStamped).                                                    *)

Read == {"FF", "poison", "data", "FFdata", "garbage"}

(* Before the check the buffer is what the page reads as, and afterwards    *)
(* what the check has made of it.                                           *)
AsStored(b) == \A c \in Chunk : b[c] \in ReadsAs(page[c])

PageShape ==
  /\ page \in [Chunk -> Stored]
  /\ verdict \in {"none", "good", "blank", "uncorrectable"}
  /\ verdict = "none" /\ buffer # NotRead =>
       buffer \in [Chunk -> Read] /\ AsStored(buffer)

(* What the record of a page without data rests on.                         *)
Unstamped ==
  /\ verdict = "none" => ~stamped
  /\ Groups <= MaxGroups /\ verdict # "none" /\ (\A c \in Chunk : page[c] = "erased")
       => ~stamped /\ buffer[1] = "FF"

PageInv == PageShape /\ VerdictIsSound /\ Unstamped

LEMMA ChunksFinite ==
  IsFiniteSet(Chunk) /\ \A b : IsFiniteSet({c \in Chunk : ~TakenForErased(b[c])})
<1>1. IsFiniteSet(Chunk)
  BY FS_Interval, NandPagesAssumption DEF Chunk
<1>2. ASSUME NEW b PROVE IsFiniteSet({c \in Chunk : ~TakenForErased(b[c])})
  BY <1>1, FS_Subset
<1>3. QED
  BY <1>1, <1>2

(* No real chunk: every chunk has been taken for erased.                    *)
LEMMA NoRealChunk ==
  ASSUME NEW b, RealCount(b) = 0
  PROVE  \A c \in Chunk : TakenForErased(b[c])
<1>1. {c \in Chunk : ~TakenForErased(b[c])} = {}
  BY ChunksFinite, FS_EmptySet DEF RealCount
<1>2. QED
  BY <1>1

(* A page the gate lets in has no broken chunk, and scrubbing it leaves     *)
(* ones for what was erased and the data as they are.                       *)
LEMMA GateScrubs ==
  ASSUME page \in [Chunk -> Stored], buffer \in [Chunk -> Read], AsStored(buffer), Gate(page)
  PROVE  \A c \in Chunk :
           /\ page[c] # "broken"
           /\ Scrubbed(buffer)[c] = IF page[c] = "erased" THEN "FF" ELSE page[c]
           /\ TakenForErased(buffer[c]) => page[c] \in {"erased", "FFdata"}
<1> SUFFICES ASSUME NEW c \in Chunk
             PROVE  /\ page[c] # "broken"
                    /\ Scrubbed(buffer)[c] = IF page[c] = "erased" THEN "FF" ELSE page[c]
                    /\ TakenForErased(buffer[c]) => page[c] \in {"erased", "FFdata"}
  OBVIOUS
<1>1. page[c] \in {"erased", "data", "FFdata"}
  BY DEF Gate, BitErrors, Stored
<1>2. buffer[c] \in ReadsAs(page[c])
  BY DEF AsStored
<1>3. Scrubbed(buffer)[c] = IF buffer[c] = "poison" THEN "FF" ELSE buffer[c]
  BY DEF Scrubbed
<1>4. CASE page[c] = "erased"
  BY <1>2, <1>3, <1>4 DEF ReadsAs
<1>5. CASE page[c] = "data"
  BY <1>2, <1>3, <1>5 DEF ReadsAs, TakenForErased
<1>6. CASE page[c] = "FFdata"
  BY <1>2, <1>3, <1>6 DEF ReadsAs
<1>7. QED
  BY <1>1, <1>4, <1>5, <1>6

LEMMA CheckStep ==
  ASSUME PageInv, CheckEcc
  PROVE  PageInv'
<1>1. /\ page \in [Chunk -> Stored] /\ buffer \in [Chunk -> Read] /\ AsStored(buffer)
      /\ ~stamped
  BY DEF PageInv, PageShape, Unstamped, CheckEcc
<1>2. page' = page /\ stamped' = stamped /\ verdict' = FixedVerdict(page, buffer)
  BY DEF CheckEcc
<1>3. verdict' \in {"good", "blank", "uncorrectable"}
  BY <1>2 DEF FixedVerdict, StockVerdict
<1>4. PageShape'
  BY <1>1, <1>2, <1>3 DEF PageShape
<1>5. CASE Gate(page)
  <2>1. buffer' = Scrubbed(buffer) /\ Uncorrectable(page)
    BY <1>5 DEF CheckEcc, Gate
  <2>2. verdict' = "blank" => RealCount(buffer) = 0
    BY <1>2, <1>5, <2>1 DEF FixedVerdict, StockVerdict
  <2>3. VerdictIsSound'
    <3>1. ASSUME verdict' = "blank", \A c \in Chunk : page[c] # "FFdata"
          PROVE  \A c \in Chunk : page[c] = "erased"
      BY <1>1, <1>5, <2>2, <3>1, GateScrubs, NoRealChunk
    <3>2. \A c \in Chunk :
            page[c] # "broken" /\ buffer'[c] = IF page[c] = "erased" THEN "FF" ELSE page[c]
      BY <1>1, <1>5, <2>1, GateScrubs
    <3>3. QED
      BY <1>2, <3>1, <3>2 DEF VerdictIsSound
  <2>4. 1 \in Chunk
    BY NandPagesAssumption DEF Chunk
  <2>5. Unstamped'
    BY <1>1, <1>2, <1>3, <1>5, <2>1, <2>4, GateScrubs DEF Unstamped
  <2>6. QED
    BY <1>4, <2>3, <2>5 DEF PageInv
<1>6. CASE ~Gate(page)
  <2>1. buffer' = buffer /\ verdict' = StockVerdict(page)
    BY <1>2, <1>6 DEF CheckEcc, FixedVerdict
  <2>2. VerdictIsSound'
    <3>1. verdict' # "blank"
      BY <2>1 DEF StockVerdict
    <3>2. ASSUME verdict' = "good", NEW c \in Chunk
          PROVE  page[c] # "broken" /\ page[c] # "erased" /\ buffer[c] = page[c]
      <4>1. page[c] \in {"data", "FFdata"}
        BY <1>1, <2>1, <3>2 DEF StockVerdict, Uncorrectable, Stored
      <4>2. buffer[c] \in ReadsAs(page[c])
        BY <1>1 DEF AsStored
      <4>3. QED
        BY <4>1, <4>2 DEF ReadsAs
    <3>3. QED
      BY <1>2, <2>1, <3>1, <3>2 DEF VerdictIsSound
  <2>3. Unstamped'
    <3>1. 1 \in Chunk /\ Groups \in Nat /\ Groups # 0 /\ MaxGroups \in Nat
      BY NandPagesAssumption DEF Chunk
    <3>2. ASSUME Groups <= MaxGroups, \A c \in Chunk : page[c] = "erased" PROVE FALSE
      <4>1. Groups \in 1 .. MaxGroups
        BY <3>1, <3>2
      <4>2. Uncorrectable(page) /\ ~BitErrors(page)
        BY <3>1, <3>2 DEF Uncorrectable, BitErrors
      <4>3. QED
        BY <1>6, <4>1, <4>2 DEF Gate
    <3>3. QED
      BY <1>1, <1>2, <1>3, <3>2 DEF Unstamped
  <2>4. QED
    BY <1>4, <2>2, <2>3 DEF PageInv
<1>7. QED
  BY <1>5, <1>6

LEMMA PageInitInv == PageInit => PageInv
  BY DEF PageInit, PageInv, PageShape, VerdictIsSound, Unstamped, NotRead, Stored

LEMMA PageNextInv == PageInv /\ [PageNext]_pageVars => PageInv'
<1> SUFFICES ASSUME PageInv, [PageNext]_pageVars PROVE PageInv'
  OBVIOUS
<1>1. CASE ReadPage
  <2>1. /\ verdict' = "none" /\ ~stamped' /\ page' \in [Chunk -> Stored]
        /\ buffer' \in [Chunk -> Read] /\ \A c \in Chunk : buffer'[c] \in ReadsAs(page'[c])
    BY <1>1 DEF PageInv, Unstamped, ReadPage, Read
  <2>2. QED
    BY <2>1 DEF PageInv, PageShape, AsStored, VerdictIsSound, Unstamped
<1>2. CASE Relocate
  <2>1. /\ verdict \in {"blank", "uncorrectable"} /\ buffer[1] # "FF"
        /\ page' = page /\ buffer' = buffer /\ verdict' = verdict
    BY <1>2 DEF Relocate, StampWanted
  <2>2. QED
    BY <2>1 DEF PageInv, PageShape, VerdictIsSound, Unstamped
<1>3. CASE NextPage
  BY <1>3 DEF NextPage, PageInv, PageShape, VerdictIsSound, Unstamped, NotRead, Stored
<1>4. CASE UNCHANGED pageVars
  BY <1>4 DEF pageVars, PageInv, PageShape, AsStored, VerdictIsSound, Unstamped
<1>5. QED
  BY <1>1, <1>2, <1>3, <1>4, CheckStep DEF PageNext

(* Whatever the page holds and the core makes of it, a good page is         *)
(* delivered as stored and a page with data is never reported blank, but    *)
(* for a chunk that begins with a word of ones.                             *)
THEOREM VerdictSound == PageSpec => []VerdictIsSound
<1>1. PageInv => VerdictIsSound
  BY DEF PageInv
<1>2. QED
  BY <1>1, PageInitInv, PageNextInv, PTL DEF PageSpec

(* Within the clamp, the collector stamps no erased page as unreadable.     *)
THEOREM ErasedStaysUnstamped ==
  ASSUME Groups <= MaxGroups
  PROVE  PageSpec => []ErasedIsNotStamped
<1>1. PageInv => ErasedIsNotStamped
  BY DEF PageInv, Unstamped, PageShape, ErasedIsNotStamped
<1>2. QED
  BY <1>1, PageInitInv, PageNextInv, PTL DEF PageSpec

-----------------------------------------------------------------------------
(* Decrypt: recovery file and buffer hold the plaintext, and the device's   *)
(* work is kept in them, for every size of image and block (Init, Next and  *)
(* Spec are Decrypt's).                                                     *)

LEMMA Bounds ==
  /\ Block \in Nat /\ Block > 0 /\ 0 \in 0 .. Block - 1
  /\ MaxTries \in 0 .. MaxTries /\ 0 \in 0 .. MaxTries /\ 0 \in 0 .. MaxFaults
BY DecryptAssumption

(* The index of a buffer of n blocks is the number of the next.            *)
LEMMA NumberOf ==
  ASSUME NEW s \in Seq(Nat) PROVE Number(Bytes(s)) = Len(s)
<1> DEFINE n == Len(s)
<1>1. n \in Nat
  OBVIOUS
<1>2. (n * Block) \div Block = n
  <2> HIDE DEF n
  <2>1. QED
    BY <1>1, DecryptAssumption
<1>3. QED
  BY <1>2 DEF Number, Bytes

(* A block more is Block bytes more.                                        *)
LEMMA BytesOf ==
  /\ Bytes(<<>>) = 0
  /\ \A s \in Seq(Nat) : Bytes(s) \in Nat
  /\ \A s \in Seq(Nat), n \in Nat : Bytes(Append(s, n)) = Bytes(s) + Block
<1>1. 0 * Block = 0 /\ \A k \in Nat : k * Block \in Nat /\ (k + 1) * Block = k * Block + Block
  BY DecryptAssumption
<1>2. \A s \in Seq(Nat), n \in Nat : Len(s) \in Nat /\ Len(Append(s, n)) = Len(s) + 1
  OBVIOUS
<1>3. QED
  BY <1>1, <1>2 DEF Bytes

(* One more block in order is one more block of the plaintext.              *)
LEMMA AppendPlaintext ==
  ASSUME NEW s \in Seq(Nat), s = Plaintext(Len(s))
  PROVE  /\ Append(s, Len(s)) \in Seq(Nat) /\ Len(Append(s, Len(s))) = Len(s) + 1
         /\ Append(s, Len(s)) = Plaintext(Len(s) + 1)
<1> DEFINE t == Append(s, Len(s))
<1>1. t \in Seq(Nat) /\ Len(t) = Len(s) + 1
  OBVIOUS
<1>2. \A i \in 1 .. Len(t) : t[i] = i - 1
  BY DEF Plaintext
<1>3. \A u \in Seq(Nat) : u = [i \in 1 .. Len(u) |-> u[i]]
  OBVIOUS
<1>4. t = [i \in 1 .. Len(t) |-> t[i]]
  BY <1>1, <1>3
<1>5. QED
  BY <1>1, <1>2, <1>4 DEF Plaintext

LEMMA EmptyPlaintext == <<>> = Plaintext(0) /\ Len(<<>>) = 0 /\ <<>> \in Seq(Nat)
BY DEF Plaintext

(* The file cut short is still the plaintext, only less of it.              *)
LEMMA CutPlaintext ==
  ASSUME NEW s \in Seq(Nat), s = Plaintext(Len(s)), NEW n \in 0 .. Len(s)
  PROVE  LET t == SubSeq(s, 1, n) IN
         t \in Seq(Nat) /\ Len(t) = n /\ t = Plaintext(n)
<1> DEFINE t == SubSeq(s, 1, n)
<1>1. t \in Seq(Nat) /\ Len(t) = n
  OBVIOUS
<1>2. \A i \in 1 .. n : t[i] = i - 1
  BY DEF Plaintext
<1>3. \A u \in Seq(Nat) : u = [i \in 1 .. Len(u) |-> u[i]]
  OBVIOUS
<1>4. t = [i \in 1 .. Len(t) |-> t[i]]
  BY <1>1, <1>3
<1>5. QED
  BY <1>1, <1>2, <1>4 DEF Plaintext

(* The state of a run together with what it has written.                    *)
IInv == TypeOK /\ Position /\ OnlyPlaintext /\ WorkIsKept /\ OkMeansWhole

(* The counts are numbers, and the part of the image a run is at.           *)
LEMMA Types ==
  ASSUME TypeOK
  PROVE  /\ recovery \in Seq(Nat) /\ w \in Seq(Nat) /\ Len(recovery) \in Nat /\ Len(w) \in Nat
         /\ work \in Nat /\ lost \in Nat /\ faults \in Nat /\ ix \in Nat /\ torn \in Nat
         /\ \A t \in 0 .. torn : t \in 0 .. Block - 1
<1>1. recovery \in Seq(Nat) /\ w \in Seq(Nat) /\ ix \in Nat /\ work \in Nat /\ lost \in Nat
  BY DEF TypeOK
<1>2. torn \in 0 .. Block - 1 /\ faults \in 0 .. MaxFaults /\ Block \in Nat /\ MaxFaults \in Nat
  BY DecryptAssumption DEF TypeOK
<1>3. Len(recovery) \in Nat /\ Len(w) \in Nat
  BY <1>1
<1>4. QED
  BY <1>1, <1>2, <1>3

(* A fault is one of those allowed.                                         *)
LEMMA FaultType ==
  ASSUME TypeOK, Fault
  PROVE  faults' \in 0 .. MaxFaults /\ faults' = faults + 1 /\ faults \in Nat
<1>1. faults \in 0 .. MaxFaults /\ MaxFaults \in Nat
  BY DecryptAssumption DEF TypeOK
<1>2. QED
  BY <1>1 DEF Fault

LEMMA InitInv == Init => IInv
<1> SUFFICES ASSUME Init PROVE IInv
  OBVIOUS
<1>1. TypeOK
  BY EmptyPlaintext, Bounds DEF Init, TypeOK
<1>2. Position
  BY DEF Init, Position
<1>3. OnlyPlaintext
  BY EmptyPlaintext, BytesOf, DecryptAssumption DEF Init, OnlyPlaintext
<1>4. WorkIsKept /\ OkMeansWhole
  BY EmptyPlaintext DEF Init, WorkIsKept, OkMeansWhole
<1>5. QED
  BY <1>1, <1>2, <1>3, <1>4 DEF IInv

(* The steps that write nothing: a run begins, chooses, asks or gives up.   *)
LEMMA QuietStep ==
  ASSUME IInv, Start \/ InvalidSize \/ OpenFails \/ NoRecovery \/ Slice \/ TriggerFails
  PROVE  IInv'
<1> USE DEF IInv, Exit, file, history
<1>1. CASE Start
  <2>1. TypeOK'
    BY <1>1, EmptyPlaintext DEF Start, TypeOK
  <2>2. Position'
    BY <1>1 DEF Start, Position
  <2>3. OnlyPlaintext'
    BY <1>1, EmptyPlaintext, BytesOf, DecryptAssumption DEF Start, OnlyPlaintext
  <2>4. WorkIsKept' /\ OkMeansWhole'
    BY <1>1 DEF Start, WorkIsKept, OkMeansWhole
  <2>5. QED
    BY <2>1, <2>2, <2>3, <2>4
<1>2. CASE InvalidSize
  BY <1>2 DEF InvalidSize, TypeOK, Position, WorkIsKept, OkMeansWhole, OnlyPlaintext
<1>3. CASE OpenFails
  BY <1>3 DEF OpenFails, TypeOK, Position, WorkIsKept, OkMeansWhole, OnlyPlaintext
<1>4. CASE NoRecovery
  BY <1>4, BytesOf DEF NoRecovery, TypeOK, Position, WorkIsKept, OkMeansWhole, OnlyPlaintext
<1>5. CASE Slice
  <2>1. TypeOK'
    BY <1>5, Bounds DEF Slice, TypeOK
  <2>2. Position'
    BY <1>5 DEF Slice, Position
  <2>3. OnlyPlaintext'
    BY <1>5 DEF Slice, OnlyPlaintext
  <2>4. WorkIsKept' /\ OkMeansWhole'
    BY <1>5 DEF Slice, WorkIsKept, OkMeansWhole
  <2>5. QED
    BY <2>1, <2>2, <2>3, <2>4
<1>6. CASE TriggerFails
  <2>1. TypeOK'
    <3>1. tries' \in 0 .. MaxTries
      <4>1. tries \in 0 .. MaxTries /\ MaxTries \in Nat
        BY DecryptAssumption DEF TypeOK
      <4>2. CASE tries' = tries
        BY <4>1, <4>2
      <4>3. CASE tries >= 1 /\ tries' = tries - 1
        BY <4>1, <4>3
      <4>4. QED
        BY <1>6, <4>2, <4>3 DEF TriggerFails
    <3>2. QED
      BY <1>6, <3>1 DEF TriggerFails, TypeOK
  <2>2. Position'
    BY <1>6 DEF TriggerFails, Position
  <2>3. OnlyPlaintext'
    BY <1>6 DEF TriggerFails, OnlyPlaintext
  <2>4. WorkIsKept' /\ OkMeansWhole'
    BY <1>6 DEF TriggerFails, WorkIsKept, OkMeansWhole
  <2>5. QED
    BY <2>1, <2>2, <2>3, <2>4
<1>7. QED
  BY <1>1, <1>2, <1>3, <1>4, <1>5, <1>6

(* Between the choice of a run and its answer from the device.              *)
LEMMA DeviceStep ==
  ASSUME IInv, OpenRecovery \/ Trigger \/ Killed \/ RecordFails
  PROVE  IInv'
<1> USE DEF IInv, Exit, file, history
<1>1. CASE OpenRecovery
  <2>1. TypeOK'
    <3>1. ix' \in Nat
      BY <1>1, BytesOf DEF OpenRecovery, TypeOK
    <3>2. QED
      BY <1>1, <3>1 DEF OpenRecovery, TypeOK
  <2>2. Position'
    BY <1>1 DEF OpenRecovery, Position, OnlyPlaintext
  <2>3. OnlyPlaintext'
    BY <1>1 DEF OpenRecovery, OnlyPlaintext
  <2>4. WorkIsKept' /\ OkMeansWhole'
    BY <1>1 DEF OpenRecovery, WorkIsKept, OkMeansWhole, Position
  <2>5. QED
    BY <2>1, <2>2, <2>3, <2>4
<1>2. CASE Trigger
  BY <1>2 DEF Trigger, TypeOK, Position, WorkIsKept, OkMeansWhole, OnlyPlaintext
<1>3. CASE Killed
  <2>1. TypeOK'
    BY <1>3, FaultType DEF Killed, TypeOK
  <2>2. Position' /\ OnlyPlaintext' /\ OkMeansWhole'
    BY <1>3 DEF Killed, Position, OnlyPlaintext, OkMeansWhole
  <2>3. WorkIsKept'
    <3>1. faults' = faults + 1 /\ faults \in Nat /\ Len(recovery) \in Nat /\ UNCHANGED <<recovery, work, lost>>
      BY <1>3, FaultType, Types DEF Killed
    <3>2. work \in Nat /\ lost \in Nat /\ pc' = "idle"
      BY <1>3, Types DEF Killed
    <3>3. QED
      BY <3>1, <3>2 DEF WorkIsKept
  <2>4. QED
    BY <2>1, <2>2, <2>3
<1>4. CASE RecordFails
  <2>1. TypeOK'
    BY <1>4, FaultType DEF RecordFails, TypeOK
  <2>2. Position' /\ OnlyPlaintext' /\ OkMeansWhole'
    BY <1>4 DEF RecordFails, Position, OnlyPlaintext, OkMeansWhole
  <2>3. WorkIsKept'
    <3>1. faults' = faults + 1 /\ faults \in Nat /\ Len(recovery) \in Nat /\ UNCHANGED <<recovery, work, lost>>
      BY <1>4, FaultType, Types DEF RecordFails
    <3>2. work \in Nat /\ lost \in Nat /\ pc' = "idle"
      BY <1>4, Types DEF RecordFails
    <3>3. QED
      BY <3>1, <3>2 DEF WorkIsKept
  <2>4. QED
    BY <2>1, <2>2, <2>3
<1>5. QED
  BY <1>1, <1>2, <1>3, <1>4

(* The two writes of a block, to the file and to the buffer.                *)
LEMMA WriteStep ==
  ASSUME IInv, Record \/ AppendBlock
  PROVE  IInv'
<1> USE DEF IInv, file, history
<1>1. /\ pc \in {"record", "append"} /\ ix = Bytes(w) /\ ix <= InLen /\ Number(ix) = Len(w)
      /\ w \in Seq(Nat) /\ recovery \in Seq(Nat) /\ ix \in Nat /\ Len(w) \in Nat
  <2>1. pc \in {"record", "append"}
    BY DEF Record, AppendBlock
  <2>2. ix = Bytes(w) /\ ix <= InLen
    BY <2>1 DEF Position
  <2>3. QED
    BY <2>1, <2>2, NumberOf, Types
<1>2. /\ Append(w, Len(w)) \in Seq(Nat) /\ Len(Append(w, Len(w))) = Len(w) + 1
      /\ Append(w, Len(w)) = Plaintext(Len(w) + 1)
      /\ Bytes(Append(w, Len(w))) = ix + Block
  BY <1>1, AppendPlaintext, BytesOf DEF OnlyPlaintext
<1>3. ix + Block < InLen + 2 * Block /\ ix + Block \in Nat
  BY <1>1, DecryptAssumption
<1>4. CASE Record
  <2>1. recording => recovery = w /\ recovery' = Append(w, Len(w))
    BY <1>1, <1>4 DEF Record, Position
  <2>2. TypeOK'
    BY <1>2, <1>4, <2>1 DEF Record, TypeOK
  <2>3. Position'
    BY <1>4, <2>1 DEF Record, Position
  <2>4. OnlyPlaintext'
    BY <1>2, <1>3, <1>4, <2>1 DEF Record, OnlyPlaintext
  <2>5. WorkIsKept'
    <3>1. recording' = recording /\ pc = "record" /\ pc' = "append" /\ UNCHANGED <<work, lost, faults>>
      BY <1>4 DEF Record
    <3>2. Len(recovery') = IF recording THEN Len(recovery) + 1 ELSE Len(recovery)
      BY <1>2, <1>4, <2>1 DEF Record
    <3>3. QED
      BY <3>1, <3>2, Types DEF WorkIsKept
  <2>6. OkMeansWhole'
    BY <1>4 DEF Record, OkMeansWhole
  <2>7. QED
    BY <2>2, <2>3, <2>4, <2>5, <2>6
<1>5. CASE AppendBlock
  <2>1. w' = Append(w, Len(w)) /\ ix' = ix + Block
    BY <1>1, <1>5 DEF AppendBlock
  <2>2. TypeOK'
    BY <1>2, <1>3, <1>5, <2>1 DEF AppendBlock, TypeOK
  <2>3. Position'
    BY <1>2, <1>3, <1>5, <2>1 DEF AppendBlock, Position
  <2>4. OnlyPlaintext'
    BY <1>2, <1>3, <1>5, <2>1 DEF AppendBlock, OnlyPlaintext
  <2>5. WorkIsKept'
    BY <1>5 DEF AppendBlock, WorkIsKept
  <2>6. OkMeansWhole'
    BY <1>2, <1>5, <2>1 DEF AppendBlock, OkMeansWhole, Position
  <2>7. QED
    BY <2>2, <2>3, <2>4, <2>5, <2>6
<1>6. QED
  BY <1>4, <1>5

(* A power cut leaves less of the file, and counts what it took.            *)
LEMMA PowerCutStep ==
  ASSUME IInv, PowerCut
  PROVE  IInv'
<1> USE DEF IInv, Exit, file, history
<1>1. PICK n \in 0 .. Len(recovery) :
        /\ recovery' = SubSeq(recovery, 1, n)
        /\ torn' \in IF n < Len(recovery) THEN 0 .. Block - 1 ELSE 0 .. torn
        /\ lost' = lost + (Len(recovery) - n)
  BY DEF PowerCut
<1>2. recovery' \in Seq(Nat) /\ Len(recovery') = n /\ recovery' = Plaintext(n)
  BY <1>1, CutPlaintext DEF TypeOK, OnlyPlaintext
<1>3. Len(recovery) \in Nat /\ n \in Nat /\ n <= Len(recovery)
  BY Types
<1>4. \A k, m \in Nat : k <= m => k * Block <= m * Block /\ k * Block \in Nat /\ m * Block \in Nat
  BY DecryptAssumption
<1>5. Bytes(recovery') <= Bytes(recovery) /\ Bytes(recovery') \in Nat /\ Bytes(recovery) \in Nat
  BY <1>2, <1>3, <1>4 DEF Bytes
<1>6. TypeOK'
  <2>1. torn' \in 0 .. Block - 1
    BY <1>1, Types
  <2>2. lost' \in Nat
    BY <1>1, <1>3, Types, SMTT(30)
  <2>3. faults' \in 0 .. MaxFaults
    BY FaultType DEF PowerCut
  <2>4. QED
    BY <1>2, <2>1, <2>2, <2>3 DEF TypeOK, PowerCut
<1>7. Position' /\ OkMeansWhole'
  BY DEF Position, OkMeansWhole, PowerCut
<1>8. OnlyPlaintext'
  BY <1>2, <1>5, DecryptAssumption DEF OnlyPlaintext, PowerCut
<1>9. WorkIsKept'
  <2>1. faults' = faults + 1 /\ faults \in Nat /\ work \in Nat /\ lost \in Nat
    BY FaultType, Types DEF PowerCut
  <2>2. work' = work /\ lost' = lost + (Len(recovery) - n) /\ pc' = "idle"
    BY <1>1 DEF PowerCut
  <2>3. QED
    BY <1>2, <1>3, <2>1, <2>2 DEF WorkIsKept
<1>10. QED
  BY <1>6, <1>7, <1>8, <1>9

(* No interruption leaves the file other than the start of the plaintext,   *)
(* nor costs the device more than the block it was at and what the disk     *)
(* lost; and a run that succeeds has decrypted every block.                 *)
THEOREM RecoveryCorrect ==
  Spec => [](TypeOK /\ Position /\ OnlyPlaintext /\ WorkIsKept /\ OkMeansWhole)
<1>1. Init => IInv
  BY InitInv
<1>2. IInv /\ [Next]_vars => IInv'
  <2> SUFFICES ASSUME IInv, [Next]_vars PROVE IInv'
    OBVIOUS
  <2>1. CASE Next
    BY <2>1, QuietStep, DeviceStep, WriteStep, PowerCutStep DEF Next, Host
  <2>2. CASE UNCHANGED vars
    BY <2>2 DEF vars, IInv, TypeOK, Position, OnlyPlaintext, WorkIsKept, OkMeansWhole
  <2>3. QED
    BY <2>1, <2>2
<1>3. QED
  BY <1>1, <1>2, PTL DEF Spec, IInv

(* What a recovery file holds, and what a run resumed from it returns, is   *)
(* the plaintext from its start, block by block.                            *)
THEOREM OnlyPlaintextKept == Spec => []OnlyPlaintext
BY RecoveryCorrect, PTL

(* A run that reports success has a block for every byte of the image.      *)
THEOREM SuccessIsWhole == Spec => []OkMeansWhole
BY RecoveryCorrect, PTL
-----------------------------------------------------------------------------
(* Firmware bundles: any number of files of any lengths.                    *)

Valid == Cardinality(ValidFiles(bundle.files))

(* sectionOffsets, as far as it is filled: every file has its room.         *)
Placed ==
  /\ ~HasGap(bundle.files)
  /\ offsets \in Seq(Nat) /\ Len(offsets) \in 1 .. Valid + 1
  /\ offsets[1] = FirstOffset
  /\ \A i, j \in 1 .. Len(offsets) :
       i < j => offsets[i] + Room(bundle.files[i]) <= offsets[j]

(* The generation is one that the files' own images tell.                   *)
SlotsHeld ==
  /\ bundle = [kind |-> bundle.kind, files |-> bundle.files]
  /\ AsParsed(bundle.files) /\ bundle.kind \in Guesses(bundle.files)

MseInv ==
  /\ msePc \in {"parsed", "edited", "placing", "serialized", "parsed again"} => SlotsHeld
  /\ msePc \in {"placing", "serialized", "parsed again"} => Placed
  /\ msePc \in {"serialized", "parsed again"} =>
       blob = Layout(bundle, offsets) /\ Len(offsets) = Valid + 1
  /\ RoundTrip

LEMMA ValidFilesFinite ==
  ASSUME NEW files, AsParsed(files)
  PROVE  /\ DOMAIN files = 1 .. Len(files) /\ Len(files) \in Nat
         /\ \A i \in DOMAIN files : files[i] \in FileEntries
         /\ Cardinality(ValidFiles(files)) \in Nat
<1>1. DOMAIN files = 1 .. Len(files) /\ Len(files) \in Nat
      /\ \A i \in DOMAIN files : files[i] \in FileEntries
  BY DEF AsParsed
<1>2. IsFiniteSet(1 .. Len(files))
  BY <1>1, FS_Interval
<1>3. ValidFiles(files) \subseteq 1 .. Len(files)
  BY <1>1 DEF ValidFiles
<1> QED
  BY <1>1, <1>2, <1>3, FS_Subset, FS_CardinalityType

LEMMA RoomSuffices ==
  ASSUME NEW f \in FileEntries
  PROVE  /\ Room(f) \in Nat
         /\ Room(f) >= f.data.len + (IF f.prefix THEN Page ELSE 0)
<1> DEFINE n == f.data.len + (IF f.prefix THEN Page ELSE 0)
<1>1. n \in Nat
  BY DEF FileEntries, Contents, Page
<1> HIDE DEF n
<1>2. RoundUp(n) \in Nat /\ RoundUp(n) >= n
  BY <1>1 DEF RoundUp, Page
<1> QED
  BY <1>2 DEF Room, n

(* Edits change no SoC code, and with that not what is guessed.             *)
LEMMA SameGuesses ==
  ASSUME NEW f, NEW g, DOMAIN f = DOMAIN g,
         \A i \in DOMAIN f : f[i].valid = g[i].valid /\ f[i].data.soc = g[i].data.soc
  PROVE  Guesses(f) = Guesses(g)
<1>1. ValidFiles(f) = ValidFiles(g)
  BY DEF ValidFiles
<1>2. \A s : Occurrences(f, s) = Occurrences(g, s)
  <2> SUFFICES ASSUME NEW s PROVE Occurrences(f, s) = Occurrences(g, s)
    OBVIOUS
  <2>1. {i \in ValidFiles(f) : f[i].data.soc = s} = {i \in ValidFiles(g) : g[i].data.soc = s}
    BY <1>1 DEF ValidFiles
  <2> QED
    BY <2>1 DEF Occurrences
<1>3. {s \in SoCs : Occurrences(f, s) > 0 /\ \A t \in SoCs : Occurrences(f, t) <= Occurrences(f, s)}
      = {s \in SoCs : Occurrences(g, s) > 0 /\ \A t \in SoCs : Occurrences(g, t) <= Occurrences(g, s)}
  BY <1>2
<1> QED
  BY <1>3, Zenon DEF Guesses

(* A file whose length, name or contents are edited is still one.           *)
LEMMA EditedFile ==
  ASSUME NEW files, AsParsed(files), NEW i \in DOMAIN files, NEW e \in FileEntries,
         e.valid = files[i].valid, e.prefix = files[i].prefix,
         e.data.zeros = files[i].data.zeros, e.data.soc = files[i].data.soc,
         IF e.valid THEN e.data.len > 0 ELSE e.data = files[i].data
  PROVE  /\ AsParsed([files EXCEPT ![i] = e])
         /\ Guesses([files EXCEPT ![i] = e]) = Guesses(files)
<1> DEFINE g == [files EXCEPT ![i] = e]
<1>1. g \in Seq(FileEntries) /\ DOMAIN g = DOMAIN files
  BY DEF AsParsed
<1>2. \A j \in DOMAIN files : g[j] = IF j = i THEN e ELSE files[j]
  BY ValidFilesFinite
<1> HIDE DEF g
<1>3. \A j \in DOMAIN g :
        IF g[j].valid THEN g[j].data.len > 0 /\ (g[j].data.zeros => g[j].prefix)
        ELSE ~g[j].prefix /\ g[j].data = NoData
  BY <1>1, <1>2 DEF AsParsed
<1>4. AsParsed(g)
  BY <1>1, <1>3 DEF AsParsed
<1>5. \A j \in DOMAIN g : g[j].valid = files[j].valid /\ g[j].data.soc = files[j].data.soc
  BY <1>1, <1>2
<1>6. Guesses(g) = Guesses(files)
  BY <1>1, <1>5, SameGuesses
<1> QED
  BY <1>4, <1>6 DEF g

(* What Parse makes of one file of a blob in which nothing overlaps.        *)
LEMMA ParsedAsWritten ==
  ASSUME SlotsHeld, Placed, Len(offsets) = Valid + 1, blob = Layout(bundle, offsets),
         NEW k, (k = "n3g") <=> (bundle.kind = "n3g"),
         NEW i \in 1 .. Valid
  PROVE  ParseFile(blob, blob.headers[i], k) = bundle.files[i]
<1> DEFINE files == bundle.files
           f == files[i]
           p == [at |-> offsets[i], file |-> f]
           h == blob.headers[i]
<1>1. /\ DOMAIN files = 1 .. Len(files) /\ Len(files) \in Nat /\ Valid \in Nat
      /\ \A j \in DOMAIN files : files[j] \in FileEntries
  BY ValidFilesFinite DEF SlotsHeld, Valid
<1>2. ValidFiles(files) = 1 .. Valid
  BY DEF Placed, HasGap, Valid
<1>3. \A j \in 1 .. Valid : /\ j \in DOMAIN files /\ files[j].valid
                            /\ files[j].data.len > 0
                            /\ files[j].data.zeros => files[j].prefix
  BY <1>2 DEF ValidFiles, SlotsHeld, AsParsed
<1>4. \A j \in 1 .. Valid : /\ offsets[j] \in Nat /\ offsets[j] >= FirstOffset
                            /\ Room(files[j]) \in Nat
                            /\ Room(files[j]) >= files[j].data.len + (IF files[j].prefix THEN Page ELSE 0)
  <2> SUFFICES ASSUME NEW j \in 1 .. Valid
               PROVE  /\ offsets[j] \in Nat /\ offsets[j] >= FirstOffset
                      /\ Room(files[j]) \in Nat
                      /\ Room(files[j]) >= files[j].data.len + (IF files[j].prefix THEN Page ELSE 0)
    OBVIOUS
  <2>1. Room(files[j]) \in Nat
        /\ Room(files[j]) >= files[j].data.len + (IF files[j].prefix THEN Page ELSE 0)
    BY <1>1, <1>3, RoomSuffices
  <2>2. offsets[j] \in Nat /\ offsets[1] \in Nat
    BY <1>1 DEF Placed
  <2>3. Room(files[1]) \in Nat
    BY <1>1, <1>3, RoomSuffices
  <2>4. offsets[j] >= offsets[1]
    <3>1. CASE j = 1
      BY <3>1, <2>2
    <3>2. CASE j # 1
      <4>1. offsets[1] + Room(files[1]) <= offsets[j]
        BY <3>2, <1>1 DEF Placed
      <4> QED
        BY <4>1, <2>2, <2>3
    <3> QED
      BY <3>1, <3>2
  <2> QED
    BY <2>1, <2>2, <2>4 DEF Placed
<1>5. \A j \in 1 .. Valid : \A l \in 1 .. Valid + 1 :
        j < l => offsets[j] + Room(files[j]) <= offsets[l]
  BY <1>1 DEF Placed
<1>6. offsets[Valid + 1] \in Nat
  BY <1>1 DEF Placed
<1>7. \A j \in 1 .. Valid : files[j].data.len \in Nat /\ files[j].prefix \in BOOLEAN
                            /\ files[j].data.zeros \in BOOLEAN
  BY <1>1, <1>3 DEF FileEntries, Contents
<1>8. /\ blob.pieces = {[at |-> offsets[j], file |-> files[j]] : j \in 1 .. Valid}
      /\ blob.end = offsets[Valid + 1]
      /\ h = [name |-> f.name, valid |-> f.valid, offset |-> offsets[i],
              length |-> DirectoryLength(bundle.kind, f)]
  BY <1>1, <1>3 DEF Layout, Valid
<1> DEFINE E(j) == EndOf([at |-> offsets[j], file |-> files[j]])
<1>18. \A j \in 1 .. Valid : /\ E(j) \in Nat /\ offsets[j] < E(j)
                             /\ E(j) <= offsets[j] + Room(files[j])
  <2> SUFFICES ASSUME NEW j \in 1 .. Valid
               PROVE  /\ E(j) \in Nat /\ offsets[j] < E(j)
                      /\ E(j) <= offsets[j] + Room(files[j])
    OBVIOUS
  <2>1. E(j) = offsets[j] + files[j].data.len + (IF files[j].prefix THEN Page ELSE 0)
    BY DEF EndOf
  <2>2. /\ files[j].data.len > 0 /\ files[j].data.len \in Nat
        /\ offsets[j] \in Nat /\ Room(files[j]) \in Nat
        /\ Room(files[j]) >= files[j].data.len + (IF files[j].prefix THEN Page ELSE 0)
    BY <1>3, <1>4, <1>7
  <2> HIDE DEF E, files
  <2>3. CASE files[j].prefix
    BY <2>1, <2>2, <2>3 DEF Page
  <2>4. CASE ~files[j].prefix
    BY <2>1, <2>2, <2>4 DEF Page
  <2> QED
    BY <2>3, <2>4
<1>9. \A q \in blob.pieces : q # p =>
        /\ q.at # p.at
        /\ EndOf(q) <= p.at \/ EndOf(p) <= q.at
  <2> SUFFICES ASSUME NEW j \in 1 .. Valid, j # i
               PROVE  offsets[j] # offsets[i] /\ (E(j) <= offsets[i] \/ E(i) <= offsets[j])
    BY <1>8
  <2> HIDE DEF E, files
  <2>1. CASE j < i
    <3>1. offsets[j] + Room(files[j]) <= offsets[i]
      BY <2>1, <1>1, <1>5
    <3> QED
      BY <3>1, <1>4, <1>18
  <2>2. CASE i < j
    <3>1. offsets[i] + Room(files[i]) <= offsets[j]
      BY <2>2, <1>1, <1>5
    <3> QED
      BY <3>1, <1>4, <1>18, SMTT(30)
  <2> QED
    BY <2>1, <2>2
<1>10. p \in blob.pieces
  BY <1>8
<1>11. (CHOOSE q \in blob.pieces : q.at = h.offset) = p
  <2>1. h.offset = p.at
    BY <1>8
  <2>2. \A q \in blob.pieces : q.at = h.offset <=> q = p
    BY <2>1, <1>9
  <2> QED
    BY <2>2, <1>10
<1>12. Intact(p, blob)
  <2>1. p.at >= Directory + 640
    BY <1>4 DEF Directory, FirstOffset
  <2>2. EndOf(p) <= blob.end
    <3>1. offsets[i] + Room(f) <= offsets[Valid + 1]
      BY <1>1, <1>5
    <3>2. EndOf(p) = E(i) /\ f = files[i]
      OBVIOUS
    <3> HIDE DEF E, p, f, files
    <3> QED
      BY <3>1, <3>2, <1>4, <1>6, <1>8, <1>18
  <2>3. \A q \in blob.pieces \ {p} : EndOf(p) <= q.at \/ EndOf(q) <= p.at
    BY <1>9
  <2> QED
    BY <2>1, <2>2, <2>3 DEF Intact
<1>13. h.length + (IF k = "n3g" THEN Page ELSE 0) = f.data.len
  BY <1>7, <1>8 DEF DirectoryLength, Page
<1>14. (f.prefix \/ f.data.zeros) = f.prefix
  BY <1>3, <1>7
<1>15. f = [name |-> f.name, valid |-> TRUE, prefix |-> f.prefix, data |-> f.data]
  BY <1>1, <1>3 DEF FileEntries
<1>16. h.name = f.name
  BY <1>8
<1>17. p.file = f
  OBVIOUS
<1> HIDE DEF files, f, p, h
<1>19. ParseFile(blob, h, k) = [name |-> f.name, valid |-> TRUE, prefix |-> f.prefix, data |-> f.data]
  BY <1>11, <1>12, <1>13, <1>14, <1>16, <1>17 DEF ParseFile
<1> QED
  BY <1>15, <1>19 DEF f, h, files

(* Written and parsed, a bundle's files are what they were.                 *)
LEMMA ParsedIsBundle ==
  ASSUME SlotsHeld, Placed, Len(offsets) = Valid + 1, blob = Layout(bundle, offsets),
         NEW k, (k = "n3g") <=> (bundle.kind = "n3g")
  PROVE  Parsed(blob, k) = bundle.files
<1> DEFINE files == bundle.files
<1>1. /\ DOMAIN files = 1 .. Len(files) /\ Len(files) \in Nat /\ Valid \in Nat
      /\ \A j \in DOMAIN files : files[j] \in FileEntries
      /\ files \in Seq(FileEntries)
  BY ValidFilesFinite DEF SlotsHeld, Valid, AsParsed
<1>2. ValidFiles(files) = 1 .. Valid
  BY DEF Placed, HasGap, Valid
<1>3. /\ DOMAIN blob.headers = DOMAIN files
      /\ \A i \in DOMAIN files : blob.headers[i].valid = files[i].valid
                                 /\ blob.headers[i].name = files[i].name
  BY DEF Layout
<1>4. \A i \in DOMAIN files : Parsed(blob, k)[i] = files[i]
  <2> SUFFICES ASSUME NEW i \in DOMAIN files PROVE Parsed(blob, k)[i] = files[i]
    OBVIOUS
  <2>1. CASE files[i].valid
    <3>1. i \in 1 .. Valid
      BY <2>1, <1>2 DEF ValidFiles
    <3>2. ParseFile(blob, blob.headers[i], k) = files[i]
      BY <3>1, ParsedAsWritten
    <3> QED
      BY <2>1, <3>2, <1>3 DEF Parsed
  <2>2. CASE ~files[i].valid
    <3>1. files[i].prefix = FALSE /\ files[i].data = NoData /\ files[i].valid = FALSE
      BY <2>2, <1>1 DEF SlotsHeld, AsParsed, FileEntries
    <3>2. files[i] = [name |-> files[i].name, valid |-> FALSE, prefix |-> FALSE, data |-> NoData]
      BY <3>1, <1>1 DEF FileEntries
    <3> QED
      BY <2>2, <3>2, <1>3 DEF Parsed
  <2> QED
    BY <2>1, <2>2
<1>5. Parsed(blob, k) = [i \in DOMAIN files |-> Parsed(blob, k)[i]]
  BY <1>3 DEF Parsed
<1>6. files = [i \in DOMAIN files |-> files[i]]
  BY <1>1
<1> HIDE DEF files
<1>7. Parsed(blob, k) = files
  BY <1>4, <1>5, <1>6, Zenon
<1> QED
  BY <1>7 DEF files

LEMMA KeepsGeneration ==
  ASSUME NEW files, Unambiguous(files), NEW k \in Guesses(files), NEW l \in Guesses(files)
  PROVE  (k = "n3g") <=> (l = "n3g")
BY DEF Unambiguous

(* One more offset, behind the last one by the room of the file before it.  *)
LEMMA PlacedFurther ==
  ASSUME SlotsHeld, Placed, Len(offsets) <= Valid, PlaceFile
  PROVE  Placed'
<1> DEFINE n == Len(offsets)
           files == bundle.files
<1>1. /\ DOMAIN files = 1 .. Len(files) /\ Len(files) \in Nat /\ Valid \in Nat
      /\ \A j \in DOMAIN files : files[j] \in FileEntries
  BY ValidFilesFinite DEF SlotsHeld, Valid
<1>2. ValidFiles(files) = 1 .. Valid
  BY DEF Placed, HasGap, Valid
<1>3. \A j \in 1 .. Valid : Room(files[j]) \in Nat
  BY <1>1, <1>2, RoomSuffices DEF ValidFiles
<1>4. n \in 1 .. Valid /\ n \in Nat /\ \A j \in 1 .. n : offsets[j] \in Nat
  BY <1>1 DEF Placed
<1>5. bundle' = bundle /\ offsets' = Append(offsets, offsets[n] + Room(files[n]))
  BY DEF PlaceFile
<1>6. offsets[n] + Room(files[n]) \in Nat
  BY <1>3, <1>4
<1>7. /\ offsets' \in Seq(Nat) /\ Len(offsets') = n + 1
      /\ \A j \in 1 .. n : offsets'[j] = offsets[j]
      /\ offsets'[n + 1] = offsets[n] + Room(files[n])
  BY <1>4, <1>5, <1>6 DEF Placed
<1>8. ASSUME NEW i \in 1 .. n + 1, NEW j \in 1 .. n + 1, i < j
      PROVE  offsets'[i] + Room(files[i]) <= offsets'[j]
  <2>1. i \in 1 .. n
    BY <1>4, <1>8
  <2>2. CASE j \in 1 .. n
    BY <2>1, <2>2, <1>4, <1>7, <1>8 DEF Placed
  <2>3. CASE j = n + 1 /\ i = n
    <3>1. Room(files[i]) \in Nat
      BY <2>1, <1>1, <1>3, <1>4
    <3> QED
      BY <2>3, <3>1, <1>4, <1>6, <1>7
  <2>4. CASE j = n + 1 /\ i # n
    <3>1. offsets[i] + Room(files[i]) <= offsets[n]
      BY <2>1, <2>4, <1>4 DEF Placed
    <3>2. Room(files[i]) \in Nat /\ Room(files[n]) \in Nat
      BY <2>1, <1>1, <1>3, <1>4
    <3>3. offsets'[i] = offsets[i] /\ offsets'[j] = offsets[n] + Room(files[n])
      BY <2>1, <2>4, <1>7
    <3>4. offsets[i] \in Nat /\ offsets[n] \in Nat
      BY <2>1, <1>4
    <3> QED
      BY <3>1, <3>2, <3>3, <3>4
  <2> QED
    BY <2>2, <2>3, <2>4, <1>4
<1>9. Valid' = Valid
  BY <1>5 DEF Valid
<1>10. offsets'[1] = FirstOffset
  BY <1>4, <1>7 DEF Placed
<1> QED
  BY <1>1, <1>4, <1>5, <1>7, <1>8, <1>9, <1>10 DEF Placed

(* The two edits leave a bundle that Parse could have returned.             *)
LEMMA EditsHold ==
  ASSUME SlotsHeld,
         (\E i \in DOMAIN bundle.files, n \in NewLengths : SetData(i, n))
         \/ (Hax /\ msePc' = "edited")
  PROVE  SlotsHeld'
<1> DEFINE files == bundle.files
<1>1. /\ DOMAIN files = 1 .. Len(files) /\ AsParsed(files)
      /\ \A j \in DOMAIN files : files[j] \in FileEntries
  BY ValidFilesFinite DEF SlotsHeld
<1>2. SUFFICES ASSUME NEW g, AsParsed(g), Guesses(g) = Guesses(files),
                      bundle' = [bundle EXCEPT !.files = g]
               PROVE  SlotsHeld'
  <2>1. ASSUME NEW i \in DOMAIN bundle.files, NEW n \in NewLengths, SetData(i, n)
        PROVE  \E g : /\ AsParsed(g) /\ Guesses(g) = Guesses(files)
                      /\ bundle' = [bundle EXCEPT !.files = g]
    <3> DEFINE e == [files[i] EXCEPT !.data.len = n]
               g == [files EXCEPT ![i] = e]
    <3>1. files[i] \in FileEntries /\ n \in Nat \ {0} /\ files[i].valid
      BY <2>1, <1>1, BundleAssumption DEF SetData, ValidFiles
    <3>2. /\ e \in FileEntries /\ e.valid = files[i].valid /\ e.prefix = files[i].prefix
          /\ e.data.zeros = files[i].data.zeros /\ e.data.soc = files[i].data.soc
          /\ e.data.len = n
      BY <3>1 DEF FileEntries, Contents
    <3>3. bundle' = [bundle EXCEPT !.files = g]
      BY <2>1, <1>1 DEF SetData, SlotsHeld
    <3>4. AsParsed(g) /\ Guesses(g) = Guesses(files)
      <4>1. n > 0
        BY <3>1
      <4> HIDE DEF e, files
      <4>2. IF e.valid THEN e.data.len > 0 ELSE e.data = files[i].data
        BY <3>1, <3>2, <4>1
      <4>3. i \in DOMAIN files
        BY DEF files
      <4> QED
        BY <3>2, <4>2, <4>3, <1>1, EditedFile
    <3> QED
      BY <3>3, <3>4
  <2>2. ASSUME Hax, msePc' = "edited"
        PROVE  \E g : /\ AsParsed(g) /\ Guesses(g) = Guesses(files)
                      /\ bundle' = [bundle EXCEPT !.files = g]
    <3>1. PICK o \in FileByName(files, "osos"), d \in FileByName(files, "disk"),
               r \in FileByName(files, "rsrc") :
            /\ files[r].data.len >= 1024
            /\ bundle' = [bundle EXCEPT !.files = Overwritten(Renamed(@, o, d), r)]
      BY <2>2 DEF Hax
    <3>2. /\ o \in DOMAIN files /\ d \in DOMAIN files /\ r \in DOMAIN files
          /\ files[o].name = "osos" /\ files[d].name = "disk" /\ files[r].name = "rsrc"
      BY DEF FileByName
    <3>20. "disk" \in Names /\ "osos" \in Names
      BY BundleAssumption
    <3> DEFINE eo == [files[o] EXCEPT !.name = "disk"]
               g1 == [files EXCEPT ![o] = eo]
               ed == [g1[d] EXCEPT !.name = "osos"]
               g2 == [g1 EXCEPT ![d] = ed]
               er == [g2[r] EXCEPT !.data.id = "hax"]
               g3 == [g2 EXCEPT ![r] = er]
    <3>3. eo \in FileEntries /\ eo.valid = files[o].valid /\ eo.prefix = files[o].prefix
          /\ eo.data = files[o].data
      BY <3>2, <3>20, <1>1 DEF FileEntries
    <3>4. AsParsed(g1) /\ Guesses(g1) = Guesses(files) /\ DOMAIN g1 = DOMAIN files
      <4> HIDE DEF eo
      <4>1. IF eo.valid THEN eo.data.len > 0 ELSE eo.data = files[o].data
        BY <3>2, <3>3, <1>1 DEF AsParsed
      <4> QED
        BY <3>2, <3>3, <4>1, <1>1, EditedFile
    <3>5. g1[d] = files[d] /\ g1[r] = files[r]
      BY <3>2
    <3>6. ed \in FileEntries /\ ed.valid = g1[d].valid /\ ed.prefix = g1[d].prefix
          /\ ed.data = g1[d].data
      BY <3>2, <3>5, <3>20, <1>1 DEF FileEntries
    <3>7. AsParsed(g2) /\ Guesses(g2) = Guesses(g1) /\ DOMAIN g2 = DOMAIN files
      <4> HIDE DEF ed, g1
      <4>1. IF ed.valid THEN ed.data.len > 0 ELSE ed.data = g1[d].data
        BY <3>2, <3>4, <3>6 DEF AsParsed
      <4> QED
        BY <3>2, <3>4, <3>6, <4>1, EditedFile
    <3>8. g2[r] = files[r]
      BY <3>2, <3>5
    <3>9. /\ er \in FileEntries /\ er.valid = g2[r].valid /\ er.prefix = g2[r].prefix
          /\ er.data.zeros = g2[r].data.zeros /\ er.data.soc = g2[r].data.soc
          /\ er.data.len = g2[r].data.len
      <4>1. g2[r] \in FileEntries
        BY <3>2, <3>8, <1>1
      <4> DEFINE x == g2[r]
                 y == [x.data EXCEPT !.id = "hax"]
      <4>2. x \in FileEntries /\ x.data \in Contents
        BY <4>1 DEF FileEntries
      <4>3. er = [x EXCEPT !.data = y]
        OBVIOUS
      <4> HIDE DEF g2, x
      <4> DEFINE c == x.data
                 id == "hax"
      <4>6. id \in Ids /\ c \in Contents
        BY <4>2, BundleAssumption
      <4> HIDE DEF c, id
      <4>7. LET t == [c EXCEPT !.id = id]
            IN t \in Contents /\ t.len = c.len /\ t.zeros = c.zeros /\ t.soc = c.soc
        BY <4>6 DEF Contents
      <4>4. y \in Contents /\ y.len = x.data.len /\ y.zeros = x.data.zeros /\ y.soc = x.data.soc
        BY <4>7 DEF c, id
      <4> HIDE DEF y
      <4>5. LET z == [x EXCEPT !.data = y]
            IN z \in FileEntries /\ z.valid = x.valid /\ z.prefix = x.prefix /\ z.data = y
        BY <4>2, <4>4 DEF FileEntries
      <4> QED
        BY <4>3, <4>4, <4>5 DEF x
    <3>10. files[r].valid
      <4>1. ~files[r].valid => files[r].data.len = 0
        BY <3>2, <1>1 DEF AsParsed, NoData
      <4> QED
        BY <3>1, <4>1
    <3>11. AsParsed(g3) /\ Guesses(g3) = Guesses(g2)
      <4> HIDE DEF er, g2
      <4>1. er.valid /\ er.data.len > 0
        BY <3>2, <3>8, <3>9, <3>10, <1>1 DEF AsParsed
      <4> QED
        BY <3>2, <3>7, <3>9, <4>1, EditedFile, ZenonT(30)
    <3>12. g3 = Overwritten(Renamed(files, o, d), r)
      BY <3>2 DEF Overwritten, Renamed
    <3> HIDE DEF g1, g2, g3
    <3> QED
      BY <3>1, <3>4, <3>7, <3>11, <3>12
  <2> QED
    BY <2>1, <2>2
<1>3. /\ bundle'.files = g /\ bundle'.kind = bundle.kind
      /\ bundle' = [kind |-> bundle'.kind, files |-> bundle'.files]
  BY <1>2 DEF SlotsHeld
<1> QED
  BY <1>2, <1>3 DEF SlotsHeld

THEOREM BundlesSurvive == MseSpec => []RoundTrip
<1>1. MseInit => MseInv
  BY DEF MseInit, MseInv, RoundTrip
<1>2. MseInv /\ [MseNext]_mseVars => MseInv'
  <2> SUFFICES ASSUME MseInv, [MseNext]_mseVars PROVE MseInv'
    OBVIOUS
  <2>1. ASSUME NEW files \in Bundles, ParseBundle(files) PROVE MseInv'
    <3>1. CASE Guesses(files) = {}
      BY <2>1, <3>1 DEF ParseBundle, MseInv, RoundTrip
    <3>2. CASE Guesses(files) # {}
      <4>1. PICK k \in Guesses(files) : bundle' = [kind |-> k, files |-> files]
        BY <2>1, <3>2 DEF ParseBundle
      <4>2. SlotsHeld'
        BY <4>1, BundleAssumption DEF SlotsHeld
      <4>3. msePc' = "parsed"
        BY <2>1, <3>2 DEF ParseBundle
      <4> QED
        BY <4>2, <4>3 DEF MseInv, RoundTrip
    <3> QED
      BY <3>1, <3>2
  <2>2. ASSUME NEW i \in DOMAIN bundle.files, NEW n \in NewLengths, SetData(i, n)
        PROVE  MseInv'
    <3>1. msePc = "parsed" /\ msePc' = "edited"
      BY <2>2 DEF SetData
    <3>2. SlotsHeld'
      BY <2>2, <3>1, EditsHold DEF MseInv
    <3> QED
      BY <3>1, <3>2 DEF MseInv, RoundTrip
  <2>3. CASE Hax
    <3>1. msePc = "parsed" /\ msePc' \in {"edited", "panic", "error"}
      BY <2>3 DEF Hax
    <3>2. CASE msePc' \in {"panic", "error"}
      BY <3>1, <3>2 DEF MseInv, RoundTrip
    <3>3. CASE msePc' = "edited"
      <4>1. SlotsHeld'
        BY <2>3, <3>1, <3>3, EditsHold DEF MseInv
      <4> QED
        BY <3>1, <4>1 DEF MseInv, RoundTrip
    <3> QED
      BY <3>1, <3>2, <3>3
  <2>4. CASE Serialize
    <3>1. bundle' = bundle /\ msePc \in {"parsed", "edited"} /\ SlotsHeld
      BY <2>4 DEF Serialize, MseInv
    <3>2. CASE HasGap(bundle.files)
      BY <2>4, <3>2 DEF Serialize, MseInv, RoundTrip
    <3>3. CASE ~HasGap(bundle.files)
      <4>1. msePc' = "placing" /\ offsets' = <<FirstOffset>>
        BY <2>4, <3>3 DEF Serialize
      <4>2. Valid \in Nat /\ Valid' = Valid
        BY <3>1, ValidFilesFinite DEF SlotsHeld, Valid
      <4>3. /\ offsets' \in Seq(Nat) /\ Len(offsets') = 1 /\ offsets'[1] = FirstOffset
        BY <4>1 DEF FirstOffset
      <4>4. ~HasGap(bundle.files)'
        BY <3>1, <3>3
      <4>5. Placed'
        BY <4>2, <4>3, <4>4 DEF Placed
      <4> QED
        BY <3>1, <4>1, <4>5 DEF MseInv, SlotsHeld, RoundTrip
    <3> QED
      BY <3>2, <3>3
  <2>5. CASE PlaceFile
    <3>1. msePc = "placing" /\ msePc' = msePc /\ bundle' = bundle /\ SlotsHeld /\ Placed
      BY <2>5 DEF PlaceFile, MseInv
    <3>2. Placed'
      BY <2>5, <3>1, PlacedFurther DEF PlaceFile, Valid
    <3> QED
      BY <3>1, <3>2 DEF MseInv, SlotsHeld, RoundTrip
  <2>6. CASE WriteOut
    <3>1. /\ msePc = "placing" /\ msePc' = "serialized" /\ SlotsHeld /\ Placed
          /\ bundle' = bundle /\ offsets' = offsets /\ blob' = Layout(bundle, offsets)
      BY <2>6 DEF WriteOut, MseInv
    <3>2. Len(offsets) = Valid + 1
      <4>1. Valid \in Nat
        BY <3>1, ValidFilesFinite DEF SlotsHeld, Valid
      <4> QED
        BY <2>6, <3>1, <4>1 DEF WriteOut, Placed, Valid
    <3> QED
      BY <3>1, <3>2 DEF MseInv, SlotsHeld, Placed, Valid, RoundTrip
  <2>7. CASE ParseAgain
    <3>1. /\ msePc = "serialized" /\ msePc' = "parsed again" /\ SlotsHeld /\ Placed
          /\ blob = Layout(bundle, offsets) /\ Len(offsets) = Valid + 1
          /\ bundle' = bundle /\ offsets' = offsets /\ blob' = blob
      BY <2>7 DEF ParseAgain, MseInv
    <3>2. PICK k \in Guesses(bundle.files) : back' = [kind |-> k, files |-> Parsed(blob, k)]
      BY <2>7 DEF ParseAgain
    <3>3. ASSUME Unambiguous(bundle.files) PROVE back'.files = bundle.files
      <4>1. (k = "n3g") <=> (bundle.kind = "n3g")
        BY <3>1, <3>3, KeepsGeneration DEF SlotsHeld
      <4> QED
        BY <3>1, <3>2, <4>1, ParsedIsBundle
    <3>4. RoundTrip'
      BY <3>1, <3>3 DEF RoundTrip
    <3> QED
      BY <3>1, <3>4 DEF MseInv, SlotsHeld, Placed, Valid
  <2>8. CASE NextBundle
    BY <2>8 DEF NextBundle, MseInv, RoundTrip
  <2>9. CASE UNCHANGED mseVars
    BY <2>9 DEF mseVars, MseInv, SlotsHeld, Placed, Valid, RoundTrip
  <2> QED
    BY <2>1, <2>2, <2>3, <2>4, <2>5, <2>6, <2>7, <2>8, <2>9 DEF MseNext
<1>3. MseInv => RoundTrip
  BY DEF MseInv
<1> QED
  BY <1>1, <1>2, <1>3, PTL DEF MseSpec

-----------------------------------------------------------------------------
(* The 16 GB NAND patches, for every assembly of the trampolines and every  *)
(* drift of the image.  The invariant says how far an application has got   *)
(* in its plan, what it has written and placed, and what the checks it has  *)
(* passed have shown of the lengths; a second application carries the       *)
(* piece of the first on which one of its checks fails.                     *)

(* What an item of a plan writes into Apple's image, and what it looks at.  *)
Written(s, i) == IF s[i].op \in {"words", "table"} THEN s[i].pieces ELSE {}
Examined(s, i) ==
  IF s[i].op \in {"stock", "free"} THEN s[i].pieces
  ELSE IF s[i].op = "table" THEN s[i].literal ELSE {}

Inside(p, lo, hi) ==
  p.from \in Nat /\ p.to \in Nat /\ lo <= p.from /\ p.from < p.to /\ p.to <= hi

(* Where the trampolines of the layers go.                                  *)
DiskGap(b) == [from |-> DiskModeOffset(b, \h080385d0), to |-> DiskModeOffset(b, \h0803a26c)]
AupdGap(b) == [from |-> b + \h2b780, to |-> b + \h2bfd8]
OsosGap(b) == [from |-> b + \h3cbf78, to |-> b + \h3ccdec]

(* Where the layers end, and where they begin in the images.                *)
DiskEnd(b) == b + \h43000
AupdEnd(b) == b + \h2bfd8
OsosEnd(b) == b + \h9269e8
RecoveryDisk == \he40b8
FirmwareAupd == \h5853000
FirmwareDisk == \h5939fb8
FirmwareOsos == \h4e07800

(* A layer writes nothing twice, writes over nothing it has yet to check,   *)
(* and leaves its gap alone.                                                *)
Layered(s, lo, hi, gap) ==
  /\ \A i \in DOMAIN s : \A p \in Written(s, i) : Inside(p, lo, hi) /\ Apart(p, gap)
  /\ \A i \in DOMAIN s : \A p \in Examined(s, i) :
       p = Piece(0, 4) \/ (Inside(p, lo, hi) /\ Apart(p, gap))
  /\ \A i, k \in DOMAIN s : \A p \in Written(s, i), q \in Written(s, k) : p # q => Apart(p, q)
  /\ \A i, k \in DOMAIN s : \A p \in Written(s, i), q \in Examined(s, k) :
       i < k => Apart(p, q)

LEMMA DiskLayer ==
  ASSUME NEW b \in Nat, b > 4
  PROVE  Layered(DiskPlan(b), b, DiskEnd(b), DiskGap(b))
<1> DEFINE s == DiskPlan(b)
<1>1. \A i \in DOMAIN s : \A p \in Written(s, i) :
        Inside(p, b, DiskEnd(b)) /\ Apart(p, DiskGap(b))
  BY SMTT(60) DEF DiskPlan, LongEnough, Place, Words, Stock, WordsAt, Piece, DiskTable,
    BakeTable, ChipEntry, TableLiteral, DiskModeOffset,
    Written, Examined, Inside, DiskEnd, Apart, DiskGap
<1>4. \A i \in DOMAIN s : \A p \in Examined(s, i) :
        p = Piece(0, 4) \/ (Inside(p, b, DiskEnd(b)) /\ Apart(p, DiskGap(b)))
  BY SMTT(60) DEF DiskPlan, LongEnough, Place, Words, Stock, WordsAt, Piece, DiskTable,
    BakeTable, ChipEntry, TableLiteral, DiskModeOffset,
    Written, Examined, Inside, DiskEnd, Apart, DiskGap
<1>2. \A i, k \in DOMAIN s : \A p \in Written(s, i), q \in Written(s, k) : p # q => Apart(p, q)
  BY SMTT(60) DEF DiskPlan, LongEnough, Place, Words, Stock, WordsAt, Piece, DiskTable,
    BakeTable, ChipEntry, TableLiteral, DiskModeOffset,
    Written, Apart
<1>3. \A i, k \in DOMAIN s : \A p \in Written(s, i), q \in Examined(s, k) :
        i < k => Apart(p, q)
  BY SMTT(60) DEF DiskPlan, LongEnough, Place, Words, Stock, WordsAt, Piece, DiskTable,
    BakeTable, ChipEntry, TableLiteral, DiskModeOffset,
    Written, Examined, Apart
<1> QED
  BY <1>1, <1>2, <1>3, <1>4 DEF Layered

LEMMA AupdLayer ==
  ASSUME NEW b \in Nat, b > 4
  PROVE  Layered(AupdPlan(b), b, AupdEnd(b), AupdGap(b))
<1> DEFINE s == AupdPlan(b)
<1>1. \A i \in DOMAIN s : \A p \in Written(s, i) :
        Inside(p, b, AupdEnd(b)) /\ Apart(p, AupdGap(b))
  BY SMTT(60) DEF AupdPlan, LongEnough, Region, Splice, Words, Stock, WordsAt, Piece,
    Written, Examined, Inside, AupdEnd, Apart, AupdGap
<1>4. \A i \in DOMAIN s : \A p \in Examined(s, i) :
        p = Piece(0, 4) \/ (Inside(p, b, AupdEnd(b)) /\ Apart(p, AupdGap(b)))
  BY SMTT(60) DEF AupdPlan, LongEnough, Region, Splice, Words, Stock, WordsAt, Piece,
    Written, Examined, Inside, AupdEnd, Apart, AupdGap
<1>2. \A i, k \in DOMAIN s : \A p \in Written(s, i), q \in Written(s, k) : p # q => Apart(p, q)
  BY SMTT(60) DEF AupdPlan, LongEnough, Region, Splice, Words, Stock, WordsAt, Piece,
    Written, Apart
<1>3. \A i, k \in DOMAIN s : \A p \in Written(s, i), q \in Examined(s, k) :
        i < k => Apart(p, q)
  BY SMTT(60) DEF AupdPlan, LongEnough, Region, Splice, Words, Stock, WordsAt, Piece,
    Written, Examined, Apart
<1> QED
  BY <1>1, <1>2, <1>3, <1>4 DEF Layered

LEMMA OsosLayer ==
  ASSUME NEW b \in Nat, b > 4
  PROVE  Layered(OsosPlan(b), b, OsosEnd(b), OsosGap(b))
<1> DEFINE s == OsosPlan(b)
<1>1. \A i \in DOMAIN s : \A p \in Written(s, i) :
        Inside(p, b, OsosEnd(b)) /\ Apart(p, OsosGap(b))
  BY SMTT(60) DEF OsosPlan, OsosLBACount, OsosHeapSizes, OsosNANDFixes, OsosWords,
    LongEnough, Region, Splice, Words, Stock, Free, WordsAt, Piece,
    Written, Examined, Inside, OsosEnd, Apart, OsosGap
<1>4. \A i \in DOMAIN s : \A p \in Examined(s, i) :
        p = Piece(0, 4) \/ (Inside(p, b, OsosEnd(b)) /\ Apart(p, OsosGap(b)))
  BY SMTT(60) DEF OsosPlan, OsosLBACount, OsosHeapSizes, OsosNANDFixes, OsosWords,
    LongEnough, Region, Splice, Words, Stock, Free, WordsAt, Piece,
    Written, Examined, Inside, OsosEnd, Apart, OsosGap
<1>2. \A i, k \in DOMAIN s : \A p \in Written(s, i), q \in Written(s, k) : p # q => Apart(p, q)
  BY SMTT(120) DEF OsosPlan, OsosLBACount, OsosHeapSizes, OsosNANDFixes, OsosWords,
    LongEnough, Region, Splice, Words, Stock, Free, WordsAt, Piece, Written, Apart
<1>3. \A i, k \in DOMAIN s : \A p \in Written(s, i), q \in Examined(s, k) :
        i < k => Apart(p, q)
  BY SMTT(60) DEF OsosPlan, OsosLBACount, OsosHeapSizes, OsosNANDFixes, OsosWords,
    LongEnough, Region, Splice, Words, Stock, Free, WordsAt, Piece,
    Written, Examined, Apart
<1> QED
  BY <1>1, <1>2, <1>3, <1>4 DEF Layered

(* Where the items of a layer are that place a trampoline.                  *)
DiskSources == {"scsibridge", "ftlbridge", "planeerase", "erasedpage"}
DiskVA(src) ==
  CASE src = "scsibridge" -> \h080385d0
    [] src = "ftlbridge" -> \h08038b80
    [] src = "planeerase" -> \h08039680
    [] src = "erasedpage" -> \h08039a00
DiskPlace(b, src) ==
  CASE src = "scsibridge" ->
         Place("scsibridge", DiskModeOffset(b, \h080385d0), b + 280512, "none", FALSE)
    [] src = "erasedpage" ->
         Place("erasedpage", DiskModeOffset(b, \h08039a00), DiskModeOffset(b, \h0803a26c),
               "none", FALSE)
    [] src = "ftlbridge" ->
         Place("ftlbridge", DiskModeOffset(b, \h08038b80), DiskModeOffset(b, \h08039a00),
               "scsibridge", FALSE)
    [] src = "planeerase" ->
         Place("planeerase", DiskModeOffset(b, \h08039680), DiskModeOffset(b, \h08039908),
               "none", TRUE)

Looks == {"words", "stock", "free"}

LEMMA DiskItems ==
  ASSUME NEW b \in Nat
  PROVE  /\ DOMAIN DiskPlan(b) = 1 .. 11
         /\ DiskPlan(b)[2] = DiskPlace(b, "scsibridge")
         /\ DiskPlan(b)[6] = DiskPlace(b, "erasedpage")
         /\ DiskPlan(b)[8] = DiskPlace(b, "ftlbridge")
         /\ DiskPlan(b)[10] = DiskPlace(b, "planeerase")
         /\ DiskPlan(b)[5] = BakeTable(b)
         /\ \A i \in (1 .. 11) \ {2, 5, 6, 8, 10} : DiskPlan(b)[i].op \in Looks
<1>10. DiskPlan(b)[2] = DiskPlace(b, "scsibridge")
  BY SMTT(60) DEF DiskPlan, DiskPlace, DiskModeOffset, Place
<1>11. DiskPlan(b)[6] = DiskPlace(b, "erasedpage")
  BY SMTT(60) DEF DiskPlan, DiskPlace, DiskModeOffset, Place
<1>12. DiskPlan(b)[8] = DiskPlace(b, "ftlbridge")
  BY SMTT(60) DEF DiskPlan, DiskPlace, DiskModeOffset, Place
<1>13. DiskPlan(b)[10] = DiskPlace(b, "planeerase")
  BY SMTT(60) DEF DiskPlan, DiskPlace, DiskModeOffset, Place
<1>14. DiskPlan(b)[5] = BakeTable(b)
  BY SMTT(60) DEF DiskPlan
<1>2. \A i \in (1 .. 11) \ {2, 5, 6, 8, 10} : DiskPlan(b)[i].op \in Looks
  BY SMTT(60) DEF DiskPlan, LongEnough, Words, Stock, Looks
<1>3. DOMAIN DiskPlan(b) = 1 .. 11
  BY SMTT(60) DEF DiskPlan
<1> QED
  BY <1>10, <1>11, <1>12, <1>13, <1>14, <1>2, <1>3

LEMMA AupdItems ==
  ASSUME NEW b \in Nat
  PROVE  /\ DOMAIN AupdPlan(b) = 1 .. 9
         /\ AupdPlan(b)[3] = Region(AupdGap(b).from, AupdGap(b).to)
         /\ AupdPlan(b)[4] = Splice("planeerase")
         /\ AupdPlan(b)[6] = Splice("erasedpage")
         /\ AupdPlan(b)[8] = Splice("bbtscan")
         /\ \A i \in (1 .. 9) \ {3, 4, 6, 8} : AupdPlan(b)[i].op \in Looks
BY SMTT(60) DEF AupdPlan, AupdGap, LongEnough, Region, Splice, Words, Stock, Looks

LEMMA OsosItems ==
  ASSUME NEW b \in Nat
  PROVE  /\ DOMAIN OsosPlan(b) = 1 .. 21
         /\ OsosPlan(b)[7] = Region(OsosGap(b).from, OsosGap(b).to)
         /\ OsosPlan(b)[8] = Splice("planeerase")
         /\ OsosPlan(b)[10] = Splice("erasedpage")
         /\ OsosPlan(b)[12] = Splice("bbtscan")
         /\ OsosPlan(b)[16] = Splice("blockbridge")
         /\ \A i \in (1 .. 21) \ {7, 8, 10, 12, 16} : OsosPlan(b)[i].op \in Looks
BY SMTT(60) DEF OsosPlan, OsosLBACount, OsosHeapSizes, OsosNANDFixes, OsosGap,
  LongEnough, Region, Splice, Words, Stock, Free, Looks

(* A plan is its parts, one after the other.                                *)
Listed(s, n) == n \in Nat /\ s = [i \in 1 .. n |-> s[i]]

Glued(u, s, t) == u = s \o t

LEMMA JoinedListed ==
  ASSUME NEW s, NEW t, NEW u, Glued(u, s, t),
         NEW m \in Nat, NEW n \in Nat, NEW k \in Nat, k = m + n, Listed(s, m), Listed(t, n)
  PROVE  /\ Listed(u, k)
         /\ \A i \in 1 .. m : u[i] = s[i]
         /\ \A i \in 1 .. n : u[m + i] = t[i]
<1> DEFINE S == {s[i] : i \in 1 .. m} \cup {t[i] : i \in 1 .. n}
<1>0. s \in [1 .. m -> S] /\ t \in [1 .. n -> S]
  BY DEF Listed
<1> HIDE DEF S
<1>1. s \in Seq(S) /\ Len(s) = m
  BY <1>0
<1>2. t \in Seq(S) /\ Len(t) = n
  BY <1>0
<1>3. s \o t \in Seq(S) /\ Len(s \o t) = k
  BY <1>1, <1>2
<1>4. \A i \in 1 .. m : (s \o t)[i] = s[i]
  BY <1>1, <1>2
<1>5. ASSUME NEW i \in 1 .. n PROVE (s \o t)[m + i] = t[i]
  <2> DEFINE x == m + i
  <2>1. x \in 1 .. Len(s) + Len(t) /\ x > Len(s) /\ x - Len(s) = i
    BY <1>1, <1>2
  <2> HIDE DEF x
  <2>2. (s \o t)[x] = t[i]
    BY <2>1, <1>1, <1>2
  <2> QED
    BY <2>2 DEF x
<1>6. u = s \o t
  BY DEF Glued
<1>7. u \in Seq(S) /\ Len(u) = k
  BY <1>3, <1>6, Zenon
<1>8. u = [i \in 1 .. k |-> u[i]]
  BY <1>7
<1>9. Listed(u, k)
  BY <1>8, Zenon DEF Listed
<1> QED
  BY <1>4, <1>5, <1>6, <1>9, Zenon

LEMMA ListedLen ==
  ASSUME NEW s, NEW n \in Nat, Listed(s, n)
  PROVE  Len(s) = n /\ DOMAIN s = 1 .. n
BY DEF Listed

LEMMA LayersListed ==
  ASSUME NEW b \in Nat
  PROVE  Listed(DiskPlan(b), 11) /\ Listed(AupdPlan(b), 9) /\ Listed(OsosPlan(b), 21)
<1>1. Listed(DiskPlan(b), 11)
  BY SMTT(60) DEF DiskPlan, Listed
<1>2. Listed(AupdPlan(b), 9)
  BY SMTT(60) DEF AupdPlan, Listed
<1>3. Listed(OsosPlan(b), 21)
  BY SMTT(60) DEF OsosPlan, OsosLBACount, OsosHeapSizes, OsosNANDFixes, Listed
<1> QED
  BY <1>1, <1>2, <1>3

LEMMA Single ==
  ASSUME NEW x
  PROVE  Listed(<<x>>, 1) /\ <<x>>[1] = x
BY DEF Listed

LEMMA Bases ==
  /\ RecoveryDisk \in Nat /\ RecoveryDisk > 4 /\ FirmwareAupd \in Nat /\ FirmwareAupd > 4
  /\ FirmwareDisk \in Nat /\ FirmwareDisk > 4 /\ FirmwareOsos \in Nat /\ FirmwareOsos > 4
BY SMT DEF RecoveryDisk, FirmwareAupd, FirmwareDisk, FirmwareOsos

LEMMA RecoveryParts ==
  /\ Listed(RecoveryPlan, 14)
  /\ RecoveryPlan[1] = Words({Piece(\h127940, \hc0)})
  /\ \A i \in 1 .. 11 : RecoveryPlan[1 + i] = DiskPlan(RecoveryDisk)[i]
  /\ RecoveryPlan[13] = Words({Piece(\h1bd80, \h2c)})
  /\ RecoveryPlan[14] = Words({Piece(\h30a78, \h4ff50)})
<1> DEFINE logo == Words({Piece(\h127940, \hc0)})
           disk == DiskPlan(RecoveryDisk)
           efi == Words({Piece(\h1bd80, \h2c)})
           window == Words({Piece(\h30a78, \h4ff50)})
           s1 == <<logo>>
           s2 == s1 \o disk
           s3 == s2 \o <<efi>>
           s4 == s3 \o <<window>>
<1>1. RecoveryPlan = s4
  BY DEF RecoveryPlan, EfiWindow, RecoveryDisk, DiskModeIn
<1>2. Listed(disk, 11)
  BY LayersListed, Bases, Zenon
<1> HIDE DEF logo, disk, efi, window
<1>3. Listed(s1, 1) /\ s1[1] = logo /\ Listed(<<efi>>, 1) /\ Listed(<<window>>, 1)
      /\ <<efi>>[1] = efi /\ <<window>>[1] = window
  BY Single
<1>4. Glued(s2, s1, disk) /\ Glued(s3, s2, <<efi>>) /\ Glued(s4, s3, <<window>>)
  BY DEF Glued
<1> DEFINE e == <<efi>>
           win == <<window>>
<1>5. /\ Glued(s2, s1, disk) /\ Glued(s3, s2, e) /\ Glued(s4, s3, win)
      /\ Listed(e, 1) /\ e[1] = efi /\ Listed(win, 1) /\ win[1] = window
  BY <1>3, <1>4
<1> HIDE DEF s1, s2, s3, s4, e, win
<1>6. Listed(s2, 12) /\ (\A i \in 1 .. 1 : s2[i] = s1[i]) /\ \A i \in 1 .. 11 : s2[1 + i] = disk[i]
  BY <1>2, <1>3, <1>5, JoinedListed
<1>7. Listed(s3, 13) /\ (\A i \in 1 .. 12 : s3[i] = s2[i]) /\ s3[13] = e[1]
  BY <1>5, <1>6, JoinedListed
<1>8. Listed(s4, 14) /\ (\A i \in 1 .. 13 : s4[i] = s3[i]) /\ s4[14] = win[1]
  BY <1>5, <1>7, JoinedListed
<1>9. \A i \in 1 .. 11 : s4[1 + i] = disk[i]
  BY <1>6, <1>7, <1>8
<1>10. s4[1] = logo /\ s4[13] = efi /\ s4[14] = window
  BY <1>3, <1>5, <1>6, <1>7, <1>8
<1> QED
  BY <1>1, <1>8, <1>9, <1>10 DEF logo, disk, efi, window

LEMMA FirmwareParts ==
  /\ Listed(FirmwarePlan, 43)
  /\ FirmwarePlan[1] = Words({Piece(\h5853800 + \h2c7c0, \hb40)})
  /\ \A i \in 1 .. 9 : FirmwarePlan[1 + i] = AupdPlan(FirmwareAupd)[i]
  /\ FirmwarePlan[11] = Words({Piece(\h5853800 + \h33178, \h4ff50)})
  /\ \A i \in 1 .. 11 : FirmwarePlan[11 + i] = DiskPlan(FirmwareDisk)[i]
  /\ \A i \in 1 .. 21 : FirmwarePlan[22 + i] = OsosPlan(FirmwareOsos)[i]
<1> DEFINE logo == Words({Piece(\h5853800 + \h2c7c0, \hb40)})
           aupd == AupdPlan(FirmwareAupd)
           window == Words({Piece(\h5853800 + \h33178, \h4ff50)})
           disk == DiskPlan(FirmwareDisk)
           osos == OsosPlan(FirmwareOsos)
           win == <<window>>
           s1 == <<logo>>
           s2 == s1 \o aupd
           s3 == s2 \o win
           s4 == s3 \o disk
           s5 == s4 \o osos
<1>1. FirmwarePlan = s5
  BY DEF FirmwarePlan, EfiWindow, FirmwareAupd, FirmwareDisk, FirmwareOsos, DiskModeIn
<1>2. Listed(aupd, 9) /\ Listed(disk, 11) /\ Listed(osos, 21)
  BY LayersListed, Bases, Zenon
<1> HIDE DEF logo, aupd, window, disk, osos
<1>3. Listed(s1, 1) /\ s1[1] = logo /\ Listed(win, 1) /\ win[1] = window
  BY Single
<1>4. Glued(s2, s1, aupd) /\ Glued(s3, s2, win) /\ Glued(s4, s3, disk) /\ Glued(s5, s4, osos)
  BY DEF Glued
<1> HIDE DEF s1, s2, s3, s4, s5, win
<1>5. Listed(s2, 10) /\ (\A i \in 1 .. 1 : s2[i] = s1[i]) /\ \A i \in 1 .. 9 : s2[1 + i] = aupd[i]
  BY <1>2, <1>3, <1>4, JoinedListed
<1>6. Listed(s3, 11) /\ (\A i \in 1 .. 10 : s3[i] = s2[i]) /\ s3[11] = win[1]
  BY <1>3, <1>4, <1>5, JoinedListed
<1>7. /\ Listed(s4, 22) /\ (\A i \in 1 .. 11 : s4[i] = s3[i])
      /\ \A i \in 1 .. 11 : s4[11 + i] = disk[i]
  BY <1>2, <1>4, <1>6, JoinedListed
<1>8. /\ Listed(s5, 43) /\ (\A i \in 1 .. 22 : s5[i] = s4[i])
      /\ \A i \in 1 .. 21 : s5[22 + i] = osos[i]
  BY <1>2, <1>4, <1>7, JoinedListed
<1>9. s5[1] = logo /\ s5[11] = window
  BY <1>3, <1>5, <1>6, <1>7, <1>8
<1>10. \A i \in 1 .. 9 : s5[1 + i] = aupd[i]
  BY <1>5, <1>6, <1>7, <1>8
<1>11. \A i \in 1 .. 11 : s5[11 + i] = disk[i]
  BY <1>7, <1>8
<1> QED
  BY <1>1, <1>8, <1>9, <1>10, <1>11 DEF logo, aupd, window, disk, osos

LEMMA ModuleParts ==
  /\ Listed(ModulePlan, 8)
  /\ \A i \in 1 .. 8 : IF i = 2 THEN ModulePlan[i] = Grow("efi_nand") ELSE ModulePlan[i].op \in Looks
BY DEF ModulePlan, Listed, Grow, Words, Stock, LongEnough, Looks

-----------------------------------------------------------------------------
(* Whole plans.                                                             *)

(* What holds of a layer holds of a plan, with all gaps of all its layers.  *)
Clean(s, gaps) ==
  /\ \A i \in DOMAIN s : \A p \in Written(s, i) \cup Examined(s, i) : p.from \in Nat /\ p.to \in Nat
  /\ \A i \in DOMAIN s : \A p \in Written(s, i), g \in gaps : Apart(p, g)
  /\ \A i \in DOMAIN s : \A p \in Examined(s, i), g \in gaps : Apart(p, g)
  /\ \A i, k \in DOMAIN s : \A p \in Written(s, i), q \in Written(s, k) : p # q => Apart(p, q)
  /\ \A i, k \in DOMAIN s : \A p \in Written(s, i), q \in Examined(s, k) :
       i < k => Apart(p, q)

(* A layer that stands in a plan, in a zone [items, lo, hi, gap] of its own.   *)
Standing(s, z) ==
  /\ z.lo \in Nat /\ z.hi \in Nat /\ z.gap.from \in Nat /\ z.gap.to \in Nat
  /\ 4 < z.lo /\ z.lo <= z.gap.from /\ z.gap.from <= z.gap.to /\ z.gap.to <= z.hi
  /\ \A i \in z.items : \A p \in Written(s, i) : Inside(p, z.lo, z.hi) /\ Apart(p, z.gap)
  /\ \A i \in z.items : \A p \in Examined(s, i) :
       p = Piece(0, 4) \/ (Inside(p, z.lo, z.hi) /\ Apart(p, z.gap))
  /\ \A i, k \in z.items : \A p \in Written(s, i), q \in Written(s, k) : p # q => Apart(p, q)
  /\ \A i, k \in z.items : \A p \in Written(s, i), q \in Examined(s, k) :
       i < k => Apart(p, q)

Zone(items, lo, hi, gap) == [items |-> items, lo |-> lo, hi |-> hi, gap |-> gap]

LEMMA LayerStands ==
  ASSUME NEW s, NEW off \in Nat, NEW t, NEW n \in Nat, NEW lo \in Nat, NEW hi \in Nat, NEW gap,
         gap.from \in Nat, gap.to \in Nat,
         4 < lo, lo <= gap.from, gap.from <= gap.to, gap.to <= hi,
         DOMAIN t = 1 .. n, \A i \in 1 .. n : s[off + i] = t[i], Layered(t, lo, hi, gap)
  PROVE  Standing(s, Zone(off + 1 .. off + n, lo, hi, gap))
<1>1. \A i \in off + 1 .. off + n :
        i - off \in DOMAIN t /\ Written(s, i) = Written(t, i - off)
        /\ Examined(s, i) = Examined(t, i - off)
  <2> SUFFICES ASSUME NEW i \in off + 1 .. off + n
               PROVE  i - off \in DOMAIN t /\ s[i] = t[i - off]
    BY DEF Written, Examined
  <2> DEFINE m == i - off
  <2>1. m \in 1 .. n /\ off + m = i
    OBVIOUS
  <2> HIDE DEF m
  <2>2. m \in DOMAIN t /\ s[off + m] = t[m]
    BY <2>1
  <2> QED
    BY <2>1, <2>2 DEF m
<1>2. \A i, k \in off + 1 .. off + n : i < k => i - off < k - off
  OBVIOUS
<1> QED
  BY <1>1, <1>2 DEF Standing, Layered, Zone

LEMMA DiskStands ==
  ASSUME NEW s, NEW off \in Nat, NEW b \in Nat, b > 4,
         \A i \in 1 .. 11 : s[off + i] = DiskPlan(b)[i]
  PROVE  Standing(s, Zone(off + 1 .. off + 11, b, DiskEnd(b), DiskGap(b)))
<1> DEFINE t == DiskPlan(b)
           hi == DiskEnd(b)
           gap == DiskGap(b)
<1>1. hi \in Nat /\ gap.from \in Nat /\ gap.to \in Nat /\ b <= gap.from /\ gap.from <= gap.to
      /\ gap.to <= hi
  BY SMT DEF DiskEnd, DiskGap, DiskModeOffset
<1>2. DOMAIN t = 1 .. 11
  BY SMT, DiskItems
<1>3. Layered(t, b, hi, gap)
  BY DiskLayer, Zenon
<1> HIDE DEF t, hi, gap
<1> QED
  BY <1>1, <1>2, <1>3, LayerStands, Zenon DEF t, hi, gap

LEMMA AupdStands ==
  ASSUME NEW s, NEW off \in Nat, NEW b \in Nat, b > 4,
         \A i \in 1 .. 9 : s[off + i] = AupdPlan(b)[i]
  PROVE  Standing(s, Zone(off + 1 .. off + 9, b, AupdEnd(b), AupdGap(b)))
<1> DEFINE t == AupdPlan(b)
           hi == AupdEnd(b)
           gap == AupdGap(b)
<1>1. hi \in Nat /\ gap.from \in Nat /\ gap.to \in Nat /\ b <= gap.from /\ gap.from <= gap.to
      /\ gap.to <= hi
  BY SMT DEF AupdEnd, AupdGap
<1>2. DOMAIN t = 1 .. 9
  BY SMT, AupdItems
<1>3. Layered(t, b, hi, gap)
  BY AupdLayer, Zenon
<1> HIDE DEF t, hi, gap
<1> QED
  BY <1>1, <1>2, <1>3, LayerStands, Zenon DEF t, hi, gap

LEMMA OsosStands ==
  ASSUME NEW s, NEW off \in Nat, NEW b \in Nat, b > 4,
         \A i \in 1 .. 21 : s[off + i] = OsosPlan(b)[i]
  PROVE  Standing(s, Zone(off + 1 .. off + 21, b, OsosEnd(b), OsosGap(b)))
<1> DEFINE t == OsosPlan(b)
           hi == OsosEnd(b)
           gap == OsosGap(b)
<1>1. hi \in Nat /\ gap.from \in Nat /\ gap.to \in Nat /\ b <= gap.from /\ gap.from <= gap.to
      /\ gap.to <= hi
  BY SMT DEF OsosEnd, OsosGap
<1>2. DOMAIN t = 1 .. 21
  BY SMT, OsosItems
<1>3. Layered(t, b, hi, gap)
  BY OsosLayer, Zenon
<1> HIDE DEF t, hi, gap
<1> QED
  BY <1>1, <1>2, <1>3, LayerStands, Zenon DEF t, hi, gap

LEMMA WordsStand ==
  ASSUME NEW s, NEW i, NEW a \in Nat, NEW n \in Nat, a > 4, n > 0, s[i] = Words({Piece(a, n)})
  PROVE  Standing(s, Zone({i}, a, a + n, Piece(a + n, 0)))
<1>1. Written(s, i) = {Piece(a, n)} /\ Examined(s, i) = {}
  BY DEF Written, Examined, Words
<1>2. Inside(Piece(a, n), a, a + n) /\ Apart(Piece(a, n), Piece(a + n, 0))
  BY DEF Inside, Apart, Piece
<1>3. Piece(a + n, 0).from = a + n /\ Piece(a + n, 0).to = a + n
  BY DEF Piece
<1> QED
  BY <1>1, <1>2, <1>3 DEF Standing, Zone

(* Layers in zones that do not overlap.                                     *)
LEMMA ZonesClean ==
  ASSUME NEW s, NEW Z, \A i \in DOMAIN s : \E z \in Z : i \in z.items,
         \A z \in Z : Standing(s, z),
         \A z, y \in Z : z = y \/ z.hi <= y.lo \/ y.hi <= z.lo
  PROVE  Clean(s, {z.gap : z \in Z})
<1> DEFINE Gaps == {z.gap : z \in Z}
<1>0. \A z \in Z : /\ z.lo \in Nat /\ z.hi \in Nat /\ z.gap.from \in Nat /\ z.gap.to \in Nat
                   /\ 4 < z.lo /\ z.lo <= z.gap.from /\ z.gap.from <= z.gap.to /\ z.gap.to <= z.hi
  BY DEF Standing
<1>1. ASSUME NEW i \in DOMAIN s, NEW p \in Written(s, i), NEW g \in Gaps
      PROVE  Apart(p, g)
  <2>1. PICK z \in Z : i \in z.items
    OBVIOUS
  <2>2. PICK y \in Z : g = y.gap
    OBVIOUS
  <2>3. Inside(p, z.lo, z.hi) /\ Apart(p, z.gap)
    BY <2>1 DEF Standing
  <2> QED
    BY <1>0, <2>1, <2>2, <2>3 DEF Inside, Apart
<1>2. ASSUME NEW i \in DOMAIN s, NEW p \in Examined(s, i), NEW g \in Gaps
      PROVE  Apart(p, g)
  <2>1. PICK z \in Z : i \in z.items
    OBVIOUS
  <2>2. PICK y \in Z : g = y.gap
    OBVIOUS
  <2>3. p = Piece(0, 4) \/ (Inside(p, z.lo, z.hi) /\ Apart(p, z.gap))
    BY <2>1 DEF Standing
  <2> QED
    BY <1>0, <2>1, <2>2, <2>3 DEF Inside, Apart, Piece
<1>3. ASSUME NEW i \in DOMAIN s, NEW k \in DOMAIN s,
             NEW p \in Written(s, i), NEW q \in Written(s, k), p # q
      PROVE  Apart(p, q)
  <2>1. PICK z \in Z : i \in z.items
    OBVIOUS
  <2>2. PICK y \in Z : k \in y.items
    OBVIOUS
  <2>3. Inside(p, z.lo, z.hi) /\ Inside(q, y.lo, y.hi)
    BY <2>1, <2>2 DEF Standing
  <2>4. CASE z = y
    BY <1>3, <2>1, <2>2, <2>4 DEF Standing
  <2>5. CASE z # y
    BY <1>0, <2>3, <2>5 DEF Inside, Apart
  <2> QED
    BY <2>4, <2>5
<1>4. ASSUME NEW i \in DOMAIN s, NEW k \in DOMAIN s,
             NEW p \in Written(s, i), NEW q \in Examined(s, k), i < k
      PROVE  Apart(p, q)
  <2>1. PICK z \in Z : i \in z.items
    OBVIOUS
  <2>2. PICK y \in Z : k \in y.items
    OBVIOUS
  <2>3. Inside(p, z.lo, z.hi) /\ (q = Piece(0, 4) \/ Inside(q, y.lo, y.hi))
    BY <2>1, <2>2 DEF Standing
  <2>4. CASE z = y
    BY <1>4, <2>1, <2>2, <2>4 DEF Standing
  <2>5. CASE z # y
    BY <1>0, <2>3, <2>5 DEF Inside, Apart, Piece
  <2> QED
    BY <2>4, <2>5
<1>5. ASSUME NEW i \in DOMAIN s, NEW p \in Written(s, i) \cup Examined(s, i)
      PROVE  p.from \in Nat /\ p.to \in Nat
  <2>1. PICK z \in Z : i \in z.items
    OBVIOUS
  <2>2. Inside(p, z.lo, z.hi) \/ p = Piece(0, 4)
    BY <2>1 DEF Standing
  <2> QED
    BY <2>2 DEF Inside, Piece
<1> HIDE DEF Gaps
<1>6. Clean(s, Gaps)
  BY <1>1, <1>2, <1>3, <1>4, <1>5, Zenon DEF Clean
<1> QED
  BY <1>6 DEF Gaps

LEMMA RecoveryClean ==
  \E gaps : DiskGap(RecoveryDisk) \in gaps /\ Clean(RecoveryPlan, gaps)
<1> DEFINE s == RecoveryPlan
           b == RecoveryDisk
           a1 == \h127940
           n1 == \hc0
           a3 == \h1bd80
           n3 == \h2c
           a4 == \h30a78
           n4 == \h4ff50
           z1 == Zone({1}, a1, a1 + n1, Piece(a1 + n1, 0))
           z2 == Zone(1 + 1 .. 1 + 11, b, DiskEnd(b), DiskGap(b))
           z3 == Zone({13}, a3, a3 + n3, Piece(a3 + n3, 0))
           z4 == Zone({14}, a4, a4 + n4, Piece(a4 + n4, 0))
           Z == {z1, z2, z3, z4}
<1>1. DOMAIN s = 1 .. 14
  <2>1. Listed(s, 14) /\ 14 \in Nat
    BY SMT, RecoveryParts
  <2> QED
    BY <2>1, ListedLen, Zenon
<1>2. Standing(s, z2)
  <2>1. b \in Nat /\ b > 4
    BY Bases
  <2>2. \A i \in 1 .. 11 : s[1 + i] = DiskPlan(b)[i]
    BY SMT, RecoveryParts
  <2> HIDE DEF s, b
  <2> QED
    BY <2>1, <2>2, DiskStands, Zenon
<1>3. /\ a1 \in Nat /\ n1 \in Nat /\ a1 > 4 /\ n1 > 0 /\ s[1] = Words({Piece(a1, n1)})
      /\ a3 \in Nat /\ n3 \in Nat /\ a3 > 4 /\ n3 > 0 /\ s[13] = Words({Piece(a3, n3)})
      /\ a4 \in Nat /\ n4 \in Nat /\ a4 > 4 /\ n4 > 0 /\ s[14] = Words({Piece(a4, n4)})
  BY SMT, RecoveryParts
<1>4. \A z, y \in Z : z = y \/ z.hi <= y.lo \/ y.hi <= z.lo
  BY SMT DEF Zone, RecoveryDisk, DiskEnd
<1>5. z1.items = {1} /\ z2.items = 2 .. 12 /\ z3.items = {13} /\ z4.items = {14} /\ z2.gap = DiskGap(b)
  BY SMT DEF Zone
<1> HIDE DEF s, a1, n1, a3, n3, a4, n4
<1>6. Standing(s, z1) /\ Standing(s, z3) /\ Standing(s, z4)
  BY <1>3, WordsStand, Zenon
<1> HIDE DEF b, z1, z2, z3, z4
<1>7. \A i \in DOMAIN s : \E z \in Z : i \in z.items
  BY <1>1, <1>5, SMT
<1>8. \A z \in Z : Standing(s, z)
  BY <1>2, <1>6, Zenon
<1>9. DiskGap(b) \in {z.gap : z \in Z}
  BY <1>5, Zenon
<1> HIDE DEF Z
<1>10. Clean(s, {z.gap : z \in Z})
  BY <1>4, <1>7, <1>8, ZonesClean, Zenon
<1> QED
  BY <1>9, <1>10, Zenon DEF s, b

LEMMA FirmwareClean ==
  \E gaps : /\ {AupdGap(FirmwareAupd), DiskGap(FirmwareDisk), OsosGap(FirmwareOsos)} \subseteq gaps
            /\ Clean(FirmwarePlan, gaps)
<1> DEFINE s == FirmwarePlan
           a1 == \h5853800 + \h2c7c0
           n1 == \hb40
           a3 == \h5853800 + \h33178
           n3 == \h4ff50
           z1 == Zone({1}, a1, a1 + n1, Piece(a1 + n1, 0))
           z2 == Zone(1 + 1 .. 1 + 9, FirmwareAupd, AupdEnd(FirmwareAupd), AupdGap(FirmwareAupd))
           z3 == Zone({11}, a3, a3 + n3, Piece(a3 + n3, 0))
           z4 == Zone(11 + 1 .. 11 + 11, FirmwareDisk, DiskEnd(FirmwareDisk), DiskGap(FirmwareDisk))
           z5 == Zone(22 + 1 .. 22 + 21, FirmwareOsos, OsosEnd(FirmwareOsos), OsosGap(FirmwareOsos))
           Z == {z1, z2, z3, z4, z5}
<1>1. DOMAIN s = 1 .. 43
  <2>1. Listed(s, 43) /\ 43 \in Nat
    BY SMT, FirmwareParts
  <2> QED
    BY <2>1, ListedLen, Zenon
<1>2. Standing(s, z2) /\ Standing(s, z4) /\ Standing(s, z5)
  <2>2. /\ \A i \in 1 .. 9 : s[1 + i] = AupdPlan(FirmwareAupd)[i]
        /\ \A i \in 1 .. 11 : s[11 + i] = DiskPlan(FirmwareDisk)[i]
        /\ \A i \in 1 .. 21 : s[22 + i] = OsosPlan(FirmwareOsos)[i]
    BY SMT, FirmwareParts
  <2>3. 1 \in Nat /\ 11 \in Nat /\ 22 \in Nat
    OBVIOUS
  <2> HIDE DEF s
  <2>4. Standing(s, z2)
    BY <2>2, <2>3, Bases, AupdStands, Zenon
  <2>5. Standing(s, z4)
    BY <2>2, <2>3, Bases, DiskStands, Zenon
  <2>6. Standing(s, z5)
    BY <2>2, <2>3, Bases, OsosStands, Zenon
  <2> QED
    BY <2>4, <2>5, <2>6
<1>3. /\ a1 \in Nat /\ n1 \in Nat /\ a1 > 4 /\ n1 > 0 /\ s[1] = Words({Piece(a1, n1)})
      /\ a3 \in Nat /\ n3 \in Nat /\ a3 > 4 /\ n3 > 0 /\ s[11] = Words({Piece(a3, n3)})
  BY SMT, FirmwareParts
<1>4. \A z, y \in Z : z = y \/ z.hi <= y.lo \/ y.hi <= z.lo
  BY SMT DEF Zone, FirmwareAupd, FirmwareDisk, FirmwareOsos, AupdEnd, DiskEnd, OsosEnd
<1>5. z1.items = {1} /\ z2.items = 2 .. 10 /\ z3.items = {11} /\ z4.items = 12 .. 22 /\ z5.items = 23 .. 43
      /\ z2.gap = AupdGap(FirmwareAupd) /\ z4.gap = DiskGap(FirmwareDisk)
      /\ z5.gap = OsosGap(FirmwareOsos)
  BY SMT DEF Zone
<1> HIDE DEF s, a1, n1, a3, n3
<1>6. Standing(s, z1) /\ Standing(s, z3)
  BY <1>3, WordsStand, Zenon
<1> HIDE DEF z1, z2, z3, z4, z5
<1>7. \A i \in DOMAIN s : \E z \in Z : i \in z.items
  BY <1>1, <1>5, SMT
<1>8. \A z \in Z : Standing(s, z)
  BY <1>2, <1>6, Zenon
<1>9. {AupdGap(FirmwareAupd), DiskGap(FirmwareDisk), OsosGap(FirmwareOsos)} \subseteq {z.gap : z \in Z}
  BY <1>5, Zenon
<1> HIDE DEF Z
<1>10. Clean(s, {z.gap : z \in Z})
  BY <1>4, <1>7, <1>8, ZonesClean, Zenon
<1> QED
  BY <1>9, <1>10, Zenon DEF s

(* Whatever the length of what is appended.                                 *)
LEMMA ModuleClean ==
  ASSUME NEW n \in Nat
  PROVE  Clean(ModulePlan, {Piece(ModuleSize, n)})
<1> DEFINE s == ModulePlan
<1>1. \A i \in DOMAIN s : \A p \in Written(s, i) :
        p.from \in Nat /\ p.to \in Nat /\ p.to <= ModuleSize
  BY SMTT(60) DEF ModulePlan, LongEnough, Grow, Words, Stock, Piece, Written, ModuleSize
<1>2. \A i \in DOMAIN s : \A p \in Examined(s, i) :
        p.from \in Nat /\ p.to \in Nat /\ p.to <= ModuleSize
  BY SMTT(60) DEF ModulePlan, LongEnough, Grow, Words, Stock, Piece, Examined, ModuleSize
<1>3. \A i, k \in DOMAIN s : \A p \in Written(s, i), q \in Written(s, k) : p # q => Apart(p, q)
  BY SMTT(60) DEF ModulePlan, LongEnough, Grow, Words, Stock, Piece, Written, Apart
<1>4. \A i, k \in DOMAIN s : \A p \in Written(s, i), q \in Examined(s, k) :
        i < k => Apart(p, q)
  BY SMTT(60) DEF ModulePlan, LongEnough, Grow, Words, Stock, Piece, Written, Examined, Apart
<1>5. Piece(ModuleSize, n).from = ModuleSize
  BY DEF Piece
<1> HIDE DEF s
<1>6. \A i \in DOMAIN s : \A p \in Written(s, i), g \in {Piece(ModuleSize, n)} : Apart(p, g)
  BY <1>1, <1>5, Zenon DEF Apart
<1>7. \A i \in DOMAIN s : \A p \in Examined(s, i), g \in {Piece(ModuleSize, n)} : Apart(p, g)
  BY <1>2, <1>5, Zenon DEF Apart
<1>8. \A i \in DOMAIN s : \A p \in Written(s, i) \cup Examined(s, i) : p.from \in Nat /\ p.to \in Nat
  BY <1>1, <1>2, Zenon
<1> QED
  BY <1>3, <1>4, <1>6, <1>7, <1>8, Zenon DEF Clean, s

-----------------------------------------------------------------------------
(* Where the trampolines of a job are, by the items that place them.        *)

Items(j) == IF j = "recovery" THEN 14 ELSE IF j = "firmware" THEN 43 ELSE 8

Makers(j) ==
  CASE j = "recovery" -> {3, 7, 9, 11}
    [] j = "firmware" -> {5, 7, 9, 13, 17, 19, 21, 30, 32, 34, 38}
    [] j = "module" -> {2}

Starters(j) == IF j = "firmware" THEN {4, 29} ELSE {}
Bakers(j) == IF j = "recovery" THEN {6} ELSE IF j = "firmware" THEN {16} ELSE {}

LEMMA RecoveryItems ==
  /\ Plan("recovery")[3] = DiskPlace(RecoveryDisk, "scsibridge")
  /\ Plan("recovery")[7] = DiskPlace(RecoveryDisk, "erasedpage")
  /\ Plan("recovery")[9] = DiskPlace(RecoveryDisk, "ftlbridge")
  /\ Plan("recovery")[11] = DiskPlace(RecoveryDisk, "planeerase")
  /\ Plan("recovery")[6] = BakeTable(RecoveryDisk)
  /\ \A i \in (1 .. 14) \ {3, 6, 7, 9, 11} : Plan("recovery")[i].op \in Looks
<1> DEFINE s == RecoveryPlan
           t == DiskPlan(RecoveryDisk)
<1>1. Plan("recovery") = s
  BY DEF Plan
<1>2. s[1].op = "words" /\ s[13].op = "words" /\ s[14].op = "words"
  BY SMT, RecoveryParts DEF Words
<1>3. \A i \in 1 .. 11 : s[1 + i] = t[i]
  BY SMT, RecoveryParts
<1>4. /\ t[2] = DiskPlace(RecoveryDisk, "scsibridge")
      /\ t[6] = DiskPlace(RecoveryDisk, "erasedpage")
      /\ t[8] = DiskPlace(RecoveryDisk, "ftlbridge")
      /\ t[10] = DiskPlace(RecoveryDisk, "planeerase") /\ t[5] = BakeTable(RecoveryDisk)
      /\ \A i \in (1 .. 11) \ {2, 5, 6, 8, 10} : t[i].op \in Looks
  BY DiskItems, Bases, Zenon
<1> HIDE DEF s, t
<1>5. /\ s[3] = t[2] /\ s[6] = t[5] /\ s[7] = t[6] /\ s[9] = t[8] /\ s[11] = t[10]
  BY <1>3
<1>6. \A i \in (1 .. 14) \ {3, 6, 7, 9, 11} : s[i].op \in Looks
  <2> SUFFICES ASSUME NEW i \in (1 .. 14) \ {3, 6, 7, 9, 11} PROVE s[i].op \in Looks
    OBVIOUS
  <2>1. CASE i \in {1, 13, 14}
    BY <1>2, <2>1 DEF Looks
  <2>2. CASE i \in 2 .. 12
    <3> DEFINE m == i - 1
    <3>1. m \in (1 .. 11) \ {2, 5, 6, 8, 10} /\ i = 1 + m
      BY <2>2
    <3> HIDE DEF m
    <3> QED
      BY <1>3, <1>4, <3>1
  <2> QED
    BY <2>1, <2>2
<1> QED
  BY <1>1, <1>4, <1>5, <1>6

LEMMA FirmwareItems ==
  /\ Plan("firmware")[4] = Region(AupdGap(FirmwareAupd).from, AupdGap(FirmwareAupd).to)
  /\ Plan("firmware")[5] = Splice("planeerase")
  /\ Plan("firmware")[7] = Splice("erasedpage")
  /\ Plan("firmware")[9] = Splice("bbtscan")
  /\ Plan("firmware")[13] = DiskPlace(FirmwareDisk, "scsibridge")
  /\ Plan("firmware")[17] = DiskPlace(FirmwareDisk, "erasedpage")
  /\ Plan("firmware")[19] = DiskPlace(FirmwareDisk, "ftlbridge")
  /\ Plan("firmware")[21] = DiskPlace(FirmwareDisk, "planeerase")
  /\ Plan("firmware")[29] = Region(OsosGap(FirmwareOsos).from, OsosGap(FirmwareOsos).to)
  /\ Plan("firmware")[30] = Splice("planeerase")
  /\ Plan("firmware")[32] = Splice("erasedpage")
  /\ Plan("firmware")[34] = Splice("bbtscan")
  /\ Plan("firmware")[38] = Splice("blockbridge")
  /\ Plan("firmware")[16] = BakeTable(FirmwareDisk)
  /\ \A i \in (1 .. 43) \ {4, 5, 7, 9, 13, 16, 17, 19, 21, 29, 30, 32, 34, 38} :
       Plan("firmware")[i].op \in Looks
<1> DEFINE s == FirmwarePlan
           r == AupdPlan(FirmwareAupd)
           t == DiskPlan(FirmwareDisk)
           u == OsosPlan(FirmwareOsos)
<1>1. Plan("firmware") = s
  BY DEF Plan
<1>2. s[1].op = "words" /\ s[11].op = "words"
  BY SMT, FirmwareParts DEF Words
<1>3. /\ \A i \in 1 .. 9 : s[1 + i] = r[i]
      /\ \A i \in 1 .. 11 : s[11 + i] = t[i]
      /\ \A i \in 1 .. 21 : s[22 + i] = u[i]
  BY SMT, FirmwareParts
<1>4. /\ r[3] = Region(AupdGap(FirmwareAupd).from, AupdGap(FirmwareAupd).to)
      /\ r[4] = Splice("planeerase") /\ r[6] = Splice("erasedpage") /\ r[8] = Splice("bbtscan")
      /\ \A i \in (1 .. 9) \ {3, 4, 6, 8} : r[i].op \in Looks
  BY AupdItems, Bases, Zenon
<1>5. /\ t[2] = DiskPlace(FirmwareDisk, "scsibridge")
      /\ t[6] = DiskPlace(FirmwareDisk, "erasedpage")
      /\ t[8] = DiskPlace(FirmwareDisk, "ftlbridge")
      /\ t[10] = DiskPlace(FirmwareDisk, "planeerase") /\ t[5] = BakeTable(FirmwareDisk)
      /\ \A i \in (1 .. 11) \ {2, 5, 6, 8, 10} : t[i].op \in Looks
  BY DiskItems, Bases, Zenon
<1>6. /\ u[7] = Region(OsosGap(FirmwareOsos).from, OsosGap(FirmwareOsos).to)
      /\ u[8] = Splice("planeerase") /\ u[10] = Splice("erasedpage")
      /\ u[12] = Splice("bbtscan") /\ u[16] = Splice("blockbridge")
      /\ \A i \in (1 .. 21) \ {7, 8, 10, 12, 16} : u[i].op \in Looks
  BY OsosItems, Bases, Zenon
<1> HIDE DEF s, r, t, u
<1>7. /\ s[4] = r[3] /\ s[5] = r[4] /\ s[7] = r[6] /\ s[9] = r[8]
      /\ s[13] = t[2] /\ s[16] = t[5] /\ s[17] = t[6] /\ s[19] = t[8] /\ s[21] = t[10]
      /\ s[29] = u[7] /\ s[30] = u[8] /\ s[32] = u[10] /\ s[34] = u[12] /\ s[38] = u[16]
  BY <1>3
<1>8. ASSUME NEW i \in (1 .. 43) \ {4, 5, 7, 9, 13, 16, 17, 19, 21, 29, 30, 32, 34, 38}
      PROVE  s[i].op \in Looks
  <2>1. CASE i \in {1, 11}
    BY <1>2, <2>1 DEF Looks
  <2>2. CASE i \in 2 .. 10
    <3> DEFINE m == i - 1
    <3>1. m \in (1 .. 9) \ {3, 4, 6, 8} /\ i = 1 + m
      BY <2>2
    <3> HIDE DEF m
    <3> QED
      BY <1>3, <1>4, <3>1
  <2>3. CASE i \in 12 .. 22
    <3> DEFINE m == i - 11
    <3>1. m \in (1 .. 11) \ {2, 5, 6, 8, 10} /\ i = 11 + m
      BY <2>3
    <3> HIDE DEF m
    <3> QED
      BY <1>3, <1>5, <3>1
  <2>4. CASE i \in 23 .. 43
    <3> DEFINE m == i - 22
    <3>1. m \in (1 .. 21) \ {7, 8, 10, 12, 16} /\ i = 22 + m
      BY <2>4
    <3> HIDE DEF m
    <3> QED
      BY <1>3, <1>6, <3>1
  <2> QED
    BY <2>1, <2>2, <2>3, <2>4
<1> QED
  BY <1>1, <1>4, <1>5, <1>6, <1>7, <1>8

LEMMA PlansListed ==
  \A j \in Jobs : Listed(Plan(j), Items(j)) /\ Items(j) \in Nat \ {0}
<1>1. Listed(RecoveryPlan, 14) /\ Listed(FirmwarePlan, 43) /\ Listed(ModulePlan, 8)
  BY SMT, RecoveryParts, FirmwareParts, ModuleParts
<1>2. Plan("recovery") = RecoveryPlan /\ Plan("firmware") = FirmwarePlan
      /\ Plan("module") = ModulePlan
  BY DEF Plan
<1>3. Items("recovery") = 14 /\ Items("firmware") = 43 /\ Items("module") = 8
  BY DEF Items
<1> QED
  BY <1>1, <1>2, <1>3 DEF Jobs

(* The gaps of a job; a module's is what is appended to it.                 *)
Gaps(j) ==
  CASE j = "recovery" -> {DiskGap(RecoveryDisk)}
    [] j = "firmware" ->
         {AupdGap(FirmwareAupd), DiskGap(FirmwareDisk), OsosGap(FirmwareOsos)}
    [] j = "module" -> {Piece(ModuleSize, asm["efi_nand"])}

LEMMA PlansClean ==
  ASSUME asm \in Assemblies
  PROVE  \A j \in Jobs : Clean(Plan(j), Gaps(j))
<1>1. asm["efi_nand"] \in Nat
  BY PatchAssumption DEF Sources
<1>2. \A s, gaps, fewer : Clean(s, gaps) /\ fewer \subseteq gaps => Clean(s, fewer)
  BY ZenonT(40) DEF Clean
<1>3. Clean(Plan("recovery"), Gaps("recovery"))
  <2>1. Plan("recovery") = RecoveryPlan /\ Gaps("recovery") = {DiskGap(RecoveryDisk)}
    BY DEF Plan, Gaps
  <2>2. PICK gaps : DiskGap(RecoveryDisk) \in gaps /\ Clean(RecoveryPlan, gaps)
    BY RecoveryClean, Zenon
  <2>3. {DiskGap(RecoveryDisk)} \subseteq gaps
    BY <2>2, Zenon
  <2> QED
    BY <1>2, <2>1, <2>2, <2>3, Zenon
<1>4. Clean(Plan("firmware"), Gaps("firmware"))
  <2>1. Plan("firmware") = FirmwarePlan
        /\ Gaps("firmware") = {AupdGap(FirmwareAupd), DiskGap(FirmwareDisk), OsosGap(FirmwareOsos)}
    BY DEF Plan, Gaps
  <2> QED
    BY <1>2, <2>1, FirmwareClean, Zenon
<1>5. Clean(Plan("module"), Gaps("module"))
  <2>1. Plan("module") = ModulePlan /\ Gaps("module") = {Piece(ModuleSize, asm["efi_nand"])}
    BY DEF Plan, Gaps
  <2> QED
    BY <1>1, <2>1, ModuleClean, Zenon
<1> QED
  BY <1>3, <1>4, <1>5, Zenon DEF Jobs

-----------------------------------------------------------------------------
(* Where each trampoline lies: at its place in a gap of disk mode's, or     *)
(* behind what goes before it in a gap that is shared.                      *)
DiskBlob(b, src) == Trampoline(src, DiskModeOffset(b, DiskVA(src)))

Before(src) ==
  CASE src = "planeerase" -> 0
    [] src = "erasedpage" -> Aligned(asm["planeerase"])
    [] src = "bbtscan" -> Aligned(asm["planeerase"]) + Aligned(asm["erasedpage"])
    [] src = "blockbridge" ->
         Aligned(asm["planeerase"]) + Aligned(asm["erasedpage"]) + Aligned(asm["bbtscan"])
SplicedBlob(gap, src) == Trampoline(src, gap.from + Before(src))

Blob(j, i) ==
  CASE j = "recovery" /\ i = 3 -> DiskBlob(RecoveryDisk, "scsibridge")
    [] j = "recovery" /\ i = 7 -> DiskBlob(RecoveryDisk, "erasedpage")
    [] j = "recovery" /\ i = 9 -> DiskBlob(RecoveryDisk, "ftlbridge")
    [] j = "recovery" /\ i = 11 -> DiskBlob(RecoveryDisk, "planeerase")
    [] j = "firmware" /\ i = 5 -> SplicedBlob(AupdGap(FirmwareAupd), "planeerase")
    [] j = "firmware" /\ i = 7 -> SplicedBlob(AupdGap(FirmwareAupd), "erasedpage")
    [] j = "firmware" /\ i = 9 -> SplicedBlob(AupdGap(FirmwareAupd), "bbtscan")
    [] j = "firmware" /\ i = 13 -> DiskBlob(FirmwareDisk, "scsibridge")
    [] j = "firmware" /\ i = 17 -> DiskBlob(FirmwareDisk, "erasedpage")
    [] j = "firmware" /\ i = 19 -> DiskBlob(FirmwareDisk, "ftlbridge")
    [] j = "firmware" /\ i = 21 -> DiskBlob(FirmwareDisk, "planeerase")
    [] j = "firmware" /\ i = 30 -> SplicedBlob(OsosGap(FirmwareOsos), "planeerase")
    [] j = "firmware" /\ i = 32 -> SplicedBlob(OsosGap(FirmwareOsos), "erasedpage")
    [] j = "firmware" /\ i = 34 -> SplicedBlob(OsosGap(FirmwareOsos), "bbtscan")
    [] j = "firmware" /\ i = 38 -> SplicedBlob(OsosGap(FirmwareOsos), "blockbridge")
    [] j = "module" /\ i = 2 -> Trampoline("efi_nand", ModuleSize)

LEMMA BlobTable ==
  /\ Blob("recovery", 3) = DiskBlob(RecoveryDisk, "scsibridge")
  /\ Blob("recovery", 7) = DiskBlob(RecoveryDisk, "erasedpage")
  /\ Blob("recovery", 9) = DiskBlob(RecoveryDisk, "ftlbridge")
  /\ Blob("recovery", 11) = DiskBlob(RecoveryDisk, "planeerase")
  /\ Blob("firmware", 5) = SplicedBlob(AupdGap(FirmwareAupd), "planeerase")
  /\ Blob("firmware", 7) = SplicedBlob(AupdGap(FirmwareAupd), "erasedpage")
  /\ Blob("firmware", 9) = SplicedBlob(AupdGap(FirmwareAupd), "bbtscan")
  /\ Blob("firmware", 13) = DiskBlob(FirmwareDisk, "scsibridge")
  /\ Blob("firmware", 17) = DiskBlob(FirmwareDisk, "erasedpage")
  /\ Blob("firmware", 19) = DiskBlob(FirmwareDisk, "ftlbridge")
  /\ Blob("firmware", 21) = DiskBlob(FirmwareDisk, "planeerase")
  /\ Blob("firmware", 30) = SplicedBlob(OsosGap(FirmwareOsos), "planeerase")
  /\ Blob("firmware", 32) = SplicedBlob(OsosGap(FirmwareOsos), "erasedpage")
  /\ Blob("firmware", 34) = SplicedBlob(OsosGap(FirmwareOsos), "bbtscan")
  /\ Blob("firmware", 38) = SplicedBlob(OsosGap(FirmwareOsos), "blockbridge")
  /\ Blob("module", 2) = Trampoline("efi_nand", ModuleSize)
BY DEF Blob

LEMMA AlignedBy ==
  ASSUME NEW n \in Nat
  PROVE  /\ Aligned(n) \in Nat /\ n <= Aligned(n) /\ Aligned(n) % 4 = 0
         /\ \A g \in Nat : g % 4 = 0 => Aligned(g + n) = g + Aligned(n)
BY DEF Aligned

LEMMA DiskPacked ==
  ASSUME asm \in Assemblies, NEW b \in Nat,
         asm["scsibridge"] <= \h5b0, asm["ftlbridge"] <= \hb00,
         asm["erasedpage"] <= \h86c, asm["planeerase"] <= \h288
  PROVE  /\ \A src \in DiskSources : Inside(DiskBlob(b, src), DiskGap(b).from, DiskGap(b).to)
         /\ \A src, tgt \in DiskSources : src # tgt => Apart(DiskBlob(b, src), DiskBlob(b, tgt))
<1>1. \A src \in DiskSources : asm[src] \in Nat /\ asm[src] >= 8
  BY PatchAssumption DEF Sources, DiskSources
<1>2. /\ \A src \in DiskSources : DiskVA(src) \in Nat
      /\ DiskVA("scsibridge") = \h080385d0 /\ DiskVA("ftlbridge") = \h08038b80
      /\ DiskVA("planeerase") = \h08039680 /\ DiskVA("erasedpage") = \h08039a00
  BY SMT DEF DiskVA, DiskSources
<1> QED
  BY <1>1, <1>2, SMTT(60) DEF DiskSources, DiskBlob, DiskModeOffset, DiskGap, Trampoline, Inside, Apart

LEMMA SplicesPacked ==
  ASSUME asm \in Assemblies, NEW gap, gap.from \in Nat, gap.to \in Nat,
         NEW S \in SUBSET {"planeerase", "erasedpage", "bbtscan", "blockbridge"},
         \A src \in S : Before(src) + asm[src] <= gap.to - gap.from
  PROVE  /\ \A src \in S : Inside(SplicedBlob(gap, src), gap.from, gap.to)
         /\ \A src, tgt \in S : src # tgt => Apart(SplicedBlob(gap, src), SplicedBlob(gap, tgt))
<1>1. \A src \in {"planeerase", "erasedpage", "bbtscan", "blockbridge"} :
        asm[src] \in Nat /\ asm[src] >= 8 /\ Aligned(asm[src]) \in Nat /\ Aligned(asm[src]) >= asm[src]
  BY PatchAssumption, AlignedBy DEF Sources
<1>2. /\ Before("planeerase") = 0 /\ Before("erasedpage") = Aligned(asm["planeerase"])
      /\ Before("bbtscan") = Aligned(asm["planeerase"]) + Aligned(asm["erasedpage"])
      /\ Before("blockbridge") = Aligned(asm["planeerase"]) + Aligned(asm["erasedpage"])
                                   + Aligned(asm["bbtscan"])
  BY DEF Before
<1> QED
  BY <1>1, <1>2, SMTT(60) DEF SplicedBlob, Trampoline, Inside, Apart

(* The trampolines of a job lie in its gaps and do not meet.                *)
Fit(j) ==
  /\ \A i \in Makers(j) : \E g \in Gaps(j) : Inside(Blob(j, i), g.from, g.to)
  /\ \A i, m \in Makers(j) : i # m => Apart(Blob(j, i), Blob(j, m))

LEMMA RecoveryFits ==
  ASSUME asm \in Assemblies, GapsSuffice
  PROVE  Fit("recovery")
<1> DEFINE b == RecoveryDisk
           g == DiskGap(b)
           B(i) == Blob("recovery", i)
<1>1. /\ B(3) = DiskBlob(b, "scsibridge") /\ B(7) = DiskBlob(b, "erasedpage")
      /\ B(9) = DiskBlob(b, "ftlbridge") /\ B(11) = DiskBlob(b, "planeerase")
  BY BlobTable
<1>2. /\ \A src \in DiskSources : Inside(DiskBlob(b, src), g.from, g.to)
      /\ \A src, tgt \in DiskSources : src # tgt => Apart(DiskBlob(b, src), DiskBlob(b, tgt))
  BY SMT, Bases, DiskPacked DEF GapsSuffice
<1>3. Makers("recovery") = {3, 7, 9, 11} /\ Gaps("recovery") = {g}
  BY DEF Makers, Gaps
<1> HIDE DEF b, g, B
<1>4. \A i \in {3, 7, 9, 11} : Inside(B(i), g.from, g.to)
  BY <1>1, <1>2 DEF DiskSources
<1>5. \A i, m \in {3, 7, 9, 11} : i # m => Apart(B(i), B(m))
  BY <1>1, <1>2 DEF DiskSources
<1> QED
  BY <1>3, <1>4, <1>5 DEF Fit, B

LEMMA FirmwareFits ==
  ASSUME asm \in Assemblies, job = "firmware", GapsSuffice
  PROVE  Fit("firmware")
<1> DEFINE gA == AupdGap(FirmwareAupd)
           gD == DiskGap(FirmwareDisk)
           gO == OsosGap(FirmwareOsos)
           B(i) == Blob("firmware", i)
           I == {5, 7, 9}
           J == {13, 17, 19, 21}
           K == {30, 32, 34, 38}
<1>1. /\ B(5) = SplicedBlob(gA, "planeerase") /\ B(7) = SplicedBlob(gA, "erasedpage")
      /\ B(9) = SplicedBlob(gA, "bbtscan")
  BY BlobTable
<1>2. /\ B(13) = DiskBlob(FirmwareDisk, "scsibridge") /\ B(17) = DiskBlob(FirmwareDisk, "erasedpage")
      /\ B(19) = DiskBlob(FirmwareDisk, "ftlbridge") /\ B(21) = DiskBlob(FirmwareDisk, "planeerase")
  BY BlobTable
<1>3. /\ B(30) = SplicedBlob(gO, "planeerase") /\ B(32) = SplicedBlob(gO, "erasedpage")
      /\ B(34) = SplicedBlob(gO, "bbtscan") /\ B(38) = SplicedBlob(gO, "blockbridge")
  BY BlobTable
<1>4. Makers("firmware") = I \cup J \cup K /\ Gaps("firmware") = {gA, gD, gO}
  BY DEF Makers, Gaps
<1>5. /\ gA.from \in Nat /\ gA.to \in Nat /\ gD.from \in Nat /\ gD.to \in Nat
      /\ gO.from \in Nat /\ gO.to \in Nat
      /\ gO.to <= gA.from /\ gA.from <= gA.to /\ gA.to <= gD.from /\ gD.from <= gD.to
      /\ gO.from <= gO.to
      /\ gA.to - gA.from = \h858 /\ gO.to - gO.from = \he74
  BY SMT DEF AupdGap, DiskGap, DiskModeOffset, OsosGap, FirmwareAupd, FirmwareDisk, FirmwareOsos
<1>6. /\ \A src \in DiskSources : Inside(DiskBlob(FirmwareDisk, src), gD.from, gD.to)
      /\ \A src, tgt \in DiskSources :
           src # tgt => Apart(DiskBlob(FirmwareDisk, src), DiskBlob(FirmwareDisk, tgt))
  BY SMT, Bases, DiskPacked DEF GapsSuffice
<1>7. \A src \in {"planeerase", "erasedpage", "bbtscan", "blockbridge"} :
        asm[src] \in Nat /\ Aligned(asm[src]) \in Nat /\ Aligned(asm[src]) >= asm[src]
  BY PatchAssumption, AlignedBy DEF Sources
<1>8. /\ Before("planeerase") = 0 /\ Before("erasedpage") = Aligned(asm["planeerase"])
      /\ Before("bbtscan") = Aligned(asm["planeerase"]) + Aligned(asm["erasedpage"])
      /\ Before("blockbridge") = Aligned(asm["planeerase"]) + Aligned(asm["erasedpage"])
                                   + Aligned(asm["bbtscan"])
  BY DEF Before
<1> DEFINE S3 == {"planeerase", "erasedpage", "bbtscan"}
           S4 == {"planeerase", "erasedpage", "bbtscan", "blockbridge"}
<1>9. /\ \A src \in S3 : Before(src) + asm[src] <= \h858
      /\ \A src \in S4 : Before(src) + asm[src] <= \he74
  BY SMT, <1>7, <1>8 DEF GapsSuffice
<1> HIDE DEF gA, gD, gO, B
<1>10. /\ \A src \in S3 : Inside(SplicedBlob(gA, src), gA.from, gA.to)
       /\ \A src, tgt \in S3 : src # tgt => Apart(SplicedBlob(gA, src), SplicedBlob(gA, tgt))
  <2>1. \A src \in S3 : Before(src) + asm[src] <= gA.to - gA.from
    BY SMT, <1>5, <1>9
  <2>2. gA.from \in Nat /\ gA.to \in Nat /\ S3 \in SUBSET S4
    BY <1>5
  <2> QED
    BY <2>1, <2>2, SplicesPacked, Zenon
<1>11. /\ \A src \in S4 : Inside(SplicedBlob(gO, src), gO.from, gO.to)
       /\ \A src, tgt \in S4 : src # tgt => Apart(SplicedBlob(gO, src), SplicedBlob(gO, tgt))
  <2>1. \A src \in S4 : Before(src) + asm[src] <= gO.to - gO.from
    BY SMT, <1>5, <1>9
  <2>2. gO.from \in Nat /\ gO.to \in Nat /\ S4 \in SUBSET S4
    BY <1>5
  <2> QED
    BY <2>1, <2>2, SplicesPacked, Zenon
<1>12. /\ \A i \in I : Inside(B(i), gA.from, gA.to)
       /\ \A i, m \in I : i # m => Apart(B(i), B(m))
  BY <1>1, <1>10
<1>13. /\ \A i \in J : Inside(B(i), gD.from, gD.to)
       /\ \A i, m \in J : i # m => Apart(B(i), B(m))
  BY <1>2, <1>6 DEF DiskSources
<1>14. /\ \A i \in K : Inside(B(i), gO.from, gO.to)
       /\ \A i, m \in K : i # m => Apart(B(i), B(m))
  BY <1>3, <1>11
<1> HIDE DEF I, J, K
<1>15. \A i \in I, m \in J : Apart(B(i), B(m)) /\ Apart(B(m), B(i))
  BY SMT, <1>5, <1>12, <1>13 DEF Inside, Apart
<1>16. \A i \in I, m \in K : Apart(B(i), B(m)) /\ Apart(B(m), B(i))
  BY SMT, <1>5, <1>12, <1>14 DEF Inside, Apart
<1>17. \A i \in J, m \in K : Apart(B(i), B(m)) /\ Apart(B(m), B(i))
  BY SMT, <1>5, <1>13, <1>14 DEF Inside, Apart
<1>18. \A i, m \in I \cup J \cup K : i # m => Apart(B(i), B(m))
  BY Zenon, <1>12, <1>13, <1>14, <1>15, <1>16, <1>17
<1>19. \A i \in I \cup J \cup K : \E g \in {gA, gD, gO} : Inside(B(i), g.from, g.to)
  BY Zenon, <1>12, <1>13, <1>14
<1> QED
  BY Zenon, <1>4, <1>18, <1>19 DEF Fit, B

LEMMA BlobsFit ==
  ASSUME asm \in Assemblies, job \in Jobs, job # "module" => GapsSuffice
  PROVE  Fit(job)
<1>1. CASE job = "recovery"
  BY <1>1, RecoveryFits
<1>2. CASE job = "firmware"
  BY <1>2, FirmwareFits
<1>3. CASE job = "module"
  <2> DEFINE n == asm["efi_nand"]
             at == ModuleSize
  <2>1. Makers("module") = {2} /\ Gaps("module") = {Piece(at, n)}
        /\ Blob("module", 2) = Trampoline("efi_nand", at)
    BY BlobTable DEF Makers, Gaps
  <2>2. n \in Nat /\ n >= 8 /\ at \in Nat
    BY SMT, PatchAssumption DEF Sources, ModuleSize
  <2> HIDE DEF at
  <2>3. Inside(Trampoline("efi_nand", at), Piece(at, n).from, Piece(at, n).to)
    BY <2>2 DEF Inside, Trampoline, Piece
  <2>4. Fit("module")
    BY <2>1, <2>3 DEF Fit
  <2> QED
    BY <1>3, <2>4
<1> QED
  BY <1>1, <1>2, <1>3 DEF Jobs

-----------------------------------------------------------------------------
(* What is left of a plan of n items, when k of them are done.              *)
Rest(s, k, n) == [i \in 1 .. n - k |-> s[k + i]]

LEMMA RestOfPlan ==
  ASSUME NEW s, NEW n \in Nat, Listed(s, n)
  PROVE  /\ Rest(s, 0, n) = s /\ Rest(s, n, n) = <<>>
         /\ \A k \in 0 .. n - 1 : /\ Rest(s, k, n) # <<>>
                                  /\ Head(Rest(s, k, n)) = s[k + 1]
                                  /\ Tail(Rest(s, k, n)) = Rest(s, k + 1, n)
<1>1. Rest(s, 0, n) = s
  BY DEF Rest, Listed
<1>2. Rest(s, n, n) = <<>>
  BY DEF Rest
<1>3. ASSUME NEW k \in 0 .. n - 1
      PROVE  /\ Rest(s, k, n) # <<>> /\ Head(Rest(s, k, n)) = s[k + 1]
             /\ Tail(Rest(s, k, n)) = Rest(s, k + 1, n)
  <2> DEFINE t == Rest(s, k, n)
  <2>1. t = [i \in 1 .. n - k |-> s[k + i]] /\ n - k \in Nat \ {0}
    BY DEF Rest
  <2>2. Len(t) = n - k
    BY <2>1
  <2>3. Head(t) = t[1] /\ t # <<>> /\ t[1] = s[k + 1]
    BY <2>1, <2>2
  <2>4. Tail(t) = [i \in 1 .. Len(t) - 1 |-> t[i + 1]]
    BY <2>1, <2>2
  <2>5. \A i \in 1 .. n - (k + 1) : t[i + 1] = s[(k + 1) + i]
    <3> TAKE i \in 1 .. n - (k + 1)
    <3> DEFINE m == i + 1
    <3>1. m \in 1 .. n - k /\ k + m = (k + 1) + i
      OBVIOUS
    <3> HIDE DEF m
    <3>2. t[m] = s[k + m]
      BY <2>1, <3>1
    <3> QED
      BY <3>1, <3>2 DEF m
  <2>6. Len(t) - 1 = n - (k + 1)
    BY <2>2
  <2> HIDE DEF t
  <2>7. Tail(t) = Rest(s, k + 1, n)
    BY <2>4, <2>5, <2>6 DEF Rest
  <2> QED
    BY <2>3, <2>7 DEF t
<1> QED
  BY <1>1, <1>2, <1>3

(* What the first k items of a plan have written, and what they have placed.*)
WroteBy(j, k) == UNION {Written(Plan(j), i) : i \in 1 .. k}
BlobsBy(j, k) == {Blob(j, i) : i \in {m \in Makers(j) : m <= k}}

(* What they have shown of the assembled lengths.                           *)
DiskPassed(k, off) ==
  /\ k >= off + 6 => asm["erasedpage"] <= \h86c
  /\ k >= off + 8 => asm["scsibridge"] <= \h5b0
  /\ k >= off + 10 => asm["planeerase"] <= \h288 /\ asm["ftlbridge"] <= \hb00
Passed(j, k) ==
  /\ j = "recovery" => DiskPassed(k, 1)
  /\ j = "firmware" =>
       /\ k >= 9 => Before("bbtscan") + asm["bbtscan"] <= \h858
       /\ DiskPassed(k, 11)
       /\ k >= 38 => Before("blockbridge") + asm["blockbridge"] <= \he74

(* Where the next trampoline of a shared gap goes.                          *)
Awaits(gap, src) ==
  /\ next = [from |-> next.from, to |-> gap.to]
  /\ next.from \in Nat /\ Aligned(next.from) = gap.from + Before(src)
Cursor(j, k) ==
  j = "firmware" =>
    /\ k = 4 => Awaits(AupdGap(FirmwareAupd), "planeerase")
    /\ k \in 5 .. 6 => Awaits(AupdGap(FirmwareAupd), "erasedpage")
    /\ k \in 7 .. 8 => Awaits(AupdGap(FirmwareAupd), "bbtscan")
    /\ k = 29 => Awaits(OsosGap(FirmwareOsos), "planeerase")
    /\ k \in 30 .. 31 => Awaits(OsosGap(FirmwareOsos), "erasedpage")
    /\ k \in 32 .. 33 => Awaits(OsosGap(FirmwareOsos), "bbtscan")
    /\ k \in 34 .. 37 => Awaits(OsosGap(FirmwareOsos), "blockbridge")

Loaded(j, k) ==
  j = "module" =>
    LET end == ModuleSize + IF k >= 2 THEN asm["efi_nand"] ELSE 0
    IN  mapped = [end |-> end, header |-> end]

(* A descriptor that went astray is not among what the plan wrote.          *)
FirstTime(k) ==
  /\ wrote \subseteq WroteBy(job, k) /\ (job = "module" => wrote = WroteBy(job, k))
  /\ ~TableMoved => astray = {}
  /\ blobs = BlobsBy(job, k)
  /\ Passed(job, k) /\ Cursor(job, k) /\ Loaded(job, k)

(* An image that holds its patches already is refused at one of the checks. *)
Catcher(j) == IF j = "recovery" THEN 11 ELSE IF j = "firmware" THEN 21 ELSE 4
Trap(j) ==
  IF j = "module" THEN Piece(\h22e, 16)
  ELSE Piece(Blob(j, Catcher(j)).from, Blob(j, Catcher(j)).to - Blob(j, Catcher(j)).from)

Done(k) ==
  /\ job \in Jobs /\ asm \in Assemblies
  /\ k \in 0 .. Items(job) /\ todo = Rest(Plan(job), k, Items(job))
  /\ patchPc = IF k = Items(job) THEN "ok" ELSE "patching"
  /\ earlier = {} => FirstTime(k)
  /\ earlier # {} => k < Catcher(job) /\ Trap(job) \in earlier

PatchInv ==
  /\ patchPc \in {"idle", "patching", "ok", "error"}
  /\ patchPc = "idle" => blobs = {} /\ wrote = {} /\ astray = {} /\ earlier = {}
  /\ patchPc \in {"patching", "ok"} => \E k \in Nat : Done(k)
  /\ StockIsAccepted

LEMMA AllPassed ==
  ASSUME job \in Jobs, job # "module", Passed(job, Items(job)), asm \in Assemblies
  PROVE  GapsSuffice
<1>1. \A src \in {"planeerase", "erasedpage", "bbtscan", "blockbridge"} :
        asm[src] \in Nat /\ Aligned(asm[src]) \in Nat /\ Aligned(asm[src]) >= asm[src]
  BY PatchAssumption, AlignedBy DEF Sources
<1>2. /\ Before("bbtscan") = Aligned(asm["planeerase"]) + Aligned(asm["erasedpage"])
      /\ Before("blockbridge") = Aligned(asm["planeerase"]) + Aligned(asm["erasedpage"])
                                   + Aligned(asm["bbtscan"])
  BY DEF Before
<1>3. CASE job = "recovery"
  BY SMT, <1>3 DEF Passed, DiskPassed, Items, GapsSuffice
<1>4. CASE job = "firmware"
  BY SMT, <1>1, <1>2, <1>4 DEF Passed, DiskPassed, Items, GapsSuffice
<1> QED
  BY <1>3, <1>4 DEF Jobs

(* The bytes of a trampoline lie within it.                                 *)
LEMMA CodeWithin ==
  ASSUME asm \in Assemblies, NEW src \in Sources, NEW at \in Nat, NEW p,
         p.from \in Nat, p.to \in Nat, Apart(p, Trampoline(src, at)),
         NEW q \in Code(Trampoline(src, at))
  PROVE  Apart(p, q)
<1>1. asm[src] \in Nat /\ asm[src] >= 8 /\ (src = "ftlbridge" => asm[src] >= 28)
  BY PatchAssumption
<1>2. q.from \in Int /\ q.to \in Int /\ at <= q.from /\ q.to <= at + asm[src]
  <2> DEFINE n == asm[src]
  <2>1. n \in Nat /\ n >= 8 /\ (src = "ftlbridge" => n >= 28)
    BY <1>1
  <2> HIDE DEF n
  <2> DEFINE b == Trampoline(src, at)
  <2>2. b.src = src /\ b.from = at /\ b.to = at + n
    BY Zenon DEF Trampoline, n
  <2> HIDE DEF b
  <2>3. q \in Code(b)
    BY Zenon DEF b
  <2>4. CASE src = "ftlbridge"
    <3>1. q = Piece(b.from, b.to - b.from - 28) \/ q = Piece(b.to - 24, 24)
      BY <2>2, <2>3, <2>4, Zenon DEF Code
    <3>2. q.from \in Int /\ q.to \in Int /\ at <= q.from /\ q.to <= at + n
      BY <2>1, <2>2, <2>4, <3>1, SMT DEF Piece
    <3> QED
      BY <3>2 DEF n
  <2>5. CASE src # "ftlbridge"
    <3>1. q = Piece(b.from, b.to - b.from)
      BY <2>2, <2>3, <2>5, Zenon DEF Code
    <3>2. q.from \in Int /\ q.to \in Int /\ at <= q.from /\ q.to <= at + n
      BY <2>1, <2>2, <3>1, SMT DEF Piece
    <3> QED
      BY <3>2 DEF n
  <2> QED
    BY <2>4, <2>5
<1> QED
  BY <1>1, <1>2 DEF Apart, Trampoline

LEMMA GapsTyped ==
  ASSUME asm \in Assemblies, job \in Jobs
  PROVE  \A g \in Gaps(job) : g.from \in Nat /\ g.to \in Nat
<1>1. asm["efi_nand"] \in Nat
  BY PatchAssumption DEF Sources
<1>2. \A b \in Nat : /\ AupdGap(b).from \in Nat /\ AupdGap(b).to \in Nat
                    /\ DiskGap(b).from \in Nat /\ DiskGap(b).to \in Nat
                    /\ OsosGap(b).from \in Nat /\ OsosGap(b).to \in Nat
  BY SMT DEF AupdGap, DiskGap, DiskModeOffset, OsosGap
<1>3. \A n \in Nat : Piece(ModuleSize, n).from \in Nat /\ Piece(ModuleSize, n).to \in Nat
  BY SMT DEF Piece, ModuleSize
<1>4. \A g \in Gaps("recovery") : g.from \in Nat /\ g.to \in Nat
  BY <1>2, Bases, Zenon DEF Gaps
<1>5. \A g \in Gaps("firmware") : g.from \in Nat /\ g.to \in Nat
  <2>1. Gaps("firmware") = {AupdGap(FirmwareAupd), DiskGap(FirmwareDisk), OsosGap(FirmwareOsos)}
    BY DEF Gaps
  <2> QED
    BY <1>2, <2>1, Bases, Zenon
<1>6. \A g \in Gaps("module") : g.from \in Nat /\ g.to \in Nat
  <2>1. Gaps("module") = {Piece(ModuleSize, asm["efi_nand"])}
    BY DEF Gaps
  <2> QED
    BY <1>1, <1>3, <2>1, Zenon
<1> QED
  BY <1>4, <1>5, <1>6, Zenon DEF Jobs

(* Trampolines, at addresses.                                               *)
LEMMA BlobsAreTrampolines ==
  ASSUME asm \in Assemblies, job \in Jobs, NEW i \in Makers(job)
  PROVE  \E src \in Sources, at \in Nat : Blob(job, i) = Trampoline(src, at)
<1> DEFINE Shared == {"planeerase", "erasedpage", "bbtscan", "blockbridge"}
           gA == AupdGap(FirmwareAupd)
           gO == OsosGap(FirmwareOsos)
           Is(b) == \E src \in Sources, at \in Nat : b = Trampoline(src, at)
<1>1. \A src \in DiskSources, b \in Nat :
        src \in Sources /\ DiskModeOffset(b, DiskVA(src)) \in Nat
  BY SMT DEF DiskSources, Sources, DiskModeOffset, DiskVA
<1>2. \A src \in DiskSources, b \in Nat : Is(DiskBlob(b, src))
  BY <1>1, Zenon DEF DiskBlob
<1>3. gA.from \in Nat /\ gO.from \in Nat
  BY SMT DEF AupdGap, OsosGap, FirmwareAupd, FirmwareOsos
<1> HIDE DEF gA, gO
<1>4. ASSUME NEW src \in Shared, NEW gap \in {gA, gO}
      PROVE  Is(SplicedBlob(gap, src))
  <2>1. \A t \in Shared : t \in Sources /\ Aligned(asm[t]) \in Nat
    BY PatchAssumption, AlignedBy DEF Sources
  <2>2. Before(src) \in Nat
    BY <2>1 DEF Before
  <2>3. src \in Sources /\ gap.from + Before(src) \in Nat
    BY <1>3, <2>1, <2>2
  <2> QED
    BY <2>3, Zenon DEF SplicedBlob
<1>5. "efi_nand" \in Sources /\ ModuleSize \in Nat
  BY SMT DEF Sources, ModuleSize
<1>6. Is(Trampoline("efi_nand", ModuleSize))
  BY <1>5, Zenon
<1>7. DiskSources = {"scsibridge", "ftlbridge", "planeerase", "erasedpage"}
  BY DEF DiskSources
<1> HIDE DEF Is
<1>8. \A m \in {3, 7, 9, 11} : Is(Blob("recovery", m))
  BY <1>2, <1>7, Bases, BlobTable, Zenon
<1>9. \A m \in {13, 17, 19, 21} : Is(Blob("firmware", m))
  BY <1>2, <1>7, Bases, BlobTable, Zenon
<1>10. \A m \in {5, 7, 9} : Is(Blob("firmware", m))
  BY <1>4, BlobTable, Zenon DEF gA
<1>11. \A m \in {30, 32, 34, 38} : Is(Blob("firmware", m))
  BY <1>4, BlobTable, Zenon DEF gO
<1>12. \A m \in Makers("recovery") : Is(Blob("recovery", m))
  BY <1>8 DEF Makers
<1>13. \A m \in Makers("firmware") : Is(Blob("firmware", m))
  BY <1>9, <1>10, <1>11 DEF Makers
<1>14. \A m \in Makers("module") : Is(Blob("module", m))
  BY <1>6, BlobTable DEF Makers
<1>15. Is(Blob(job, i))
  BY <1>12, <1>13, <1>14 DEF Jobs
<1> QED
  BY <1>15 DEF Is

LEMMA MakersAreItems == \A j \in Jobs : Makers(j) \subseteq 1 .. Items(j)
<1>1. Makers("recovery") \subseteq 1 .. 14 /\ Makers("firmware") \subseteq 1 .. 43
      /\ Makers("module") \subseteq 1 .. 8
  BY DEF Makers
<1> QED
  BY <1>1 DEF Jobs, Items

(* As long as the gaps suffice, no check of a stock image, patched for the  *)
(* first time, trips over what the items before it did, and no trampoline   *)
(* that is still to come lies over anything.                                *)
LEMMA NothingInTheWay ==
  ASSUME job \in Jobs, asm \in Assemblies, Fit(job), drift = {}, earlier = {},
         NEW k \in 0 .. Items(job) - 1, FirstTime(k)
  PROVE  /\ \A p \in Examined(Plan(job), k + 1) : Untouched(p)
         /\ \A i \in Makers(job) : i > k => Untouched(Blob(job, i))
<1> DEFINE s == Plan(job)
           n == Items(job)
<1>1. n \in Nat \ {0} /\ DOMAIN s = 1 .. n
  BY PlansListed, ListedLen, Zenon
<1>2. Clean(s, Gaps(job))
  BY PlansClean, Zenon
<1>3. Foreign = wrote \cup UNION {Code(b) : b \in blobs}
  <2>1. ~TableMoved
    BY Zenon DEF TableMoved
  <2>2. astray = {}
    BY <2>1, Zenon DEF FirstTime
  <2>3. {Piece(p.from, \h2a) : p \in astray} = {}
    BY <2>2, Zenon
  <2> QED
    BY <2>3, Zenon DEF Foreign
<1>4. \A p : (\A q \in Foreign : Apart(p, q)) => Untouched(p)
  BY Zenon DEF Untouched
<1>5. wrote \subseteq WroteBy(job, k) /\ blobs = BlobsBy(job, k)
  BY Zenon DEF FirstTime
<1> HIDE DEF s, n
<1>6. ASSUME NEW p \in Examined(s, k + 1) PROVE Untouched(p)
  <2>1. k + 1 \in DOMAIN s /\ k + 1 \in Nat
    BY <1>1 DEF n
  <2>2. p.from \in Nat /\ p.to \in Nat /\ \A g \in Gaps(job) : Apart(p, g)
    BY <1>2, <2>1, Zenon DEF Clean
  <2>3. ASSUME NEW q \in wrote PROVE Apart(p, q)
    <3>1. PICK i \in 1 .. k : q \in Written(s, i)
      BY <1>5, Zenon DEF WroteBy, s
    <3>2. i \in DOMAIN s /\ i < k + 1
      BY <1>1, <3>1 DEF n
    <3>3. Apart(q, p)
      BY <1>2, <2>1, <3>1, <3>2, Zenon DEF Clean
    <3> QED
      BY <3>3, Zenon DEF Apart
  <2>4. ASSUME NEW b \in blobs, NEW q \in Code(b) PROVE Apart(p, q)
    <3>1. PICK i \in Makers(job) : b = Blob(job, i)
      BY <1>5, Zenon DEF BlobsBy
    <3>2. PICK g \in Gaps(job) : Inside(b, g.from, g.to)
      BY <3>1, Zenon DEF Fit
    <3>3. PICK src \in Sources, at \in Nat : b = Trampoline(src, at)
      BY <3>1, BlobsAreTrampolines, Zenon
    <3>4. Apart(p, g)
      BY <2>2, Zenon
    <3>5. g.from \in Nat /\ g.to \in Nat
      BY GapsTyped, Zenon
    <3>6. Apart(p, b)
      BY <2>2, <3>2, <3>4, <3>5, SMT DEF Apart, Inside
    <3>7. Apart(p, Trampoline(src, at)) /\ q \in Code(Trampoline(src, at))
      BY <3>3, <3>6, Zenon
    <3> QED
      BY <2>2, <3>7, CodeWithin, Zenon
  <2> QED
    BY <1>3, <1>4, <2>3, <2>4, Zenon
<1>7. ASSUME NEW i \in Makers(job), i > k PROVE Untouched(Blob(job, i))
  <2> DEFINE p == Blob(job, i)
  <2>1. PICK g \in Gaps(job) : Inside(p, g.from, g.to)
    BY Zenon DEF Fit
  <2>2. p.from \in Nat /\ p.to \in Nat /\ g.from \in Nat /\ g.to \in Nat
    BY <2>1, GapsTyped, Zenon DEF Inside
  <2> HIDE DEF p
  <2>3. ASSUME NEW q \in wrote PROVE Apart(p, q)
    <3>1. PICK m \in 1 .. k : q \in Written(s, m)
      BY <1>5, Zenon DEF WroteBy, s
    <3>2. m \in DOMAIN s
      BY <1>1, <3>1 DEF n
    <3>3. Apart(q, g) /\ q.from \in Nat /\ q.to \in Nat
      BY <1>2, <3>1, <3>2, Zenon DEF Clean
    <3> QED
      BY <2>1, <2>2, <3>3, SMT DEF Apart, Inside
  <2>4. ASSUME NEW b \in blobs, NEW q \in Code(b) PROVE Apart(p, q)
    <3>1. PICK m \in Makers(job) : m <= k /\ b = Blob(job, m)
      BY <1>5, Zenon DEF BlobsBy
    <3>2. m # i
      <4>1. m \in Nat /\ i \in Nat
        BY PlansListed, MakersAreItems
      <4> QED
        BY <1>7, <3>1, <4>1
    <3>3. Apart(p, b)
      BY <3>1, <3>2, Zenon DEF Fit, p
    <3>4. PICK src \in Sources, at \in Nat : b = Trampoline(src, at)
      BY <3>1, BlobsAreTrampolines, Zenon
    <3>5. Apart(p, Trampoline(src, at)) /\ q \in Code(Trampoline(src, at))
      BY <3>3, <3>4, Zenon
    <3> QED
      BY <2>2, <3>5, CodeWithin, Zenon
  <2>5. Untouched(p)
    BY <1>3, <1>4, <2>3, <2>4, Zenon
  <2> QED
    BY <2>5 DEF p
<1> QED
  BY <1>6, <1>7 DEF s

-----------------------------------------------------------------------------
(* Steps of a job.                                                          *)

LEMMA KindsOfItems ==
  \A j \in Jobs : \A i \in 1 .. Items(j) :
    IF i \in Makers(j) THEN Plan(j)[i].op \in {"place", "splice", "grow"}
    ELSE IF i \in Starters(j) THEN Plan(j)[i].op = "region"
    ELSE IF i \in Bakers(j) THEN Plan(j)[i].op = "table" ELSE Plan(j)[i].op \in Looks
<1>1. \A b, src : src \in DiskSources => DiskPlace(b, src).op = "place"
  BY SMT DEF DiskPlace, Place, DiskSources
<1>2. \A src : Splice(src).op = "splice"
  BY DEF Splice
<1>3. \A x, y : Region(x, y).op = "region"
  BY DEF Region
<1>0. \A b : BakeTable(b).op = "table"
  BY DEF BakeTable
<1>4. \A i \in 1 .. 14 : IF i \in {3, 7, 9, 11} THEN Plan("recovery")[i].op = "place"
                         ELSE IF i = 6 THEN Plan("recovery")[i].op = "table"
                         ELSE Plan("recovery")[i].op \in Looks
  BY SMT, <1>0, <1>1, RecoveryItems DEF DiskSources
<1>5. \A i \in 1 .. 43 :
        IF i \in {5, 7, 9, 13, 17, 19, 21, 30, 32, 34, 38}
        THEN Plan("firmware")[i].op \in {"place", "splice"}
        ELSE IF i \in {4, 29} THEN Plan("firmware")[i].op = "region"
        ELSE IF i = 16 THEN Plan("firmware")[i].op = "table"
        ELSE Plan("firmware")[i].op \in Looks
  BY SMT, <1>0, <1>1, <1>2, <1>3, FirmwareItems DEF DiskSources
<1>6. \A i \in 1 .. 8 : IF i = 2 THEN Plan("module")[i].op = "grow"
                        ELSE Plan("module")[i].op \in Looks
  BY ModuleParts DEF Plan, Grow
<1>7. /\ Makers("recovery") = {3, 7, 9, 11} /\ Starters("recovery") = {} /\ Items("recovery") = 14
      /\ Makers("firmware") = {5, 7, 9, 13, 17, 19, 21, 30, 32, 34, 38}
      /\ Starters("firmware") = {4, 29} /\ Items("firmware") = 43
      /\ Bakers("recovery") = {6} /\ Bakers("firmware") = {16} /\ Bakers("module") = {}
      /\ Makers("module") = {2} /\ Starters("module") = {} /\ Items("module") = 8
  BY DEF Makers, Starters, Bakers, Items
<1>8. \A i \in 1 .. Items("recovery") :
        IF i \in Makers("recovery") THEN Plan("recovery")[i].op \in {"place", "splice", "grow"}
        ELSE IF i \in Starters("recovery") THEN Plan("recovery")[i].op = "region"
        ELSE IF i \in Bakers("recovery") THEN Plan("recovery")[i].op = "table"
        ELSE Plan("recovery")[i].op \in Looks
  BY <1>4, <1>7
<1>9. \A i \in 1 .. Items("firmware") :
        IF i \in Makers("firmware") THEN Plan("firmware")[i].op \in {"place", "splice", "grow"}
        ELSE IF i \in Starters("firmware") THEN Plan("firmware")[i].op = "region"
        ELSE IF i \in Bakers("firmware") THEN Plan("firmware")[i].op = "table"
        ELSE Plan("firmware")[i].op \in Looks
  BY <1>5, <1>7
<1>10. \A i \in 1 .. Items("module") :
         IF i \in Makers("module") THEN Plan("module")[i].op \in {"place", "splice", "grow"}
         ELSE IF i \in Starters("module") THEN Plan("module")[i].op = "region"
         ELSE IF i \in Bakers("module") THEN Plan("module")[i].op = "table"
         ELSE Plan("module")[i].op \in Looks
  BY <1>6, <1>7
<1> QED
  BY <1>8, <1>9, <1>10 DEF Jobs

(* The image and the assembly of a job do not change.                       *)
LEMMA BlobsKept ==
  ASSUME job' = job, asm' = asm
  PROVE  \A i : Blob(job, i)' = Blob(job, i)
BY DEF Blob, DiskBlob, SplicedBlob, Trampoline, Before, Aligned

LEMMA PassedKept ==
  ASSUME job' = job, asm' = asm, NEW k, Passed(job, k)
  PROVE  Passed(job, k)'
BY SMT DEF Passed, DiskPassed, Before, Aligned

LEMMA CursorKept ==
  ASSUME job' = job, asm' = asm, next' = next, NEW k, Cursor(job, k)
  PROVE  Cursor(job, k)'
BY SMT DEF Cursor, Awaits, Before, Aligned

LEMMA LoadedKept ==
  ASSUME job' = job, asm' = asm, mapped' = mapped, NEW k, Loaded(job, k)
  PROVE  Loaded(job, k)'
BY SMT DEF Loaded

LEMMA MovedKept ==
  ASSUME job' = job, drift' = drift
  PROVE  TableMoved' <=> TableMoved
BY Zenon DEF TableMoved

(* One item more, when it is none that places a trampoline.                 *)
LEMMA OneMore ==
  ASSUME job \in Jobs, NEW k \in Nat, k < Items(job), k + 1 \notin Makers(job)
  PROVE  /\ BlobsBy(job, k + 1) = BlobsBy(job, k)
         /\ Passed(job, k) => Passed(job, k + 1)
         /\ Cursor(job, k) /\ k + 1 \notin Starters(job) => Cursor(job, k + 1)
         /\ Loaded(job, k) => Loaded(job, k + 1)
<1>1. \A m \in Makers(job) : m \in Nat
  BY MakersAreItems, PlansListed
<1>2. \A m \in Makers(job) : m <= k + 1 <=> m <= k
  BY <1>1
<1>3. BlobsBy(job, k + 1) = BlobsBy(job, k)
  BY <1>2 DEF BlobsBy
<1>4. Passed(job, k) => Passed(job, k + 1)
  BY SMT DEF Passed, DiskPassed, Makers
<1>5. Cursor(job, k) /\ k + 1 \notin Starters(job) => Cursor(job, k + 1)
  BY SMT DEF Cursor, Makers, Starters
<1>6. Loaded(job, k) => Loaded(job, k + 1)
  BY SMT DEF Loaded, Makers
<1> QED
  BY <1>3, <1>4, <1>5, <1>6

LEMMA WrittenMore ==
  ASSUME NEW j, NEW k \in Nat
  PROVE  WroteBy(j, k + 1) = WroteBy(j, k) \cup Written(Plan(j), k + 1)
<1>1. 1 .. k + 1 = (1 .. k) \cup {k + 1}
  OBVIOUS
<1> QED
  BY <1>1, Zenon DEF WroteBy

LEMMA PlacedMore ==
  ASSUME job \in Jobs, NEW k \in Nat, k + 1 \in Makers(job)
  PROVE  BlobsBy(job, k + 1) = BlobsBy(job, k) \cup {Blob(job, k + 1)}
<1>1. \A m \in Makers(job) : m \in Nat
  BY MakersAreItems, PlansListed
<1>2. \A m \in Makers(job) : m <= k + 1 <=> m <= k \/ m = k + 1
  BY <1>1
<1> QED
  BY <1>2, Zenon DEF BlobsBy

LEMMA Proceeds ==
  ASSUME NEW k \in Nat, Done(k), patchPc = "patching", Proceed,
         earlier = {} => FirstTime(k + 1)', earlier # {} => k + 1 # Catcher(job)
  PROVE  PatchInv'
<1> DEFINE n == Items(job)
           s == Plan(job)
<1>1. n \in Nat \ {0} /\ Listed(s, n) /\ job \in Jobs
  BY PlansListed, Zenon DEF Done
<1>2. k < n /\ todo = Rest(s, k, n)
  BY <1>1 DEF Done
<1>3. job' = job /\ asm' = asm /\ drift' = drift /\ earlier' = earlier /\ todo' = Tail(todo)
      /\ patchPc' = IF Tail(todo) = <<>> THEN "ok" ELSE "patching"
  BY DEF Proceed
<1>4. Tail(todo) = Rest(s, k + 1, n)
  <2>1. k \in 0 .. n - 1
    BY <1>1, <1>2
  <2> HIDE DEF n, s
  <2> QED
    BY <1>1, <1>2, <2>1, RestOfPlan
<1>5. patchPc' = IF k + 1 = n THEN "ok" ELSE "patching"
  <2> HIDE DEF n, s
  <2>1. CASE k + 1 = n
    BY <1>1, <1>3, <1>4, <2>1, RestOfPlan
  <2>2. CASE k + 1 # n
    <3>1. k + 1 \in 0 .. n - 1
      BY <1>1, <1>2, <2>2
    <3> DEFINE m == k + 1
    <3>2. \A l \in 0 .. n - 1 : Rest(s, l, n) # <<>>
      BY <1>1, RestOfPlan
    <3> HIDE DEF m
    <3>3. Rest(s, m, n) # <<>>
      BY <3>1, <3>2 DEF m
    <3> QED
      BY <1>3, <1>4, <3>3, <2>2, Zenon DEF m
  <2> QED
    BY <2>1, <2>2
<1>6. Items(job)' = n /\ Plan(job)' = s /\ Catcher(job)' = Catcher(job)
  BY <1>3 DEF Items, Catcher
<1>7. Trap(job)' = Trap(job)
  <2>1. \A i : Blob(job, i)' = Blob(job, i)
    BY <1>3, BlobsKept, Zenon
  <2> QED
    BY <1>3, <1>6, <2>1, Zenon DEF Trap
<1>8. earlier # {} => k + 1 < Catcher(job) /\ Trap(job) \in earlier
  <2>1. Catcher(job) \in Nat
    BY DEF Catcher
  <2>2. earlier # {} => k < Catcher(job) /\ Trap(job) \in earlier
    BY DEF Done
  <2> QED
    BY <2>1, <2>2
<1>9. Done(k + 1)'
  <2>1. k + 1 \in 0 .. n
    BY <1>1, <1>2
  <2>2. (job \in Jobs /\ asm \in Assemblies)'
    BY <1>3 DEF Done
  <2>3. (k + 1 \in 0 .. Items(job) /\ todo = Rest(Plan(job), k + 1, Items(job)))'
    BY <1>3, <1>4, <1>6, <2>1, Zenon
  <2>4. (patchPc = IF k + 1 = Items(job) THEN "ok" ELSE "patching")'
    BY <1>5, <1>6, Zenon
  <2>5. (earlier = {} => FirstTime(k + 1))'
    BY <1>3, Zenon
  <2>6. (earlier # {} => k + 1 < Catcher(job) /\ Trap(job) \in earlier)'
    BY <1>3, <1>6, <1>7, <1>8, Zenon
  <2> QED
    BY <2>2, <2>3, <2>4, <2>5, <2>6, Zenon DEF Done
<1>10. patchPc' \in {"patching", "ok"}
  BY <1>5
<1>11. k + 1 \in Nat
  OBVIOUS
<1> QED
  BY <1>9, <1>10, <1>11 DEF PatchInv, StockIsAccepted

LEMMA Refuses ==
  ASSUME Refuse, drift = {} /\ earlier = {} => job # "module" /\ ~GapsSuffice
  PROVE  PatchInv'
<1>1. patchPc' = "error" /\ job' = job /\ asm' = asm /\ drift' = drift /\ earlier' = earlier
  BY DEF Refuse
<1>2. GapsSuffice' => GapsSuffice
  BY <1>1, SMT DEF GapsSuffice, Aligned
<1> QED
  BY <1>1, <1>2 DEF PatchInv, StockIsAccepted

LEMMA AtHand ==
  ASSUME NEW k \in Nat, Done(k), patchPc = "patching"
  PROVE  /\ job \in Jobs /\ asm \in Assemblies /\ k < Items(job) /\ k \in 0 .. Items(job) - 1
         /\ k + 1 \in 1 .. Items(job) /\ Head(todo) = Plan(job)[k + 1]
         /\ earlier = {} => FirstTime(k)
         /\ earlier # {} => Trap(job) \in earlier
<1> DEFINE n == Items(job)
           s == Plan(job)
<1>1. n \in Nat \ {0} /\ Listed(s, n) /\ job \in Jobs
  BY PlansListed, Zenon DEF Done
<1>2. k < n /\ todo = Rest(s, k, n)
  BY <1>1 DEF Done
<1>3. k \in 0 .. n - 1 /\ k + 1 \in 1 .. n
  BY <1>1, <1>2
<1>4. Head(todo) = s[k + 1]
  <2> HIDE DEF n, s
  <2> QED
    BY <1>1, <1>2, <1>3, RestOfPlan
<1> QED
  BY <1>2, <1>3, <1>4, Zenon DEF Done

(* The checks that refuse an image that holds its patches.                  *)
LEMMA CatchersCheck ==
  ASSUME job \in Jobs
  PROVE  /\ Catcher(job) \in 1 .. Items(job)
         /\ job = "module" => /\ Plan(job)[Catcher(job)].op = "stock"
                             /\ Plan(job)[Catcher(job)].pieces = {Trap(job)}
         /\ job # "module" => Plan(job)[Catcher(job)].op = "place"
<1>1. CASE job = "module"
  <2>1. Plan(job)[4] = Stock({Piece(\h22e, 16)})
    BY SMT, <1>1 DEF Plan, ModulePlan
  <2>2. Catcher(job) = 4 /\ Trap(job) = Piece(\h22e, 16) /\ Items(job) = 8
    BY SMT, <1>1 DEF Catcher, Trap, Items
  <2> QED
    BY SMT, <1>1, <2>1, <2>2 DEF Stock
<1>2. CASE job = "recovery"
  <2>1. Plan("recovery")[11] = DiskPlace(RecoveryDisk, "planeerase")
    BY RecoveryItems, Zenon
  <2>2. DiskPlace(RecoveryDisk, "planeerase").op = "place"
    BY SMT DEF DiskPlace, Place
  <2> QED
    BY <1>2, <2>1, <2>2 DEF Catcher, Items
<1>3. CASE job = "firmware"
  <2>1. Plan("firmware")[21] = DiskPlace(FirmwareDisk, "planeerase")
    BY FirmwareItems, Zenon
  <2>2. DiskPlace(FirmwareDisk, "planeerase").op = "place"
    BY SMT DEF DiskPlace, Place
  <2> QED
    BY <1>3, <2>1, <2>2 DEF Catcher, Items
<1> QED
  BY <1>1, <1>2, <1>3 DEF Jobs

(* An item that only writes, or only looks; or the descriptor, which is     *)
(* written, or goes astray.                                                 *)
LEMMA PassesBy ==
  ASSUME NEW k \in Nat, Done(k), patchPc = "patching", Proceed,
         Head(todo).op \in Looks \cup {"table"}, UNCHANGED <<next, blobs, mapped>>,
         wrote \subseteq wrote', wrote' \subseteq wrote \cup Written(Plan(job), k + 1),
         job = "module" => wrote' = wrote \cup Written(Plan(job), k + 1),
         earlier = {} => astray' = astray \/ TableMoved,
         earlier # {} => k + 1 # Catcher(job)
  PROVE  PatchInv'
<1>1. /\ job \in Jobs /\ k < Items(job) /\ k + 1 \in 1 .. Items(job)
      /\ Head(todo) = Plan(job)[k + 1]
      /\ earlier = {} => FirstTime(k)
  BY AtHand, Zenon
<1>2. k + 1 \notin Makers(job) /\ k + 1 \notin Starters(job)
  <2>1. Plan(job)[k + 1].op \in {"words", "stock", "free", "table"}
    BY <1>1 DEF Looks
  <2> QED
    BY <1>1, <2>1, KindsOfItems
<1>3. job' = job /\ asm' = asm /\ drift' = drift
  BY DEF Proceed
<1>4. ASSUME earlier = {} PROVE FirstTime(k + 1)'
  <2>1. FirstTime(k)
    BY <1>1, <1>4
  <2>2. /\ BlobsBy(job, k + 1) = blobs
        /\ Passed(job, k + 1) /\ Cursor(job, k + 1) /\ Loaded(job, k + 1)
    BY <1>1, <1>2, <2>1, OneMore, Zenon DEF FirstTime
  <2>8. /\ wrote' \subseteq WroteBy(job, k + 1)
        /\ job = "module" => wrote' = WroteBy(job, k + 1)
    BY <2>1, WrittenMore, Zenon DEF FirstTime
  <2>9. ~TableMoved' => astray' = {}
    BY <1>3, <1>4, <2>1, MovedKept, Zenon DEF FirstTime
  <2>3. Passed(job, k + 1)'
    BY <1>3, <2>2, PassedKept, Zenon
  <2>4. Cursor(job, k + 1)'
    BY <1>3, <2>2, CursorKept, Zenon
  <2>5. Loaded(job, k + 1)'
    BY <1>3, <2>2, LoadedKept, Zenon
  <2>6. WroteBy(job, k + 1)' = WroteBy(job, k + 1)
    BY <1>3
  <2>7. BlobsBy(job, k + 1)' = BlobsBy(job, k + 1)
    BY <1>3, BlobsKept, Zenon DEF BlobsBy
  <2> QED
    BY <1>3, <2>2, <2>3, <2>4, <2>5, <2>6, <2>7, <2>8, <2>9, Zenon DEF FirstTime
<1> QED
  BY <1>4, Proceeds, Zenon

LEMMA WordsStep ==
  ASSUME PatchInv, WriteWords
  PROVE  PatchInv'
<1>1. PICK k \in Nat : Done(k)
  BY DEF PatchInv, WriteWords
<1>2. patchPc = "patching" /\ Head(todo).op = "words" /\ Proceed
      /\ wrote' = wrote \cup Head(todo).pieces /\ UNCHANGED <<next, blobs, astray, mapped>>
  BY DEF WriteWords
<1>3. Head(todo) = Plan(job)[k + 1] /\ job \in Jobs
  BY <1>1, <1>2, AtHand, Zenon
<1>4. wrote' = wrote \cup Written(Plan(job), k + 1)
  BY <1>2, <1>3, Zenon DEF Written
<1>5. Head(todo).op \in Looks
  BY <1>2 DEF Looks
<1>6. k + 1 # Catcher(job)
  BY <1>2, <1>3, CatchersCheck
<1> QED
  BY <1>1, <1>2, <1>4, <1>5, <1>6, PassesBy, Zenon

LEMMA StockStep ==
  ASSUME PatchInv, CheckStock
  PROVE  PatchInv'
<1>1. PICK k \in Nat : Done(k)
  BY DEF PatchInv, CheckStock
<1>2. patchPc = "patching" /\ Head(todo).op \in {"stock", "free"}
  BY DEF CheckStock
<1>3. /\ job \in Jobs /\ asm \in Assemblies /\ k \in 0 .. Items(job) - 1
      /\ Head(todo) = Plan(job)[k + 1]
      /\ earlier = {} => FirstTime(k)
      /\ earlier # {} => Trap(job) \in earlier
  BY <1>1, <1>2, AtHand, Zenon
<1>4. Examined(Plan(job), k + 1) = Head(todo).pieces
  BY <1>2, <1>3, Zenon DEF Examined
<1>5. CASE \A p \in Head(todo).pieces : Untouched(p)
  <2>1. Proceed /\ UNCHANGED <<next, blobs, wrote, astray, mapped>>
    BY <1>5 DEF CheckStock
  <2>2. Written(Plan(job), k + 1) = {}
    BY <1>2, <1>3 DEF Written
  <2>3. wrote' = wrote \cup Written(Plan(job), k + 1)
    BY <2>1, <2>2
  <2>4. Head(todo).op \in Looks
    BY <1>2 DEF Looks
  <2>5. ASSUME earlier # {}, k + 1 = Catcher(job) PROVE FALSE
    <3>1. job = "module" /\ Head(todo).pieces = {Trap(job)}
      BY <1>2, <1>3, <2>5, CatchersCheck
    <3>2. Untouched(Trap(job)) /\ Trap(job) \in Foreign
      BY <1>3, <1>5, <2>5, <3>1, Zenon DEF Foreign
    <3>3. Apart(Trap(job), Trap(job))
      BY <3>2, Zenon DEF Untouched
    <3> QED
      BY <3>1, <3>3, SMT DEF Trap, Apart, Piece
  <2> QED
    BY <1>1, <1>2, <2>1, <2>3, <2>4, <2>5, PassesBy, Zenon
<1>6. CASE ~\A p \in Head(todo).pieces : Untouched(p)
  <2>1. Refuse
    BY <1>6 DEF CheckStock
  <2>2. ASSUME drift = {}, earlier = {}, job # "module" => GapsSuffice PROVE FALSE
    <3>1. Fit(job)
      BY <1>3, <2>2, BlobsFit, Zenon
    <3> QED
      BY <1>3, <1>4, <1>6, <2>2, <3>1, NothingInTheWay, Zenon
  <2> QED
    BY <2>1, <2>2, Refuses, Zenon
<1> QED
  BY <1>5, <1>6

SharedGaps == {AupdGap(FirmwareAupd), OsosGap(FirmwareOsos)}
SharedSources == {"planeerase", "erasedpage", "bbtscan", "blockbridge"}

LEMMA SharedGapsAligned ==
  ASSUME NEW gap \in SharedGaps
  PROVE  /\ gap.from \in Nat /\ gap.to \in Nat /\ gap.from % 4 = 0
         /\ gap = [from |-> gap.from, to |-> gap.to]
BY SMT DEF SharedGaps, AupdGap, OsosGap, FirmwareAupd, FirmwareOsos

LEMMA RegionStep ==
  ASSUME PatchInv, StartRegion
  PROVE  PatchInv'
<1>1. PICK k \in Nat : Done(k)
  BY DEF PatchInv, StartRegion
<1>2. /\ patchPc = "patching" /\ Head(todo).op = "region" /\ Proceed
      /\ next' = Piece(Head(todo).from, Head(todo).to - Head(todo).from)
      /\ UNCHANGED <<blobs, wrote, astray, mapped>>
  BY DEF StartRegion
<1>3. /\ job \in Jobs /\ asm \in Assemblies /\ k < Items(job) /\ k + 1 \in 1 .. Items(job)
      /\ Head(todo) = Plan(job)[k + 1]
      /\ earlier = {} => FirstTime(k)
  BY <1>1, <1>2, AtHand, Zenon
<1>4. k + 1 \in Starters(job) /\ k + 1 \notin Makers(job)
  BY <1>2, <1>3, KindsOfItems DEF Looks
<1>5. job = "firmware" /\ (k + 1 = 4 \/ k + 1 = 29)
  BY <1>4 DEF Starters
<1>6. job' = job /\ asm' = asm /\ drift' = drift
  BY <1>2 DEF Proceed
<1>7. \A gap \in SharedGaps :
        Head(todo) = Region(gap.from, gap.to) => Awaits(gap, "planeerase")'
  <2> SUFFICES ASSUME NEW gap \in SharedGaps, Head(todo) = Region(gap.from, gap.to)
               PROVE  Awaits(gap, "planeerase")'
    BY Zenon
  <2>1. gap.from \in Nat /\ gap.to \in Nat /\ gap.from % 4 = 0
    BY SharedGapsAligned, Zenon
  <2>2. Head(todo).from = gap.from /\ Head(todo).to = gap.to
    BY DEF Region
  <2>3. next' = [from |-> gap.from, to |-> gap.to]
    BY <1>2, <2>1, <2>2 DEF Piece
  <2>4. Before("planeerase")' = 0
    BY DEF Before
  <2>5. Aligned(gap.from) = gap.from
    BY <2>1 DEF Aligned
  <2>6. next'.from = gap.from /\ next'.to = gap.to
    BY <2>3
  <2>7. Aligned(next.from)' = gap.from
    BY <2>5, <2>6, Zenon DEF Aligned
  <2>8. next' = [from |-> next'.from, to |-> gap.to]
    BY <2>3, <2>6
  <2>9. gap.from = gap.from + 0
    BY <2>1
  <2> QED
    BY <2>1, <2>4, <2>6, <2>7, <2>8, <2>9 DEF Awaits
<1>8. Cursor(job, k + 1)'
  <2>1. CASE k + 1 = 4
    <3>1. Awaits(AupdGap(FirmwareAupd), "planeerase")'
      BY <1>3, <1>5, <1>7, <2>1, FirmwareItems, Zenon DEF SharedGaps
    <3> QED
      BY <2>1, <3>1 DEF Cursor
  <2>2. CASE k + 1 = 29
    <3>1. Awaits(OsosGap(FirmwareOsos), "planeerase")'
      BY <1>3, <1>5, <1>7, <2>2, FirmwareItems, Zenon DEF SharedGaps
    <3> QED
      BY <2>2, <3>1 DEF Cursor
  <2> QED
    BY <1>5, <2>1, <2>2
<1>9. ASSUME earlier = {} PROVE FirstTime(k + 1)'
  <2>1. FirstTime(k)
    BY <1>3, <1>9
  <2>2. Written(Plan(job), k + 1) = {}
    BY <1>2, <1>3 DEF Written
  <2>3. /\ BlobsBy(job, k + 1) = blobs /\ WroteBy(job, k + 1) = WroteBy(job, k)
        /\ Passed(job, k + 1) /\ Loaded(job, k + 1)
    BY <1>3, <1>4, <2>1, <2>2, OneMore, WrittenMore, Zenon DEF FirstTime
  <2>4. Passed(job, k + 1)'
    BY <1>6, <2>3, PassedKept, Zenon
  <2>5. Loaded(job, k + 1)'
    BY <1>2, <1>6, <2>3, LoadedKept, Zenon
  <2>6. WroteBy(job, k + 1)' = WroteBy(job, k + 1)
    BY <1>6
  <2>7. BlobsBy(job, k + 1)' = BlobsBy(job, k + 1)
    BY <1>6, BlobsKept, Zenon DEF BlobsBy
  <2>8. ~TableMoved' => astray' = {}
    BY <1>2, <1>6, <2>1, MovedKept, Zenon DEF FirstTime
  <2>9. wrote' \subseteq WroteBy(job, k + 1) /\ (job = "module" => wrote' = WroteBy(job, k + 1))
    BY <1>2, <2>1, <2>3, Zenon DEF FirstTime
  <2> QED
    BY <1>2, <1>6, <1>8, <2>3, <2>4, <2>5, <2>6, <2>7, <2>8, <2>9, Zenon DEF FirstTime
<1>10. k + 1 # Catcher(job)
  BY <1>5 DEF Catcher
<1> QED
  BY <1>1, <1>2, <1>9, <1>10, Proceeds, Zenon

(* An item that places the trampoline of its place.                         *)
LEMMA PutsInPlace ==
  ASSUME NEW k \in Nat, Done(k), patchPc = "patching", Proceed, k + 1 \in Makers(job),
         earlier # {} => k + 1 # Catcher(job), wrote' = wrote, astray' = astray,
         earlier = {} => /\ blobs' = blobs \cup {Blob(job, k + 1)}
                         /\ Passed(job, k + 1)
                         /\ Cursor(job, k + 1)'
                         /\ Loaded(job, k + 1)'
  PROVE  PatchInv'
<1>1. /\ job \in Jobs /\ k < Items(job) /\ k + 1 \in 1 .. Items(job)
      /\ Head(todo) = Plan(job)[k + 1]
      /\ earlier = {} => FirstTime(k)
  BY AtHand, Zenon
<1>2. job' = job /\ asm' = asm /\ drift' = drift
  BY DEF Proceed
<1>3. Plan(job)[k + 1].op \notin {"words", "table"}
  BY <1>1, KindsOfItems
<1>4. Written(Plan(job), k + 1) = {}
  BY <1>3, Zenon DEF Written
<1>5. ASSUME earlier = {} PROVE FirstTime(k + 1)'
  <2>1. FirstTime(k)
    BY <1>1, <1>5
  <2>2. wrote' \subseteq WroteBy(job, k + 1) /\ (job = "module" => wrote' = WroteBy(job, k + 1))
    BY <1>4, <2>1, WrittenMore, ZenonT(40) DEF FirstTime
  <2>7. ~TableMoved' => astray' = {}
    BY <1>2, <2>1, MovedKept, Zenon DEF FirstTime
  <2>3. BlobsBy(job, k + 1) = blobs'
    BY <1>1, <1>5, <2>1, PlacedMore, Zenon DEF FirstTime
  <2>4. Passed(job, k + 1)'
    BY <1>2, <1>5, PassedKept, Zenon
  <2>5. WroteBy(job, k + 1)' = WroteBy(job, k + 1)
    BY <1>2
  <2>6. BlobsBy(job, k + 1)' = BlobsBy(job, k + 1)
    BY <1>2, BlobsKept, Zenon DEF BlobsBy
  <2> QED
    BY <1>2, <1>5, <2>2, <2>3, <2>4, <2>5, <2>6, <2>7, Zenon DEF FirstTime
<1> QED
  BY <1>5, Proceeds, Zenon

LEMMA GrowStep ==
  ASSUME PatchInv, GrowModule
  PROVE  PatchInv'
<1>1. PICK k \in Nat : Done(k)
  BY DEF PatchInv, GrowModule
<1>2. /\ patchPc = "patching" /\ Head(todo).op = "grow" /\ Proceed
      /\ blobs' = blobs \cup {Trampoline(Head(todo).src, mapped.end)}
      /\ mapped' = Grown(asm[Head(todo).src]) /\ UNCHANGED <<next, wrote, astray>>
  BY DEF GrowModule
<1>3. /\ job \in Jobs /\ asm \in Assemblies /\ k < Items(job) /\ k + 1 \in 1 .. Items(job)
      /\ Head(todo) = Plan(job)[k + 1]
      /\ earlier = {} => FirstTime(k)
  BY <1>1, <1>2, AtHand, Zenon
<1>4. job = "module" /\ k + 1 = 2 /\ Head(todo) = Grow("efi_nand")
  <2>1. \A b, src : src \in DiskSources => DiskPlace(b, src).op = "place"
    BY SMT DEF DiskPlace, Place, DiskSources
  <2>2. job # "recovery"
    BY SMT, <1>2, <1>3, <2>1, RecoveryItems DEF Items, DiskSources, Looks, BakeTable
  <2>3. job # "firmware"
    BY SMT, <1>2, <1>3, <2>1, FirmwareItems DEF Items, DiskSources, Looks, Splice, Region, BakeTable
  <2>4. job = "module"
    BY <1>3, <2>2, <2>3 DEF Jobs
  <2>5. \A i \in 1 .. 8 : IF i = 2 THEN Plan("module")[i] = Grow("efi_nand")
                          ELSE Plan("module")[i].op \in Looks
    BY ModuleParts DEF Plan
  <2> QED
    BY <1>2, <1>3, <2>4, <2>5 DEF Items, Looks
<1>5. Head(todo).src = "efi_nand"
  BY <1>4 DEF Grow
<1>6. k + 1 \in Makers(job) /\ k + 1 # Catcher(job)
  BY <1>4 DEF Makers, Catcher
<1>7. ASSUME earlier = {}
      PROVE  /\ blobs' = blobs \cup {Blob(job, k + 1)} /\ Passed(job, k + 1)
             /\ Cursor(job, k + 1)' /\ Loaded(job, k + 1)'
  <2> DEFINE at == ModuleSize
             n == asm["efi_nand"]
  <2>1. at \in Nat /\ n \in Nat
    BY SMT, <1>3, PatchAssumption DEF ModuleSize, Sources
  <2>2. job' = "module" /\ asm' = asm /\ k = 1
    BY <1>2, <1>4 DEF Proceed
  <2>3. Loaded(job, k)
    BY <1>3, <1>7 DEF FirstTime
  <2>4. mapped = [end |-> at + 0, header |-> at + 0]
    BY <1>4, <2>2, <2>3 DEF Loaded
  <2> HIDE DEF at
  <2>5. mapped.end = at /\ mapped.header = at
    BY <2>1, <2>4
  <2>6. mapped' = [end |-> at + n, header |-> at + n]
    BY <1>2, <1>5, <2>5 DEF Grown
  <2>7. Loaded(job, k + 1)'
    BY <2>2, <2>6 DEF Loaded, at
  <2>8. Passed(job, k + 1) /\ Cursor(job, k + 1)'
    BY SMT, <1>4, <2>2 DEF Passed, Cursor
  <2>9. Blob(job, k + 1) = Trampoline("efi_nand", at)
    BY <1>4, BlobTable, Zenon DEF at
  <2> QED
    BY <1>2, <1>5, <2>5, <2>7, <2>8, <2>9
<1> QED
  BY <1>1, <1>2, <1>6, <1>7, PutsInPlace, Zenon
(* The items that splice a trampoline: their place in the plan of the       *)
(* firmware, the gap, the source.                                           *)
Splices(i, gap, src) ==
  \/ gap = AupdGap(FirmwareAupd) /\ i = 5 /\ src = "planeerase"
  \/ gap = AupdGap(FirmwareAupd) /\ i = 7 /\ src = "erasedpage"
  \/ gap = AupdGap(FirmwareAupd) /\ i = 9 /\ src = "bbtscan"
  \/ gap = OsosGap(FirmwareOsos) /\ i = 30 /\ src = "planeerase"
  \/ gap = OsosGap(FirmwareOsos) /\ i = 32 /\ src = "erasedpage"
  \/ gap = OsosGap(FirmwareOsos) /\ i = 34 /\ src = "bbtscan"
  \/ gap = OsosGap(FirmwareOsos) /\ i = 38 /\ src = "blockbridge"

LEMMA SplicesAre ==
  ASSUME NEW i, NEW gap, NEW src, Splices(i, gap, src)
  PROVE  /\ gap \in SharedGaps /\ src \in SharedSources
         /\ Plan("firmware")[i] = Splice(src)
         /\ Blob("firmware", i) = SplicedBlob(gap, src)
         /\ i \in Makers("firmware") /\ i # Catcher("firmware")
<1>1. gap \in SharedGaps /\ src \in SharedSources
  BY Zenon DEF Splices, SharedGaps, SharedSources
<1>2. i \in {5, 7, 9, 30, 32, 34, 38}
  BY Zenon DEF Splices
<1>3. Makers("firmware") = {5, 7, 9, 13, 17, 19, 21, 30, 32, 34, 38} /\ Catcher("firmware") = 21
  BY DEF Makers, Catcher
<1>4. Plan("firmware")[i] = Splice(src)
  BY FirmwareItems, Zenon DEF Splices
<1>5. Blob("firmware", i) = SplicedBlob(gap, src)
  BY BlobTable, Zenon DEF Splices
<1> QED
  BY <1>1, <1>2, <1>3, <1>4, <1>5

LEMMA SplicesFound ==
  ASSUME NEW k \in Nat, job \in Jobs, k + 1 \in 1 .. Items(job), Plan(job)[k + 1].op = "splice"
  PROVE  job = "firmware" /\ \E gap, src : Splices(k + 1, gap, src)
<1>1. \A b, src : src \in DiskSources => DiskPlace(b, src).op = "place"
  BY SMT DEF DiskPlace, Place, DiskSources
<1>2. job # "recovery"
  BY SMT, <1>1, RecoveryItems DEF Items, DiskSources, Looks, BakeTable
<1>3. job # "module"
  <2>1. \A i \in 1 .. 8 : IF i = 2 THEN Plan("module")[i] = Grow("efi_nand")
                          ELSE Plan("module")[i].op \in Looks
    BY ModuleParts DEF Plan
  <2> QED
    BY <2>1 DEF Items, Looks, Grow
<1>4. job = "firmware"
  BY <1>2, <1>3 DEF Jobs
<1>5. k + 1 \in {5, 7, 9, 30, 32, 34, 38}
  BY SMT, <1>1, <1>4, FirmwareItems DEF Items, DiskSources, Looks, Region, BakeTable
<1>6. \E gap, src : Splices(k + 1, gap, src)
  BY <1>5 DEF Splices
<1> QED
  BY <1>4, <1>6

LEMMA SplicesAwaited ==
  ASSUME NEW k \in Nat, NEW gap, NEW src, Splices(k + 1, gap, src), Cursor("firmware", k)
  PROVE  Awaits(gap, src)
<1>1. CASE gap = AupdGap(FirmwareAupd) /\ k + 1 = 5 /\ src = "planeerase"
  BY <1>1 DEF Cursor
<1>2. CASE gap = AupdGap(FirmwareAupd) /\ k + 1 = 7 /\ src = "erasedpage"
  BY <1>2 DEF Cursor
<1>3. CASE gap = AupdGap(FirmwareAupd) /\ k + 1 = 9 /\ src = "bbtscan"
  BY <1>3 DEF Cursor
<1>4. CASE gap = OsosGap(FirmwareOsos) /\ k + 1 = 30 /\ src = "planeerase"
  BY <1>4 DEF Cursor
<1>5. CASE gap = OsosGap(FirmwareOsos) /\ k + 1 = 32 /\ src = "erasedpage"
  BY <1>5 DEF Cursor
<1>6. CASE gap = OsosGap(FirmwareOsos) /\ k + 1 = 34 /\ src = "bbtscan"
  BY <1>6 DEF Cursor
<1>7. CASE gap = OsosGap(FirmwareOsos) /\ k + 1 = 38 /\ src = "blockbridge"
  BY <1>7 DEF Cursor
<1> QED
  BY <1>1, <1>2, <1>3, <1>4, <1>5, <1>6, <1>7, Zenon DEF Splices

(* The trampoline that is tried is the one of its place, and whether it is  *)
(* within the gap says how long those before it and it are together.        *)
LEMMA Spliced ==
  ASSUME NEW gap \in SharedGaps, NEW src \in SharedSources, asm \in Assemblies, Awaits(gap, src)
  PROVE  /\ Trampoline(src, Aligned(next.from)) = SplicedBlob(gap, src)
         /\ SplicedBlob(gap, src).to = gap.from + Before(src) + asm[src]
         /\ SplicedBlob(gap, src).to <= next.to <=> Before(src) + asm[src] <= gap.to - gap.from
         /\ (gap.from + Before(src)) % 4 = 0 /\ Before(src) \in Nat
<1> DEFINE at == gap.from + Before(src)
           n == asm[src]
<1>1. \A t \in SharedSources : asm[t] \in Nat /\ Aligned(asm[t]) \in Nat
  BY PatchAssumption, AlignedBy DEF Sources, SharedSources
<1>2. Before(src) \in Nat
  BY <1>1 DEF Before, SharedSources
<1>3. gap.from \in Nat /\ gap.to \in Nat
  BY SharedGapsAligned, Zenon
<1>4. Aligned(next.from) = at /\ next.to = gap.to /\ next.from \in Nat
  BY DEF Awaits
<1>5. at % 4 = 0
  <2> DEFINE m == next.from
  <2>1. m \in Nat
    BY <1>4
  <2> HIDE DEF m
  <2>2. Aligned(m) % 4 = 0
    BY <2>1, AlignedBy
  <2> QED
    BY <1>4, <2>2 DEF m
<1>6. SplicedBlob(gap, src) = Trampoline(src, at) /\ Trampoline(src, at).to = at + n
  BY Zenon DEF SplicedBlob, Trampoline
<1>7. Trampoline(src, Aligned(next.from)) = SplicedBlob(gap, src)
  BY <1>4, <1>6, Zenon
<1>8. at \in Nat /\ n \in Nat
  BY <1>1, <1>2, <1>3
<1>9. at + n <= next.to <=> Before(src) + n <= gap.to - gap.from
  BY <1>1, <1>2, <1>3, <1>4
<1>10. at + n = gap.from + Before(src) + asm[src]
  BY <1>1, <1>2, <1>3
<1> QED
  BY <1>2, <1>5, <1>6, <1>7, <1>9, <1>10

(* The cursor then waits for the next source of the same gap.               *)
LEMMA SplicedNext ==
  ASSUME NEW gap \in SharedGaps, NEW src \in SharedSources, asm \in Assemblies, Awaits(gap, src),
         next' = [next EXCEPT !.from = CursorAfter(SplicedBlob(gap, src))], asm' = asm
  PROVE  \A tgt : Before(tgt) = Before(src) + Aligned(asm[src]) => Awaits(gap, tgt)'
<1> SUFFICES ASSUME NEW tgt, Before(tgt) = Before(src) + Aligned(asm[src])
             PROVE  Awaits(gap, tgt)'
  BY Zenon
<1> DEFINE at == gap.from + Before(src)
           n == asm[src]
           end == SplicedBlob(gap, src).to
<1>1. gap.from \in Nat /\ gap.to \in Nat /\ n \in Nat /\ Before(src) \in Nat
  BY Spliced, SharedGapsAligned, PatchAssumption DEF Sources, SharedSources
<1>2. end = at + n /\ at % 4 = 0 /\ at \in Nat
  BY <1>1, Spliced
<1>3. Aligned(at + n) = at + Aligned(n) /\ Aligned(n) \in Nat
  <2> HIDE DEF at, n
  <2> QED
    BY <1>1, <1>2, AlignedBy DEF n
<1>4. next = [from |-> next.from, to |-> gap.to]
  BY DEF Awaits
<1>5. next' = [from |-> end, to |-> gap.to]
  <2>1. next' = [next EXCEPT !.from = end]
    BY Zenon DEF CursorAfter
  <2> HIDE DEF end
  <2> QED
    BY <1>4, <2>1
<1>6. next'.from = end /\ next' = [from |-> next'.from, to |-> gap.to]
  <2>1. \A r, x, y : r = [from |-> x, to |-> y] => r.from = x /\ r = [from |-> r.from, to |-> y]
    OBVIOUS
  <2> HIDE DEF end
  <2> QED
    BY <1>5, <2>1, Zenon
<1>7. Before(tgt)' = Before(tgt)
  BY Zenon DEF Before
<1>8. Aligned(next.from)' = Aligned(end)
  BY <1>6, Zenon DEF Aligned
<1>9. Aligned(end) = gap.from + Before(tgt)
  BY <1>1, <1>2, <1>3
<1>10. end \in Nat
  BY <1>1, <1>2
<1> HIDE DEF end
<1>11. next'.from \in Nat /\ Aligned(next.from)' = gap.from + Before(tgt)'
  BY <1>6, <1>7, <1>8, <1>9, <1>10, Zenon
<1> QED
  BY <1>6, <1>11, Zenon DEF Awaits

(* The gaps suffice: each trampoline is within its gap.                     *)
LEMMA SplicesFit ==
  ASSUME NEW i, NEW gap, NEW src, Splices(i, gap, src), asm \in Assemblies,
         job = "firmware", GapsSuffice
  PROVE  Before(src) + asm[src] <= gap.to - gap.from
<1>1. \A t \in SharedSources :
        asm[t] \in Nat /\ Aligned(asm[t]) \in Nat /\ Aligned(asm[t]) >= asm[t]
  BY PatchAssumption, AlignedBy DEF Sources, SharedSources
<1>2. /\ Before("planeerase") = 0 /\ Before("erasedpage") = Aligned(asm["planeerase"])
      /\ Before("bbtscan") = Aligned(asm["planeerase"]) + Aligned(asm["erasedpage"])
      /\ Before("blockbridge") = Aligned(asm["planeerase"]) + Aligned(asm["erasedpage"])
                                   + Aligned(asm["bbtscan"])
  BY DEF Before
<1>3. /\ AupdGap(FirmwareAupd).to - AupdGap(FirmwareAupd).from = \h858
      /\ OsosGap(FirmwareOsos).to - OsosGap(FirmwareOsos).from = \he74
  BY SMT DEF AupdGap, OsosGap, FirmwareAupd, FirmwareOsos
<1>4. /\ Aligned(asm["planeerase"]) + Aligned(asm["erasedpage"]) + asm["bbtscan"] <= \h858
      /\ Aligned(asm["planeerase"]) + Aligned(asm["erasedpage"]) + Aligned(asm["bbtscan"])
           + asm["blockbridge"] <= \he74
  BY SMT DEF GapsSuffice
<1>5. /\ asm["planeerase"] \in Nat /\ asm["erasedpage"] \in Nat /\ asm["bbtscan"] \in Nat
      /\ asm["blockbridge"] \in Nat
      /\ Aligned(asm["planeerase"]) \in Nat /\ Aligned(asm["planeerase"]) >= asm["planeerase"]
      /\ Aligned(asm["erasedpage"]) \in Nat /\ Aligned(asm["erasedpage"]) >= asm["erasedpage"]
      /\ Aligned(asm["bbtscan"]) \in Nat /\ Aligned(asm["bbtscan"]) >= asm["bbtscan"]
  BY <1>1 DEF SharedSources
<1>6. gap \in SharedGaps /\ src \in SharedSources
  BY SplicesAre, Zenon
<1>7. CASE gap = AupdGap(FirmwareAupd)
  <2>1. src # "blockbridge" \/ gap = OsosGap(FirmwareOsos)
    BY Zenon DEF Splices
  <2>2. Before(src) + asm[src] <= \h858 \/ gap = OsosGap(FirmwareOsos)
    BY SMT, <1>2, <1>4, <1>5, <1>6, <2>1 DEF SharedSources
  <2>3. Before(src) + asm[src] <= \he74
    BY SMT, <1>2, <1>4, <1>5, <1>6 DEF SharedSources
  <2> QED
    BY SMT, <1>3, <1>7, <2>2, <2>3
<1>8. CASE gap = OsosGap(FirmwareOsos)
  <2>1. Before(src) + asm[src] <= \he74
    BY SMT, <1>2, <1>4, <1>5, <1>6 DEF SharedSources
  <2> QED
    BY SMT, <1>3, <1>8, <2>1
<1> QED
  BY <1>6, <1>7, <1>8, Zenon DEF SharedGaps

LEMMA SpliceAdvances ==
  ASSUME NEW k \in Nat, Done(k), patchPc = "patching", earlier = {}, Proceed,
         NEW gap, NEW src, Splices(k + 1, gap, src), job = "firmware",
         SplicedBlob(gap, src).to <= next.to,
         next' = [next EXCEPT !.from = CursorAfter(SplicedBlob(gap, src))]
  PROVE  Passed(job, k + 1) /\ Cursor(job, k + 1)'
<1>1. /\ asm \in Assemblies /\ FirstTime(k)
  BY AtHand, Zenon
<1>2. Passed(job, k) /\ Cursor(job, k)
  BY <1>1 DEF FirstTime
<1>3. gap \in SharedGaps /\ src \in SharedSources
  BY SplicesAre, Zenon
<1>4. Awaits(gap, src)
  BY <1>2, SplicesAwaited, Zenon
<1>5. asm' = asm /\ job' = job
  BY DEF Proceed
<1>6. Before(src) + asm[src] <= gap.to - gap.from
  BY <1>1, <1>3, <1>4, Spliced, Zenon
<1>7. /\ AupdGap(FirmwareAupd).to - AupdGap(FirmwareAupd).from = \h858
      /\ OsosGap(FirmwareOsos).to - OsosGap(FirmwareOsos).from = \he74
  BY SMT DEF AupdGap, OsosGap, FirmwareAupd, FirmwareOsos
<1>8. Passed(job, k + 1)
  <2>1. DiskPassed(k, 11)
    BY <1>2 DEF Passed
  <2>2. k + 1 \in {5, 7, 9, 30, 32, 34, 38}
    BY Zenon DEF Splices
  <2>3. DiskPassed(k + 1, 11)
    BY SMT, <2>1, <2>2 DEF DiskPassed
  <2>4. k + 1 >= 9 => Before("bbtscan") + asm["bbtscan"] <= \h858
    BY SMT, <1>2, <1>6, <1>7, <2>2 DEF Passed, Splices
  <2>5. k + 1 >= 38 => Before("blockbridge") + asm["blockbridge"] <= \he74
    BY SMT, <1>2, <1>6, <1>7, <2>2 DEF Passed, Splices
  <2> QED
    BY <2>3, <2>4, <2>5 DEF Passed
<1>9. \A tgt : Before(tgt) = Before(src) + Aligned(asm[src]) => Awaits(gap, tgt)'
  BY <1>1, <1>3, <1>4, <1>5, SplicedNext, Zenon
<1>10. \A t \in SharedSources : Aligned(asm[t]) \in Nat
  BY <1>1, PatchAssumption, AlignedBy DEF Sources, SharedSources
<1>11. /\ Before("erasedpage") = Before("planeerase") + Aligned(asm["planeerase"])
       /\ Before("bbtscan") = Before("erasedpage") + Aligned(asm["erasedpage"])
       /\ Before("blockbridge") = Before("bbtscan") + Aligned(asm["bbtscan"])
  BY <1>10 DEF Before, SharedSources
<1>12. /\ src = "planeerase" => Awaits(gap, "erasedpage")'
       /\ src = "erasedpage" => Awaits(gap, "bbtscan")'
       /\ src = "bbtscan" => Awaits(gap, "blockbridge")'
  BY <1>9, <1>11, Zenon
<1>13. Cursor(job, k + 1)'
  <2>1. CASE gap = AupdGap(FirmwareAupd) /\ k + 1 = 5 /\ src = "planeerase"
    BY <1>12, <2>1 DEF Cursor
  <2>2. CASE gap = AupdGap(FirmwareAupd) /\ k + 1 = 7 /\ src = "erasedpage"
    BY <1>12, <2>2 DEF Cursor
  <2>3. CASE gap = AupdGap(FirmwareAupd) /\ k + 1 = 9 /\ src = "bbtscan"
    BY <2>3 DEF Cursor
  <2>4. CASE gap = OsosGap(FirmwareOsos) /\ k + 1 = 30 /\ src = "planeerase"
    BY <1>12, <2>4 DEF Cursor
  <2>5. CASE gap = OsosGap(FirmwareOsos) /\ k + 1 = 32 /\ src = "erasedpage"
    BY <1>12, <2>5 DEF Cursor
  <2>6. CASE gap = OsosGap(FirmwareOsos) /\ k + 1 = 34 /\ src = "bbtscan"
    BY <1>12, <2>6 DEF Cursor
  <2>7. CASE gap = OsosGap(FirmwareOsos) /\ k + 1 = 38 /\ src = "blockbridge"
    BY <2>7 DEF Cursor
  <2> QED
    BY <2>1, <2>2, <2>3, <2>4, <2>5, <2>6, <2>7, Zenon DEF Splices
<1> QED
  BY <1>8, <1>13

LEMMA SpliceStep ==
  ASSUME PatchInv, SpliceBlob
  PROVE  PatchInv'
<1> DEFINE tramp == Trampoline(Head(todo).src, Aligned(next.from))
<1>1. PICK k \in Nat : Done(k)
  BY DEF PatchInv, SpliceBlob
<1>2. patchPc = "patching" /\ Head(todo).op = "splice"
  BY DEF SpliceBlob
<1>3. /\ job \in Jobs /\ asm \in Assemblies /\ k \in 0 .. Items(job) - 1
      /\ k + 1 \in 1 .. Items(job) /\ Head(todo) = Plan(job)[k + 1]
      /\ earlier = {} => FirstTime(k)
  BY <1>1, <1>2, AtHand, Zenon
<1>4. PICK gap, src : Splices(k + 1, gap, src)
  BY <1>2, <1>3, SplicesFound, Zenon
<1>5. job = "firmware"
  BY <1>2, <1>3, SplicesFound, Zenon
<1>6. /\ gap \in SharedGaps /\ src \in SharedSources
      /\ Head(todo) = Splice(src)
      /\ Blob(job, k + 1) = SplicedBlob(gap, src)
      /\ k + 1 \in Makers(job) /\ k + 1 # Catcher(job)
  BY <1>3, <1>4, <1>5, SplicesAre, Zenon
<1>7. Head(todo).src = src
  BY <1>6 DEF Splice
<1>8. earlier = {} => tramp = SplicedBlob(gap, src)
  <2> SUFFICES ASSUME earlier = {} PROVE tramp = SplicedBlob(gap, src)
    OBVIOUS
  <2>1. Cursor("firmware", k)
    BY <1>3, <1>5 DEF FirstTime
  <2>2. Awaits(gap, src)
    BY <1>4, <2>1, SplicesAwaited, Zenon
  <2> QED
    BY <1>3, <1>6, <1>7, <2>2, Spliced, Zenon
<1>9. CASE tramp.to <= next.to /\ Untouched(tramp)
  <2>1. /\ blobs' = blobs \cup {tramp} /\ next' = [next EXCEPT !.from = CursorAfter(tramp)]
        /\ Proceed /\ UNCHANGED <<wrote, astray, mapped>>
    BY <1>9, Zenon DEF SpliceBlob
  <2> HIDE DEF tramp
  <2>2. ASSUME earlier = {}
        PROVE  /\ blobs' = blobs \cup {Blob(job, k + 1)} /\ Passed(job, k + 1)
               /\ Cursor(job, k + 1)' /\ Loaded(job, k + 1)'
    <3>1. tramp = SplicedBlob(gap, src)
      BY <1>8, <2>2
    <3>2. Passed(job, k + 1) /\ Cursor(job, k + 1)'
      BY <1>1, <1>2, <1>4, <1>5, <1>9, <2>1, <2>2, <3>1, SpliceAdvances, Zenon
    <3>3. Loaded(job, k + 1)'
      BY <1>5, <2>1 DEF Loaded, Proceed
    <3> QED
      BY <1>6, <2>1, <3>1, <3>2, <3>3, Zenon
  <2> QED
    BY <1>1, <1>2, <1>6, <2>1, <2>2, PutsInPlace, Zenon
<1>10. CASE ~(tramp.to <= next.to /\ Untouched(tramp))
  <2>1. Refuse
    BY <1>10, Zenon DEF SpliceBlob
  <2>2. ASSUME drift = {}, earlier = {}, job # "module" => GapsSuffice PROVE FALSE
    <3>1. GapsSuffice /\ FirstTime(k)
      BY <1>3, <1>5, <2>2
    <3>2. Fit(job)
      BY <1>3, <3>1, BlobsFit, Zenon
    <3>3. tramp = Blob(job, k + 1)
      BY <1>6, <1>8, <2>2, Zenon
    <3>4. k + 1 > k
      OBVIOUS
    <3>5. Untouched(tramp)
      BY <1>3, <1>6, <2>2, <3>1, <3>2, <3>3, <3>4, NothingInTheWay, Zenon
    <3>6. Awaits(gap, src)
      BY <1>4, <1>5, <3>1, SplicesAwaited, Zenon DEF FirstTime
    <3>7. Before(src) + asm[src] <= gap.to - gap.from
      BY <1>3, <1>4, <1>5, <3>1, SplicesFit, Zenon
    <3>8. tramp.to <= next.to
      BY <1>3, <1>6, <1>8, <2>2, <3>6, <3>7, Spliced, Zenon
    <3> QED
      BY <1>10, <3>5, <3>8
  <2> QED
    BY <2>1, <2>2, Refuses, Zenon
<1> QED
  BY <1>9, <1>10

(* The items that place a trampoline of disk mode, whose layer begins after *)
(* the first DiskOff(j) items of a plan.                                    *)
DiskOff(j) == IF j = "recovery" THEN 1 ELSE 11
DiskBase(j) == IF j = "recovery" THEN RecoveryDisk ELSE FirmwareDisk
Places(j, i, src) ==
  \/ src = "scsibridge" /\ i = DiskOff(j) + 2
  \/ src = "erasedpage" /\ i = DiskOff(j) + 6
  \/ src = "ftlbridge" /\ i = DiskOff(j) + 8
  \/ src = "planeerase" /\ i = DiskOff(j) + 10
DiskJobs == {"recovery", "firmware"}

LEMMA PlacesAre ==
  ASSUME NEW j \in DiskJobs, NEW i, NEW src, Places(j, i, src)
  PROVE  /\ src \in DiskSources /\ i \in Makers(j) /\ DiskBase(j) \in Nat
         /\ i = Catcher(j) <=> src = "planeerase"
         /\ Plan(j)[i] = DiskPlace(DiskBase(j), src)
         /\ Blob(j, i) = DiskBlob(DiskBase(j), src)
<1>1. src \in DiskSources
  BY Zenon DEF Places, DiskSources
<1>2. CASE j = "recovery"
  <2>1. DiskOff(j) = 1 /\ DiskBase(j) = RecoveryDisk /\ Catcher(j) = 11 /\ Makers(j) = {3, 7, 9, 11}
    BY <1>2 DEF DiskOff, DiskBase, Catcher, Makers
  <2>2. \/ src = "scsibridge" /\ i = 3
        \/ src = "erasedpage" /\ i = 7
        \/ src = "ftlbridge" /\ i = 9
        \/ src = "planeerase" /\ i = 11
    BY <2>1 DEF Places
  <2>3. Plan(j)[i] = DiskPlace(DiskBase(j), src) /\ Blob(j, i) = DiskBlob(DiskBase(j), src)
    BY <1>2, <2>1, <2>2, RecoveryItems, BlobTable, Zenon
  <2>4. i \in Makers(j) /\ (i = Catcher(j) <=> src = "planeerase")
    BY <2>1, <2>2
  <2> QED
    BY <1>1, <2>1, <2>3, <2>4, Bases, Zenon
<1>3. CASE j = "firmware"
  <2>1. /\ DiskOff(j) = 11 /\ DiskBase(j) = FirmwareDisk /\ Catcher(j) = 21
        /\ Makers(j) = {5, 7, 9, 13, 17, 19, 21, 30, 32, 34, 38}
    BY <1>3 DEF DiskOff, DiskBase, Catcher, Makers
  <2>2. \/ src = "scsibridge" /\ i = 13
        \/ src = "erasedpage" /\ i = 17
        \/ src = "ftlbridge" /\ i = 19
        \/ src = "planeerase" /\ i = 21
    BY <2>1 DEF Places
  <2>3. Plan(j)[i] = DiskPlace(DiskBase(j), src) /\ Blob(j, i) = DiskBlob(DiskBase(j), src)
    BY <1>3, <2>1, <2>2, FirmwareItems, BlobTable, Zenon
  <2>4. i \in Makers(j) /\ (i = Catcher(j) <=> src = "planeerase")
    BY <2>1, <2>2
  <2> QED
    BY <1>1, <2>1, <2>3, <2>4, Bases, Zenon
<1> QED
  BY <1>2, <1>3 DEF DiskJobs

LEMMA PlacesFound ==
  ASSUME NEW k \in Nat, job \in Jobs, k + 1 \in 1 .. Items(job), Plan(job)[k + 1].op = "place"
  PROVE  job \in DiskJobs /\ \E src : Places(job, k + 1, src)
<1>1. job # "module"
  <2>1. \A i \in 1 .. 8 : IF i = 2 THEN Plan("module")[i] = Grow("efi_nand")
                          ELSE Plan("module")[i].op \in Looks
    BY ModuleParts DEF Plan
  <2> QED
    BY <2>1 DEF Items, Looks, Grow
<1>2. CASE job = "recovery"
  <2>1. k + 1 \in {3, 7, 9, 11}
    BY SMT, <1>2, RecoveryItems DEF Items, Looks, BakeTable
  <2> QED
    BY <1>2, <2>1 DEF Places, DiskOff, DiskJobs
<1>3. CASE job = "firmware"
  <2>1. k + 1 \in {13, 17, 19, 21}
    BY SMT, <1>3, FirmwareItems DEF Items, Looks, Region, Splice, BakeTable
  <2> QED
    BY <1>3, <2>1 DEF Places, DiskOff, DiskJobs
<1> QED
  BY <1>1, <1>2, <1>3 DEF Jobs

(* What an item of disk mode asks of its trampoline.                        *)
Shaped(b, src, item) ==
  /\ DiskBlob(b, src) = Trampoline(item.src, item.at)
  /\ item.src = src /\ item.at = DiskModeOffset(b, DiskVA(src))
  /\ item.after = IF src = "ftlbridge" THEN "scsibridge" ELSE "none"
  /\ src = "planeerase" => item.free = TRUE
  /\ src # "planeerase" => item.free = FALSE
Bounded(b, src, item) ==
  /\ src = "scsibridge" => (asm[src] <= \h5b0 => DiskBlob(b, src).to <= item.end)
  /\ src = "erasedpage" => (DiskBlob(b, src).to <= item.end <=> asm[src] <= \h86c)
  /\ src = "ftlbridge" => (asm[src] <= \hb00 => DiskBlob(b, src).to <= item.end)
  /\ src = "planeerase" => (DiskBlob(b, src).to <= item.end <=> asm[src] <= \h288)

LEMMA PlacesAsk ==
  ASSUME NEW b \in Nat, NEW src \in DiskSources, asm \in Assemblies
  PROVE  Shaped(b, src, DiskPlace(b, src)) /\ Bounded(b, src, DiskPlace(b, src))
<1>1. asm[src] \in Nat
  BY PatchAssumption DEF Sources, DiskSources
<1>2. CASE src = "scsibridge"
  <2>1. DiskPlace(b, src) = Place("scsibridge", DiskModeOffset(b, \h080385d0), b + 280512, "none", FALSE)
    BY <1>2, SMT DEF DiskPlace
  <2> QED
    BY <1>1, <1>2, <2>1, SMT
      DEF Shaped, Bounded, Place, DiskModeOffset, DiskVA, Trampoline, DiskBlob
<1>3. CASE src = "erasedpage"
  <2>1. DiskPlace(b, src)
          = Place("erasedpage", DiskModeOffset(b, \h08039a00), DiskModeOffset(b, \h0803a26c),
               "none", FALSE)
    BY <1>3, SMT DEF DiskPlace
  <2> QED
    BY <1>1, <1>3, <2>1, SMT
      DEF Shaped, Bounded, Place, DiskModeOffset, DiskVA, Trampoline, DiskBlob
<1>4. CASE src = "ftlbridge"
  <2>1. DiskPlace(b, src)
          = Place("ftlbridge", DiskModeOffset(b, \h08038b80), DiskModeOffset(b, \h08039a00),
               "scsibridge", FALSE)
    BY <1>4, SMT DEF DiskPlace
  <2> QED
    BY <1>1, <1>4, <2>1, SMT
      DEF Shaped, Bounded, Place, DiskModeOffset, DiskVA, Trampoline, DiskBlob
<1>5. CASE src = "planeerase"
  <2>1. DiskPlace(b, src)
          = Place("planeerase", DiskModeOffset(b, \h08039680), DiskModeOffset(b, \h08039908),
               "none", TRUE)
    BY <1>5, SMT DEF DiskPlace
  <2> QED
    BY <1>1, <1>5, <2>1, SMT
      DEF Shaped, Bounded, Place, DiskModeOffset, DiskVA, Trampoline, DiskBlob
<1> QED
  BY <1>2, <1>3, <1>4, <1>5 DEF DiskSources

(* The trampoline of planeerase, over zeros: the one of ftlbridge, which is *)
(* before it, is no longer than the gap between them.                       *)
LEMMA FtlEndsBefore ==
  ASSUME NEW b \in Nat, asm \in Assemblies,
         \A q \in Code(DiskBlob(b, "ftlbridge")) : Apart(DiskBlob(b, "planeerase"), q)
  PROVE  asm["ftlbridge"] <= \hb00
<1> DEFINE ftl == DiskBlob(b, "ftlbridge")
           pe == DiskBlob(b, "planeerase")
           n == asm["ftlbridge"]
           m == asm["planeerase"]
<1>1. n \in Nat /\ n >= 8 /\ m \in Nat /\ m >= 8
  BY PatchAssumption DEF Sources
<1>2. PICK at \in Nat : /\ ftl.src = "ftlbridge" /\ ftl.from = at /\ ftl.to = at + n
                        /\ pe.from = at + \hb00 /\ pe.to = at + \hb00 + m
  <2>1. DiskVA("ftlbridge") = \h08038b80 /\ DiskVA("planeerase") = \h08039680
    BY SMT DEF DiskVA
  <2>2. DiskModeOffset(b, DiskVA("ftlbridge")) \in Nat
        /\ DiskModeOffset(b, DiskVA("planeerase")) = DiskModeOffset(b, DiskVA("ftlbridge")) + \hb00
    BY <2>1, SMT DEF DiskModeOffset
  <2> QED
    BY <2>2, SMT DEF DiskBlob, Trampoline
<1> HIDE DEF ftl, pe, n, m
<1>3. Code(ftl) = {Piece(ftl.from, ftl.to - ftl.from - 28), Piece(ftl.to - 24, 24)}
  BY <1>2 DEF Code
<1>4. Apart(pe, Piece(ftl.from, ftl.to - ftl.from - 28)) /\ Apart(pe, Piece(ftl.to - 24, 24))
  BY <1>3 DEF ftl, pe
<1> QED
  BY <1>1, <1>2, <1>4, SMT DEF Apart, Piece, n

(* The trampolines placed so far, by their sources.                         *)
LEMMA OneOfEach ==
  ASSUME NEW b \in blobs, asm \in Assemblies, job \in DiskJobs, NEW k \in Nat,
         blobs = BlobsBy(job, k)
  PROVE  /\ b.src # "none"
         /\ b.src = "scsibridge" => b = DiskBlob(DiskBase(job), "scsibridge")
<1>1. PICK i \in Makers(job) : b = Blob(job, i)
  BY Zenon DEF BlobsBy
<1>2. \A g, src : SplicedBlob(g, src).src = src
  BY DEF SplicedBlob, Trampoline
<1>3. \A disk, src : DiskBlob(disk, src).src = src
  BY DEF DiskBlob, Trampoline
<1>4. CASE job = "recovery"
  <2>1. i \in {3, 7, 9, 11} /\ DiskBase(job) = RecoveryDisk
    BY <1>1, <1>4 DEF Makers, DiskBase
  <2>2. /\ Blob(job, 3) = DiskBlob(RecoveryDisk, "scsibridge")
        /\ Blob(job, 7).src = "erasedpage" /\ Blob(job, 9).src = "ftlbridge"
        /\ Blob(job, 11).src = "planeerase"
    BY <1>3, <1>4, BlobTable, Zenon
  <2>3. Blob(job, 3).src = "scsibridge"
    BY <1>3, <2>2, ZenonT(40)
  <2> QED
    BY <1>1, <2>1, <2>2, <2>3
<1>5. CASE job = "firmware"
  <2>1. i \in {5, 7, 9, 13, 17, 19, 21, 30, 32, 34, 38} /\ DiskBase(job) = FirmwareDisk
    BY <1>1, <1>5 DEF Makers, DiskBase
  <2>2. Blob(job, 13) = DiskBlob(FirmwareDisk, "scsibridge")
    BY <1>5, BlobTable, Zenon
  <2>3. Blob(job, 13).src = "scsibridge"
    BY <1>3, <2>2, Zenon
  <2>4. /\ Blob(job, 17).src = "erasedpage" /\ Blob(job, 19).src = "ftlbridge"
        /\ Blob(job, 21).src = "planeerase"
    BY <1>3, <1>5, BlobTable, Zenon
  <2>5. /\ Blob(job, 5).src = "planeerase" /\ Blob(job, 7).src = "erasedpage"
        /\ Blob(job, 9).src = "bbtscan"
    BY <1>2, <1>5, BlobTable, Zenon
  <2>6. /\ Blob(job, 30).src = "planeerase" /\ Blob(job, 32).src = "erasedpage"
        /\ Blob(job, 34).src = "bbtscan" /\ Blob(job, 38).src = "blockbridge"
    BY <1>2, <1>5, BlobTable, Zenon
  <2> QED
    BY <1>1, <2>1, <2>2, <2>3, <2>4, <2>5, <2>6
<1> QED
  BY <1>4, <1>5 DEF DiskJobs

LEMMA PlaceAdvances ==
  ASSUME NEW k \in Nat, Done(k), patchPc = "patching", earlier = {}, Proceed,
         job \in DiskJobs, NEW src, Places(job, k + 1, src), Head(todo).op = "place",
         Fits(Head(todo), DiskBlob(DiskBase(job), src))
  PROVE  Passed(job, k + 1) /\ Cursor(job, k + 1)'
<1> DEFINE disk == DiskBase(job)
           item == DiskPlace(disk, src)
           tramp == DiskBlob(disk, src)
           off == DiskOff(job)
<1>1. /\ asm \in Assemblies /\ FirstTime(k) /\ Head(todo) = Plan(job)[k + 1]
      /\ k + 1 \in 1 .. Items(job)
  BY AtHand, Zenon
<1>2. /\ src \in DiskSources /\ disk \in Nat /\ Head(todo) = item
  BY <1>1, PlacesAre, Zenon
<1>3. Passed(job, k) /\ blobs = BlobsBy(job, k)
  BY <1>1 DEF FirstTime
<1>4. off \in {1, 11} /\ (job = "recovery" => off = 1) /\ (job = "firmware" => off = 11)
  BY DEF DiskOff, DiskJobs
<1>5. DiskPassed(k, off)
  BY <1>3, <1>4 DEF Passed, DiskJobs
<1>6. Fits(item, tramp)
  BY <1>2
<1>7. Shaped(disk, src, item) /\ Bounded(disk, src, item)
  BY <1>1, <1>2, PlacesAsk, Zenon
<1>8. tramp.to <= item.end /\ (\A b \in blobs : b.src = item.after => b.to <= item.at)
      /\ (item.free => Untouched(tramp))
  BY <1>6, Zenon DEF Fits
<1>9. \A t : Places(job, off + 2, t) \/ Places(job, off + 8, t) =>
        /\ (Places(job, off + 2, t) => Blob(job, off + 2) = DiskBlob(disk, t) /\ off + 2 \in Makers(job))
        /\ (Places(job, off + 8, t) => Blob(job, off + 8) = DiskBlob(disk, t) /\ off + 8 \in Makers(job))
  BY PlacesAre, Zenon
<1>10. Places(job, off + 2, "scsibridge") /\ Places(job, off + 8, "ftlbridge")
  BY Zenon DEF Places
<1>11. /\ Blob(job, off + 2) = DiskBlob(disk, "scsibridge") /\ off + 2 \in Makers(job)
       /\ Blob(job, off + 8) = DiskBlob(disk, "ftlbridge") /\ off + 8 \in Makers(job)
  BY <1>9, <1>10, Zenon
<1>12. src = "ftlbridge" => asm["scsibridge"] <= \h5b0
  <2> SUFFICES ASSUME src = "ftlbridge" PROVE asm["scsibridge"] <= \h5b0
    OBVIOUS
  <2>1. k + 1 = off + 8
    BY <1>4 DEF Places
  <2>2. off + 2 <= k
    BY <1>4, <2>1
  <2>3. DiskBlob(disk, "scsibridge") \in blobs
    BY <1>3, <1>11, <2>2, Zenon DEF BlobsBy
  <2>4. DiskBlob(disk, "scsibridge").src = "scsibridge"
    BY DEF DiskBlob, Trampoline
  <2>5. DiskBlob(disk, "scsibridge").to <= DiskModeOffset(disk, DiskVA("ftlbridge"))
    BY <1>7, <1>8, <2>3, <2>4 DEF Shaped
  <2>6. asm["scsibridge"] \in Nat
    BY <1>1, PatchAssumption DEF Sources
  <2>7. DiskVA("scsibridge") = \h080385d0 /\ DiskVA("ftlbridge") = \h08038b80
    BY SMT DEF DiskVA
  <2> HIDE DEF disk
  <2> QED
    BY <1>2, <2>5, <2>6, <2>7, SMT DEF DiskBlob, Trampoline, DiskModeOffset
<1>13. src = "planeerase" => asm["ftlbridge"] <= \hb00
  <2> SUFFICES ASSUME src = "planeerase" PROVE asm["ftlbridge"] <= \hb00
    OBVIOUS
  <2>1. k + 1 = off + 10
    BY <1>4 DEF Places
  <2>2. off + 8 <= k
    BY <1>4, <2>1
  <2>3. DiskBlob(disk, "ftlbridge") \in blobs
    BY <1>3, <1>11, <2>2, Zenon DEF BlobsBy
  <2>4. Untouched(tramp)
    BY <1>7, <1>8 DEF Shaped
  <2>5. \A q \in Code(DiskBlob(disk, "ftlbridge")) : Apart(DiskBlob(disk, "planeerase"), q)
    BY <2>3, <2>4, Zenon DEF Untouched, Foreign
  <2> HIDE DEF disk
  <2> QED
    BY <1>1, <1>2, <2>5, FtlEndsBefore
<1>14. DiskPassed(k + 1, off)
  <2>1. src = "erasedpage" => asm["erasedpage"] <= \h86c
    BY SMT, <1>7, <1>8 DEF Bounded
  <2>2. src = "planeerase" => asm["planeerase"] <= \h288
    BY SMT, <1>7, <1>8 DEF Bounded
  <2> HIDE DEF off
  <2> QED
    BY SMT, <1>4, <1>5, <1>12, <1>13, <2>1, <2>2 DEF DiskPassed, Places, off
<1>15. k + 1 \in {3, 7, 9, 11, 13, 17, 19, 21}
  BY <1>4 DEF Places
<1>16. job = "firmware" => k + 1 \in {13, 17, 19, 21}
  BY <1>4 DEF Places
<1>17. Passed(job, k + 1)
  <2>1. job = "recovery" => DiskPassed(k + 1, 1)
    BY <1>4, <1>14
  <2>2. job = "firmware" => DiskPassed(k + 1, 11)
    BY <1>4, <1>14
  <2>3. job = "firmware" =>
          /\ k + 1 >= 9 => Before("bbtscan") + asm["bbtscan"] <= \h858
          /\ k + 1 >= 38 => Before("blockbridge") + asm["blockbridge"] <= \he74
    BY SMT, <1>3, <1>16 DEF Passed
  <2> QED
    BY <2>1, <2>2, <2>3 DEF Passed
<1>18. Cursor(job, k + 1)'
  <2>1. job' = job
    BY DEF Proceed
  <2> QED
    BY <1>16, <2>1 DEF Cursor
<1> QED
  BY <1>17, <1>18

LEMMA PlaceStep ==
  ASSUME PatchInv, PlaceBlob
  PROVE  PatchInv'
<1> DEFINE tramp == Trampoline(Head(todo).src, Head(todo).at)
           item == Head(todo)
<1>1. PICK k \in Nat : Done(k)
  BY DEF PatchInv, PlaceBlob
<1>2. patchPc = "patching" /\ Head(todo).op = "place"
  BY DEF PlaceBlob
<1>3. /\ job \in Jobs /\ asm \in Assemblies /\ k \in 0 .. Items(job) - 1
      /\ k + 1 \in 1 .. Items(job) /\ Head(todo) = Plan(job)[k + 1]
      /\ earlier = {} => FirstTime(k)
      /\ earlier # {} => Trap(job) \in earlier
  BY <1>1, <1>2, AtHand, Zenon
<1>4. PICK src : Places(job, k + 1, src)
  BY <1>2, <1>3, PlacesFound, Zenon
<1>5. job \in DiskJobs
  BY <1>2, <1>3, PlacesFound, Zenon
<1> DEFINE disk == DiskBase(job)
<1>60. /\ src \in DiskSources /\ k + 1 \in Makers(job) /\ disk \in Nat
       /\ k + 1 = Catcher(job) <=> src = "planeerase"
  <2> DEFINE i == k + 1
  <2>1. Places(job, i, src)
    BY <1>4
  <2> HIDE DEF i
  <2>2. /\ src \in DiskSources /\ i \in Makers(job) /\ DiskBase(job) \in Nat
        /\ i = Catcher(job) <=> src = "planeerase"
    BY <1>5, <2>1, PlacesAre
  <2> QED
    BY <2>2 DEF i
<1>61. Plan(job)[k + 1] = DiskPlace(disk, src) /\ Blob(job, k + 1) = DiskBlob(disk, src)
  BY <1>4, <1>5, PlacesAre, Zenon
<1>6. /\ src \in DiskSources /\ k + 1 \in Makers(job) /\ disk \in Nat
      /\ k + 1 = Catcher(job) <=> src = "planeerase"
      /\ Head(todo) = DiskPlace(disk, src) /\ Blob(job, k + 1) = DiskBlob(disk, src)
  BY <1>3, <1>60, <1>61, Zenon
<1>7. Shaped(disk, src, item) /\ Bounded(disk, src, item)
  BY <1>3, <1>6, PlacesAsk, Zenon
<1>70. tramp = DiskBlob(disk, src)
  BY <1>7, Zenon DEF Shaped
<1>8. CASE Fits(item, tramp)
  <2>1. blobs' = blobs \cup {tramp} /\ Proceed /\ UNCHANGED <<next, wrote, astray, mapped>>
    BY <1>8, Zenon DEF PlaceBlob
  <2>2. ASSUME earlier # {}, k + 1 = Catcher(job) PROVE FALSE
    <3>1. Untouched(tramp)
      BY <1>6, <1>7, <1>8, <2>2 DEF Fits, Shaped
    <3>2. tramp = Blob(job, Catcher(job)) /\ job # "module"
      BY <1>5, <1>6, <1>70, <2>2 DEF DiskJobs
    <3>3. Trap(job) = Piece(tramp.from, tramp.to - tramp.from)
      BY <3>2, Zenon DEF Trap
    <3>4. Trap(job) \in Foreign
      BY <1>3, <2>2, Zenon DEF Foreign
    <3>5. Apart(tramp, Trap(job))
      BY <3>1, <3>4, Zenon DEF Untouched
    <3>6. asm[src] \in Nat /\ asm[src] >= 8
      BY <1>3, <1>6, PatchAssumption DEF Sources, DiskSources
    <3>7. DiskModeOffset(disk, DiskVA(src)) \in Nat
      BY <1>6, SMT DEF DiskModeOffset, DiskVA, DiskSources
    <3>8. tramp.from \in Nat /\ tramp.to = tramp.from + asm[src]
      BY <1>70, <3>6, <3>7 DEF DiskBlob, Trampoline
    <3> HIDE DEF tramp
    <3> QED
      BY <3>3, <3>5, <3>6, <3>8 DEF Apart, Piece
  <2>3. ASSUME earlier = {}
        PROVE  /\ blobs' = blobs \cup {Blob(job, k + 1)} /\ Passed(job, k + 1)
               /\ Cursor(job, k + 1)' /\ Loaded(job, k + 1)'
    <3>1. Fits(Head(todo), DiskBlob(DiskBase(job), src))
      BY <1>70, <1>8, Zenon
    <3>2. Passed(job, k + 1) /\ Cursor(job, k + 1)'
      BY <1>1, <1>2, <1>4, <1>5, <2>1, <2>3, <3>1, PlaceAdvances, Zenon
    <3>3. Loaded(job, k + 1)'
      BY <1>5, <2>1 DEF Loaded, Proceed, DiskJobs
    <3> QED
      BY <1>6, <1>70, <2>1, <3>2, <3>3, Zenon
  <2> QED
    BY <1>1, <1>2, <1>6, <2>1, <2>2, <2>3, PutsInPlace, Zenon
<1>9. CASE ~Fits(item, tramp)
  <2>1. Refuse
    BY <1>9, Zenon DEF PlaceBlob
  <2>2. ASSUME drift = {}, earlier = {}, GapsSuffice PROVE FALSE
    <3>1. FirstTime(k) /\ blobs = BlobsBy(job, k)
      BY <1>3, <2>2 DEF FirstTime
    <3>2. Fit(job)
      BY <1>3, <2>2, BlobsFit, Zenon
    <3>3. k + 1 > k
      OBVIOUS
    <3>4. Untouched(tramp)
      BY <1>3, <1>6, <1>70, <2>2, <3>1, <3>2, <3>3, NothingInTheWay, Zenon
    <3>5. /\ asm["scsibridge"] <= \h5b0 /\ asm["ftlbridge"] <= \hb00
          /\ asm["erasedpage"] <= \h86c /\ asm["planeerase"] <= \h288
      BY <2>2, SMT DEF GapsSuffice
    <3>6. tramp.to <= item.end
      BY SMT, <1>6, <1>7, <1>70, <3>5 DEF DiskSources, Bounded
    <3>7. ASSUME NEW b \in blobs, b.src = item.after PROVE b.to <= item.at
      <4>1. b.src # "none" /\ (b.src = "scsibridge" => b = DiskBlob(disk, "scsibridge"))
        BY <1>3, <1>5, <3>1, OneOfEach, Zenon
      <4>2. src = "ftlbridge" /\ b = DiskBlob(disk, "scsibridge")
        BY <1>7, <3>7, <4>1 DEF Shaped
      <4>3. asm["scsibridge"] \in Nat
        BY <1>3, PatchAssumption DEF Sources
      <4>4. DiskVA("scsibridge") = \h080385d0 /\ DiskVA("ftlbridge") = \h08038b80
        BY SMT DEF DiskVA
      <4>5. item.at = DiskModeOffset(disk, DiskVA("ftlbridge"))
        BY <1>7, <4>2 DEF Shaped
      <4> HIDE DEF disk, item
      <4> QED
        BY <1>6, <3>5, <4>2, <4>3, <4>4, <4>5, SMT DEF DiskBlob, Trampoline, DiskModeOffset
    <3> QED
      BY <1>9, <3>4, <3>6, <3>7, Zenon DEF Fits
  <2>3. job # "module"
    BY <1>5 DEF DiskJobs
  <2> QED
    BY <2>1, <2>2, <2>3, Refuses, Zenon
<1> QED
  BY <1>8, <1>9

(* The item that bakes the descriptor, of disk mode's layer.                *)
LEMMA BakesAre ==
  ASSUME NEW k \in Nat, job \in Jobs, k + 1 \in 1 .. Items(job), Plan(job)[k + 1].op = "table"
  PROVE  /\ job \in DiskJobs /\ k + 1 = DiskOff(job) + 5 /\ k + 1 # Catcher(job)
         /\ Plan(job)[k + 1] = BakeTable(DiskBase(job))
<1>1. k + 1 \in Bakers(job)
  <2>1. Plan(job)[k + 1].op \notin Looks \cup {"place", "splice", "grow", "region"}
    BY DEF Looks
  <2> QED
    BY <2>1, KindsOfItems
<1>2. job \in DiskJobs /\ (job = "recovery" => k + 1 = 6) /\ (job = "firmware" => k + 1 = 16)
  BY <1>1 DEF Bakers, Jobs, DiskJobs
<1>3. k + 1 = DiskOff(job) + 5 /\ k + 1 # Catcher(job)
  BY <1>2 DEF DiskOff, DiskJobs, Catcher
<1>4. Plan(job)[k + 1] = BakeTable(DiskBase(job))
  BY <1>2, RecoveryItems, FirmwareItems, Zenon DEF DiskBase, DiskJobs
<1> QED
  BY <1>2, <1>3, <1>4

(* The literal of an image that is patched for the first time, when it is   *)
(* Apple's: the trampolines placed by then begin behind it or, the updater's*)
(* in its own gap, end before disk mode does begin.                         *)
LEMMA LiteralIsUntouched ==
  ASSUME NEW k \in Nat, Done(k), patchPc = "patching", earlier = {}, ~TableMoved,
         Plan(job)[k + 1].op = "table"
  PROVE  Untouched(TableLiteral(DiskBase(job)))
<1> DEFINE s == Plan(job)
           disk == DiskBase(job)
           p == TableLiteral(disk)
<1>1. /\ job \in Jobs /\ asm \in Assemblies /\ k + 1 \in 1 .. Items(job) /\ FirstTime(k)
  BY AtHand, Zenon
<1>2. /\ job \in DiskJobs /\ k + 1 = DiskOff(job) + 5 /\ s[k + 1] = BakeTable(disk)
  BY <1>1, BakesAre, Zenon
<1>3. Examined(s, k + 1) = {p}
  BY <1>2 DEF Examined, BakeTable
<1>4. /\ disk \in Nat /\ (job = "recovery" => disk = RecoveryDisk)
      /\ job = "firmware" => disk = FirmwareDisk
  BY <1>2, Bases, Zenon DEF DiskBase, DiskJobs
<1>5. DiskModeIn(job) = disk
  BY <1>2 DEF DiskModeIn, DiskBase, DiskJobs, RecoveryDisk, FirmwareDisk
<1>6. \A d \in drift : ~(p.from <= d /\ d < p.to)
  <2>1. job # "module"
    BY <1>2 DEF DiskJobs
  <2> QED
    BY <1>5, <2>1, Zenon DEF TableMoved
<1>7. p.from \in Nat /\ p.to \in Nat /\ disk < p.from
  BY <1>4, SMT DEF TableLiteral, Piece, DiskModeOffset
<1>15. p.to <= DiskModeOffset(disk, \h080385d0)
  BY <1>4, SMT DEF TableLiteral, Piece, DiskModeOffset
<1> HIDE DEF disk, p
<1>8. ASSUME NEW q \in wrote PROVE Apart(p, q)
  <2>1. Clean(s, Gaps(job)) /\ DOMAIN s = 1 .. Items(job) /\ Items(job) \in Nat
    BY <1>1, PlansClean, PlansListed, ListedLen, Zenon
  <2>2. PICK i \in 1 .. k : q \in Written(s, i)
    BY <1>1, Zenon DEF FirstTime, WroteBy
  <2>3. i \in DOMAIN s /\ k + 1 \in DOMAIN s /\ i < k + 1
    <3> HIDE DEF s
    <3> QED
      BY <1>1, <2>1
  <2>4. Apart(q, p)
    BY <1>3, <2>1, <2>2, <2>3, Zenon DEF Clean
  <2> QED
    BY <2>4, Zenon DEF Apart
<1>9. ASSUME NEW b \in blobs PROVE Apart(p, b)
  <2>1. PICK i \in Makers(job) : i <= k /\ b = Blob(job, i)
    BY <1>1, Zenon DEF FirstTime, BlobsBy
  <2>2. \/ job = "recovery" /\ i = 3
        \/ job = "firmware" /\ i = 13
        \/ job = "firmware" /\ i \in {5, 7, 9}
    <3>1. job = "recovery" \/ job = "firmware"
      BY <1>2, Zenon DEF DiskJobs
    <3>2. i <= k /\ k + 1 = DiskOff(job) + 5 /\ i \in Makers(job)
      BY <1>2, <2>1, Zenon
    <3>3. CASE job = "recovery"
      <4>1. DiskOff(job) = 1 /\ Makers(job) = {3, 7, 9, 11}
        BY <3>3 DEF DiskOff, Makers
      <4> QED
        BY <3>2, <3>3, <4>1, SMT
    <3>4. CASE job = "firmware"
      <4>1. DiskOff(job) = 11 /\ Makers(job) = {5, 7, 9, 13, 17, 19, 21, 30, 32, 34, 38}
        BY <3>4 DEF DiskOff, Makers
      <4> QED
        BY <3>2, <3>4, <4>1, SMT
    <3> QED
      BY <3>1, <3>3, <3>4
  <2>3. CASE (job = "recovery" /\ i = 3) \/ (job = "firmware" /\ i = 13)
    <3>1. b = DiskBlob(disk, "scsibridge")
      BY <1>4, <2>1, <2>3, BlobTable, Zenon
    <3>2. b.from = DiskModeOffset(disk, \h080385d0)
      BY <3>1, SMT DEF DiskBlob, DiskVA, Trampoline
    <3> QED
      <4>1. p.to <= b.from
        BY <1>15, <3>2, SMT
      <4> QED
        BY <4>1, Zenon DEF Apart
  <2>4. CASE job = "firmware" /\ i \in {5, 7, 9}
    <3> DEFINE gap == AupdGap(FirmwareAupd)
               S3 == {"planeerase", "erasedpage", "bbtscan"}
    <3>1. PICK src \in S3 : b = SplicedBlob(gap, src)
      BY <2>1, <2>4, BlobTable
    <3>2. gap.from \in Nat /\ gap.to \in Nat /\ gap.to <= disk
      BY <1>4, <2>4, SMT DEF AupdGap, FirmwareAupd, FirmwareDisk
    <3>10. gap.to - gap.from = \h858
      BY SMT DEF AupdGap, FirmwareAupd
    <3> HIDE DEF gap
    <3>3. \A t \in S3 : asm[t] \in Nat /\ Aligned(asm[t]) \in Nat /\ Aligned(asm[t]) >= asm[t]
      BY <1>1, PatchAssumption, AlignedBy DEF Sources
    <3>4. /\ Before("planeerase") = 0 /\ Before("erasedpage") = Aligned(asm["planeerase"])
          /\ Before("bbtscan") = Aligned(asm["planeerase"]) + Aligned(asm["erasedpage"])
      BY DEF Before
    <3>5. k >= 9 /\ Passed(job, k)
      BY <1>1, <1>2, <2>4 DEF DiskOff, FirstTime
    <3>6. Before("bbtscan") + asm["bbtscan"] <= \h858
      BY <2>4, <3>5, SMT DEF Passed
    <3>7. \A t \in S3 : Before(t) + asm[t] <= gap.to - gap.from
      BY <3>2, <3>10, <3>3, <3>4, <3>6, SMT
    <3>8. S3 \in SUBSET {"planeerase", "erasedpage", "bbtscan", "blockbridge"}
      OBVIOUS
    <3>9. Inside(b, gap.from, gap.to)
      BY <1>1, <3>1, <3>2, <3>7, <3>8, SplicesPacked, Zenon
    <3> QED
      BY <1>4, <1>7, <3>2, <3>9, SMT DEF Inside, Apart
  <2> QED
    BY <2>2, <2>3, <2>4
<1>10. ASSUME NEW b \in blobs, NEW q \in Code(b) PROVE Apart(p, q)
  <2>1. PICK i \in Makers(job) : b = Blob(job, i)
    BY <1>1, Zenon DEF FirstTime, BlobsBy
  <2>2. PICK src \in Sources, at \in Nat : b = Trampoline(src, at)
    BY <1>1, <2>1, BlobsAreTrampolines, Zenon
  <2>3. Apart(p, Trampoline(src, at)) /\ q \in Code(Trampoline(src, at))
    BY <1>9, <2>2, Zenon
  <2> QED
    BY <1>1, <1>7, <2>3, CodeWithin, Zenon
<1>11. astray = {}
  BY <1>1, Zenon DEF FirstTime
<1>12. {Piece(d.from, \h2a) : d \in astray} = {}
  BY <1>11, Zenon
<1>13. \A q \in Foreign : Apart(p, q)
  BY <1>8, <1>10, <1>12, Zenon DEF Foreign
<1>14. Untouched(p)
  BY <1>6, <1>13, Zenon DEF Untouched
<1> QED
  BY <1>14 DEF p, disk

LEMMA BakeStep ==
  ASSUME PatchInv, BakeDescriptor
  PROVE  PatchInv'
<1>1. PICK k \in Nat : Done(k)
  BY DEF PatchInv, BakeDescriptor
<1>2. patchPc = "patching" /\ Head(todo).op = "table"
  BY DEF BakeDescriptor
<1>3. job \in Jobs /\ k + 1 \in 1 .. Items(job) /\ Head(todo) = Plan(job)[k + 1]
  BY <1>1, <1>2, AtHand, Zenon
<1>4. /\ job \in DiskJobs /\ k + 1 # Catcher(job)
      /\ Head(todo) = BakeTable(DiskBase(job))
  BY <1>2, <1>3, BakesAre, Zenon
<1>5. Head(todo).literal = {TableLiteral(DiskBase(job))}
      /\ Written(Plan(job), k + 1) = Head(todo).pieces
  BY <1>2, <1>3, <1>4 DEF BakeTable, Written
<1>6. Head(todo).op \in Looks \cup {"table"} /\ job # "module"
  BY <1>2, <1>4 DEF DiskJobs
<1>7. CASE \A p \in Head(todo).literal : Untouched(p)
  <2>1. /\ wrote' = wrote \cup Head(todo).pieces
        /\ Proceed /\ UNCHANGED <<next, blobs, astray, mapped>>
    BY <1>7, SMT DEF BakeDescriptor
  <2> QED
    BY <1>1, <1>2, <1>4, <1>5, <1>6, <2>1, PassesBy, Zenon
<1>8. CASE ~\A p \in Head(todo).literal : Untouched(p)
  <2>1. earlier = {} => TableMoved
    <3>1. ~Untouched(TableLiteral(DiskBase(job)))
      BY <1>5, <1>8, Zenon
    <3> QED
      BY <1>1, <1>2, <1>3, <3>1, LiteralIsUntouched, Zenon
  <2>2. \/ Proceed /\ UNCHANGED <<next, blobs, wrote, mapped>>
        \/ Refuse
    BY <1>8, SMT DEF BakeDescriptor
  <2>3. CASE Proceed /\ UNCHANGED <<next, blobs, wrote, mapped>>
    <3>1. wrote' = wrote /\ UNCHANGED <<next, blobs, mapped>>
      BY <2>3
    <3>2. wrote \subseteq wrote' /\ wrote' \subseteq wrote \cup Written(Plan(job), k + 1)
      BY <3>1, Zenon
    <3> QED
      BY <1>1, <1>2, <1>4, <1>6, <2>1, <2>3, <3>1, <3>2, PassesBy, Zenon
  <2>4. CASE Refuse
    <3>1. ~(drift = {} /\ earlier = {})
      BY <2>1, Zenon DEF TableMoved
    <3> QED
      BY <2>4, <3>1, Refuses, Zenon
  <2> QED
    BY <2>2, <2>3, <2>4
<1> QED
  BY <1>7, <1>8

-----------------------------------------------------------------------------
(* A job begins, or begins anew, at the head of its plan.                   *)
LEMMA AtTheHead ==
  ASSUME NEW j \in Jobs
  PROVE  /\ Plan(j) = Rest(Plan(j), 0, Items(j)) /\ 0 \in 0 .. Items(j) /\ 0 # Items(j)
         /\ WroteBy(j, 0) = {} /\ BlobsBy(j, 0) = {}
<1> DEFINE s == Plan(j)
           n == Items(j)
<1>1. Listed(s, n) /\ n \in Nat \ {0}
  BY PlansListed, Zenon
<1>2. Rest(s, 0, n) = s
  <2> HIDE DEF s, n
  <2> QED
    BY <1>1, RestOfPlan
<1>3. \A m \in Makers(j) : m \in Nat /\ m >= 1
  BY <1>1, MakersAreItems
<1>4. BlobsBy(j, 0) = {}
  BY <1>3 DEF BlobsBy
<1>5. WroteBy(j, 0) = {}
  BY DEF WroteBy
<1> QED
  BY <1>1, <1>2, <1>4, <1>5

LEMMA StartStep ==
  ASSUME PatchInv, NEW j \in Jobs, StartJob(j)
  PROVE  PatchInv'
<1>1. /\ patchPc' = "patching" /\ job' = j /\ todo' = Plan(j) /\ asm' \in Assemblies
      /\ mapped' = [end |-> ModuleSize, header |-> ModuleSize]
      /\ wrote' = {} /\ astray' = {} /\ blobs' = {} /\ earlier' = {}
  BY DEF PatchInv, StartJob
<1>2. FirstTime(0)'
  <2>1. (wrote = WroteBy(job, 0))' /\ WroteBy(job, 0)' = {}
    BY <1>1, AtTheHead, Zenon
  <2>2. BlobsBy(job, 0)' = {}
    <3>1. \A m \in Makers(j) : m \in Nat /\ m >= 1
      BY MakersAreItems, PlansListed
    <3> QED
      BY <1>1, <3>1 DEF BlobsBy
  <2>3. Passed(job, 0)' /\ Cursor(job, 0)'
    BY SMT DEF Passed, DiskPassed, Cursor
  <2>4. Loaded(job, 0)'
    <3> DEFINE at == ModuleSize
    <3>1. at \in Nat
      BY SMT DEF ModuleSize
    <3> HIDE DEF at
    <3>2. at = at + 0 /\ ~(0 >= 2)
      BY <3>1
    <3>3. mapped' = [end |-> at + 0, header |-> at + 0]
      BY <1>1, <3>2, Zenon DEF at
    <3> QED
      BY <3>2, <3>3 DEF Loaded, at
  <2> QED
    BY <1>1, <2>1, <2>2, <2>3, <2>4, Zenon DEF FirstTime
<1>3. Done(0)'
  <2>1. todo' = Rest(Plan(j), 0, Items(j)) /\ 0 \in 0 .. Items(j) /\ 0 # Items(j)
    BY <1>1, AtTheHead, Zenon
  <2> QED
    BY <1>1, <1>2, <2>1, Zenon DEF Done
<1> QED
  BY <1>1, <1>3 DEF PatchInv, StockIsAccepted

(* Where an image that is done stands.                                      *)
LEMMA AtTheEnd ==
  ASSUME PatchInv, patchPc = "ok"
  PROVE  job \in Jobs /\ asm \in Assemblies /\ earlier = {} /\ FirstTime(Items(job))
<1>1. PICK k \in Nat : Done(k)
  BY DEF PatchInv
<1>2. job \in Jobs /\ asm \in Assemblies /\ k = Items(job)
  BY <1>1 DEF Done
<1>3. Catcher(job) \in 1 .. Items(job)
  BY <1>2, CatchersCheck, Zenon
<1>4. ~(k < Catcher(job))
  BY <1>2, <1>3, PlansListed
<1>5. earlier = {}
  BY <1>1, <1>4 DEF Done
<1> QED
  BY <1>1, <1>2, <1>5 DEF Done

(* What an application leaves behind holds what the next one is caught by.  *)
LEMMA TrapIsSet ==
  ASSUME PatchInv, patchPc = "ok"
  PROVE  Trap(job) \in Foreign
<1>1. /\ job \in Jobs /\ blobs = BlobsBy(job, Items(job))
      /\ job = "module" => wrote = WroteBy(job, Items(job))
  BY AtTheEnd, Zenon DEF FirstTime
<1>2. CASE job = "module"
  <2>1. Plan(job)[5] = Words({Piece(\h22e, 16)})
    BY SMT, <1>2 DEF Plan, ModulePlan
  <2>2. Trap(job) = Piece(\h22e, 16) /\ Items(job) = 8
    BY SMT, <1>2 DEF Trap, Items
  <2>3. Trap(job) \in Written(Plan(job), 5)
    BY SMT, <2>1, <2>2 DEF Written, Words
  <2>4. 5 \in 1 .. Items(job)
    BY <2>2
  <2>5. Trap(job) \in wrote
    BY <1>1, <1>2, <2>3, <2>4, Zenon DEF WroteBy
  <2> QED
    BY <2>5, Zenon DEF Foreign
<1>3. CASE job \in DiskJobs
  <2> DEFINE i == Catcher(job)
             tramp == Blob(job, i)
  <2>1. Places(job, i, "planeerase")
    BY <1>3 DEF Places, DiskJobs, Catcher, DiskOff
  <2>2. i \in Makers(job) /\ tramp = DiskBlob(DiskBase(job), "planeerase")
    BY <1>3, <2>1, PlacesAre, Zenon
  <2>3. i <= Items(job)
    BY <1>1, CatchersCheck, PlansListed
  <2>4. tramp \in blobs
    BY <1>1, <2>2, <2>3, Zenon DEF BlobsBy
  <2>5. tramp.src = "planeerase"
    BY <2>2 DEF DiskBlob, Trampoline
  <2>6. Code(tramp) = {Piece(tramp.from, tramp.to - tramp.from)}
    BY <2>5 DEF Code
  <2>7. job # "module"
    BY <1>3 DEF DiskJobs
  <2>8. Trap(job) \in Code(tramp)
    BY <2>6, <2>7, Zenon DEF Trap
  <2> QED
    BY <2>4, <2>8, Zenon DEF Foreign
<1> QED
  BY <1>1, <1>2, <1>3 DEF Jobs, DiskJobs

LEMMA AgainStep ==
  ASSUME PatchInv, ApplyAgain
  PROVE  PatchInv'
<1>1. /\ patchPc = "ok" /\ patchPc' = "patching" /\ earlier' = Foreign
      /\ todo' = Plan(job) /\ job' = job /\ asm' = asm
  BY DEF ApplyAgain
<1>2. job \in Jobs /\ asm \in Assemblies
  BY <1>1, AtTheEnd, Zenon
<1>3. Trap(job)' = Trap(job)
  <2>1. \A i : Blob(job, i)' = Blob(job, i)
    BY <1>1, BlobsKept, Zenon
  <2>2. Catcher(job)' = Catcher(job)
    BY <1>1 DEF Catcher
  <2> QED
    BY <1>1, <2>1, <2>2, Zenon DEF Trap
<1>4. Trap(job) \in earlier'
  BY <1>1, TrapIsSet, Zenon
<1>5. 0 < Catcher(job)
  BY DEF Catcher
<1>6. todo' = Rest(Plan(job), 0, Items(job)) /\ 0 \in 0 .. Items(job) /\ 0 # Items(job)
  BY <1>1, <1>2, AtTheHead, Zenon
<1>7. Done(0)'
  <2>1. (job \in Jobs /\ asm \in Assemblies)'
    BY <1>1, <1>2
  <2>2. (0 \in 0 .. Items(job) /\ todo = Rest(Plan(job), 0, Items(job)))'
    BY <1>1, <1>6, Zenon
  <2>3. (patchPc = IF 0 = Items(job) THEN "ok" ELSE "patching")'
    BY <1>1, <1>6, Zenon
  <2>4. (earlier # {})' /\ (0 < Catcher(job) /\ Trap(job) \in earlier)'
    BY <1>1, <1>3, <1>4, <1>5, Zenon DEF Catcher
  <2> QED
    BY <2>1, <2>2, <2>3, <2>4, Zenon DEF Done
<1> QED
  BY <1>1, <1>7 DEF PatchInv, StockIsAccepted

LEMMA RestStep ==
  ASSUME PatchInv, UNCHANGED patchVars
  PROVE  PatchInv'
<1>1. /\ job' = job /\ asm' = asm /\ drift' = drift /\ todo' = todo /\ next' = next
      /\ blobs' = blobs /\ wrote' = wrote /\ astray' = astray /\ earlier' = earlier /\ mapped' = mapped
      /\ patchPc' = patchPc
  BY DEF patchVars
<1>2. StockIsAccepted'
  <2>1. GapsSuffice' => GapsSuffice
    BY <1>1, SMT DEF GapsSuffice, Aligned
  <2> QED
    BY <1>1, <2>1 DEF PatchInv, StockIsAccepted
<1>3. ASSUME NEW k \in Nat, Done(k) PROVE Done(k)'
  <2>1. \A i : Blob(job, i)' = Blob(job, i)
    BY <1>1, BlobsKept, Zenon
  <2>2. Trap(job)' = Trap(job) /\ Catcher(job)' = Catcher(job)
    BY <1>1, <2>1, ZenonT(40) DEF Trap, Catcher
  <2>3. ASSUME FirstTime(k) PROVE FirstTime(k)'
    <3>1. Passed(job, k)' /\ Cursor(job, k)' /\ Loaded(job, k)'
      BY <1>1, <2>3, PassedKept, CursorKept, LoadedKept, Zenon DEF FirstTime
    <3>2. WroteBy(job, k)' = WroteBy(job, k)
      BY <1>1
    <3>3. BlobsBy(job, k)' = BlobsBy(job, k)
      BY <1>1, BlobsKept, Zenon DEF BlobsBy
    <3>4. ~TableMoved' => astray' = {}
      BY <1>1, <2>3, MovedKept, Zenon DEF FirstTime
    <3> QED
      BY <1>1, <2>3, <3>1, <3>2, <3>3, <3>4, Zenon DEF FirstTime
  <2>4. Items(job)' = Items(job) /\ Plan(job)' = Plan(job)
    BY <1>1
  <2> QED
    BY <1>1, <1>3, <2>2, <2>3, <2>4, Zenon DEF Done
<1> QED
  BY <1>1, <1>2, <1>3, Zenon DEF PatchInv

LEMMA PatchInduction == PatchSpec => []PatchInv
<1>1. PatchInit => PatchInv
  BY DEF PatchInit, PatchInv, StockIsAccepted
<1>2. PatchInv /\ [PatchNext]_patchVars => PatchInv'
  <2> SUFFICES ASSUME PatchInv, [PatchNext]_patchVars PROVE PatchInv'
    OBVIOUS
  <2>1. ASSUME NEW j \in Jobs, StartJob(j) PROVE PatchInv'
    BY <2>1, StartStep
  <2>2. CASE WriteWords
    BY <2>2, WordsStep
  <2>3. CASE CheckStock
    BY <2>3, StockStep
  <2>4. CASE StartRegion
    BY <2>4, RegionStep
  <2>5. CASE SpliceBlob
    BY <2>5, SpliceStep
  <2>6. CASE PlaceBlob
    BY <2>6, PlaceStep
  <2>7. CASE GrowModule
    BY <2>7, GrowStep
  <2>8. CASE ApplyAgain
    BY <2>8, AgainStep
  <2>9. CASE NextImageOfMany
    BY <2>9 DEF NextImageOfMany, PatchInv, StockIsAccepted
  <2>10. CASE UNCHANGED patchVars
    BY <2>10, RestStep
  <2>11. CASE BakeDescriptor
    BY <2>11, BakeStep
  <2> QED
    BY <2>1, <2>2, <2>3, <2>4, <2>5, <2>6, <2>7, <2>8, <2>9, <2>10, <2>11, Zenon DEF PatchNext
<1> QED
  BY <1>1, <1>2, PTL DEF PatchSpec

(* An image that is refused is not the stock one, has been patched before,  *)
(* or meets a trampoline too long for its gap.                              *)
THEOREM StockImagesPass == PatchSpec => []StockIsAccepted
<1>1. PatchInv => StockIsAccepted
  BY DEF PatchInv
<1> QED
  BY <1>1, PatchInduction, PTL

(* The trampolines of an image that is delivered, whatever their lengths,   *)
(* and all that was written over it lie apart; a chip descriptor goes       *)
(* elsewhere only if the image's literal for the device table is not        *)
(* Apple's; the code of a module is within what is loaded of it; and no     *)
(* image is delivered that was patched before.                              *)
THEOREM PatchesLieApart == PatchSpec => []PatchesIntact
<1>1. PatchInv => PatchesIntact
  <2> SUFFICES ASSUME PatchInv, patchPc = "ok"
               PROVE  /\ \A p, q \in {Piece(b.from, b.to - b.from) : b \in blobs} \cup wrote :
                           p # q => Apart(p, q)
                      /\ astray # {} => TableMoved
                      /\ job = "module" =>
                           \A b \in blobs : b.to <= mapped.end /\ b.to <= mapped.header
                      /\ earlier = {}
    BY Zenon DEF PatchesIntact
  <2> DEFINE n == Items(job)
             s == Plan(job)
  <2>1. job \in Jobs /\ asm \in Assemblies /\ earlier = {} /\ FirstTime(n)
    BY AtTheEnd, Zenon
  <2>2. wrote \subseteq WroteBy(job, n) /\ blobs = BlobsBy(job, n) /\ Passed(job, n) /\ Loaded(job, n)
    BY <2>1, Zenon DEF FirstTime
  <2>3. job # "module" => GapsSuffice
    BY <2>1, <2>2, AllPassed, Zenon
  <2>4. Fit(job)
    BY <2>1, <2>3, BlobsFit, Zenon
  <2>5. Clean(s, Gaps(job))
    BY <2>1, PlansClean, Zenon
  <2>6. n \in Nat \ {0} /\ DOMAIN s = 1 .. n
    BY <2>1, PlansListed, ListedLen, Zenon
  <2>7. \A b \in blobs : Piece(b.from, b.to - b.from).from = b.from
                         /\ Piece(b.from, b.to - b.from).to = b.to
    <3> SUFFICES ASSUME NEW b \in blobs
                 PROVE  Piece(b.from, b.to - b.from).from = b.from
                        /\ Piece(b.from, b.to - b.from).to = b.to
      OBVIOUS
    <3>1. PICK i \in Makers(job) : b = Blob(job, i)
      BY <2>2, Zenon DEF BlobsBy
    <3>2. PICK g \in Gaps(job) : Inside(b, g.from, g.to)
      BY <2>4, <3>1, Zenon DEF Fit
    <3>3. b.from \in Nat /\ b.to \in Nat
      BY <3>2, Zenon DEF Inside
    <3> QED
      BY <3>3 DEF Piece
  <2> HIDE DEF n, s
  <2>8. ASSUME NEW p \in wrote, NEW q \in wrote, p # q PROVE Apart(p, q)
    <3>1. PICK i \in 1 .. n, m \in 1 .. n : p \in Written(s, i) /\ q \in Written(s, m)
      BY <2>2, Zenon DEF WroteBy, s
    <3> QED
      BY <2>5, <2>6, <2>8, <3>1, Zenon DEF Clean
  <2>9. ASSUME NEW p \in wrote, NEW b \in blobs
        PROVE  Apart(p, b) /\ Apart(b, p)
    <3>1. PICK i \in 1 .. n : p \in Written(s, i)
      BY <2>2, Zenon DEF WroteBy, s
    <3>2. PICK m \in Makers(job) : b = Blob(job, m)
      BY <2>2, Zenon DEF BlobsBy
    <3>3. PICK g \in Gaps(job) : Inside(b, g.from, g.to)
      BY <2>4, <3>2, Zenon DEF Fit
    <3>4. Apart(p, g) /\ p.from \in Nat /\ p.to \in Nat
      BY <2>5, <2>6, <3>1, Zenon DEF Clean
    <3>5. g.from \in Nat /\ g.to \in Nat
      BY <2>1, GapsTyped, Zenon
    <3> QED
      BY <3>3, <3>4, <3>5, SMT DEF Apart, Inside
  <2>10. ASSUME NEW b \in blobs, NEW c \in blobs, b # c PROVE Apart(b, c)
    <3>1. PICK i \in Makers(job), m \in Makers(job) : b = Blob(job, i) /\ c = Blob(job, m)
      BY <2>2, Zenon DEF BlobsBy
    <3> QED
      BY <2>4, <2>10, <3>1, Zenon DEF Fit
  <2>11. ASSUME NEW p \in {Piece(b.from, b.to - b.from) : b \in blobs} \cup wrote,
                NEW q \in {Piece(b.from, b.to - b.from) : b \in blobs} \cup wrote, p # q
         PROVE  Apart(p, q)
    <3>1. CASE p \in wrote /\ q \in wrote
      BY <2>8, <2>11, <3>1
    <3>2. ASSUME p \in wrote, NEW b \in blobs, q = Piece(b.from, b.to - b.from)
          PROVE  Apart(p, q)
      BY <2>7, <2>9, <3>2, Zenon DEF Apart
    <3>3. ASSUME q \in wrote, NEW b \in blobs, p = Piece(b.from, b.to - b.from)
          PROVE  Apart(p, q)
      BY <2>7, <2>9, <3>3, Zenon DEF Apart
    <3>4. ASSUME NEW b \in blobs, p = Piece(b.from, b.to - b.from),
                 NEW c \in blobs, q = Piece(c.from, c.to - c.from)
          PROVE  Apart(p, q)
      <4>1. b # c
        BY <2>11, <3>4
      <4>2. Apart(b, c)
        BY <2>10, <4>1
      <4> QED
        BY <2>7, <3>4, <4>2, Zenon DEF Apart
    <3> QED
      BY <3>1, <3>2, <3>3, <3>4, Zenon
  <2>12. ASSUME job = "module", NEW b \in blobs
         PROVE  b.to <= mapped.end /\ b.to <= mapped.header
    <3> DEFINE at == ModuleSize
               len == asm["efi_nand"]
    <3>1. at \in Nat /\ len \in Nat
      BY SMT, <2>1, PatchAssumption DEF ModuleSize, Sources
    <3>2. b = Trampoline("efi_nand", at)
      <4>1. PICK i \in Makers(job) : b = Blob(job, i)
        BY <2>2, Zenon DEF BlobsBy
      <4>2. i = 2
        BY <2>12, <4>1 DEF Makers
      <4> QED
        BY <2>12, <4>1, <4>2, BlobTable, Zenon
    <3>3. mapped = [end |-> at + len, header |-> at + len]
      BY <2>2, <2>12 DEF Loaded, n, Items
    <3> HIDE DEF at, len
    <3>4. b.to = at + len
      BY <3>2 DEF Trampoline, len
    <3> QED
      BY <3>1, <3>3, <3>4
  <2>13. astray # {} => TableMoved
    BY <2>1, Zenon DEF FirstTime
  <2> QED
    BY <2>1, <2>11, <2>12, <2>13
<1> QED
  BY <1>1, PatchInduction, PTL

-----------------------------------------------------------------------------
(* defangEFI and patchN3GEFISlice: for any visitors and volumes, any drift   *)
(* of the vendor's packing and any way of packing, what is written back      *)
(* reads back, with the core in place, and every visitor has patched one     *)
(* module.  The invariant says what the patches leave of the volume, what    *)
(* the visitors know of the file they are in, and who has patched what.      *)

(* The image is in memory. *)
InHand == {"visiting", "patched", "fixed", "written"}

(* What the patches leave of the volume that was read. *)
SameShape ==
  /\ WellFormed(given) /\ HasSecore(given) /\ base \in Nat /\ origPos \in Int
  /\ WellFormed(vol) /\ Len(vol) = Len(given) /\ vol[1] = given[1]
  /\ \A i \in Nodes(given) :
       /\ vol[i].kind = given[i].kind /\ vol[i].up = given[i].up
       /\ given[i].kind # "pe32" /\ efiPc \in {"visiting", "patched"} => vol[i] = given[i]

(* The walk is at a node, or past the last; a visitor other than the first, *)
(* or a patch other than the first, has its turn on a module only.          *)
InTurn ==
  /\ here \in 2 .. Len(given) + 1 /\ turn \in DOMAIN Visitors
  /\ patch \in DOMAIN Visitors[turn].patches
  /\ turn > 1 => here <= Len(given) /\ given[here].kind = "pe32"
  /\ patch > 1 => here <= Len(given) /\ given[here].kind = "pe32" /\ inFile[turn] /\ ~applied[turn]

(* f is the last file that was come to before node i. *)
IsLastOpened(v, f, i) ==
  /\ f \in 1 .. i - 1 /\ v[f].kind = "file"
  /\ \A j \in f + 1 .. i - 1 : v[j].kind # "file"

(* What the visitors know. *)
VisitorsKnow ==
  /\ inFile \in [DOMAIN Visitors -> BOOLEAN]
  /\ here > 2 =>
       \E f \in Nodes(given) :
         IsLastOpened(given, f, here) /\ \A k \in DOMAIN Visitors : inFile[k] <=> given[f].guid = Visitors[k].guid

(* A visitor has had its turn on a node. *)
HasPassed(k, i) == i < here \/ (i = here /\ k < turn)

(* A module has been patched by those of its visitors that have passed it,  *)
(* in their order; nothing else has been patched.                           *)
PatchesTaken ==
  /\ patchedBy \in [Nodes(given) -> Seq(DOMAIN Visitors)]
  /\ \A i \in Nodes(given), f \in Nodes(given), k \in DOMAIN Visitors :
       IsLastOpened(given, f, i) =>
         (k \in Patchers(i) <=> given[i].kind = "pe32" /\ given[f].guid = Visitors[k].guid /\ HasPassed(k, i))
  /\ \A i \in Nodes(given) :
       Patchers(i) # {} => given[i].kind = "pe32" /\ i > 2 /\ \A k \in Patchers(i) : HasPassed(k, i)
  /\ \A i \in Nodes(given) : \A a, b \in DOMAIN patchedBy[i] : a < b => patchedBy[i][a] < patchedBy[i][b]

(* A visitor has patched one module or none, and knows which of the two. *)
AppliedOnce ==
  /\ applied \in [DOMAIN Visitors -> BOOLEAN]
  /\ \A k \in DOMAIN Visitors : applied[k] <=> \E i \in Nodes(given) : k \in Patchers(i)
  /\ \A k \in DOMAIN Visitors, i, j \in Nodes(given) : k \in Patchers(i) /\ k \in Patchers(j) => i = j

(* The invariant, by how far the image has come. *)
EfiInv ==
  /\ efiPc = "idle" => turn = 1 /\ patch = 1 /\ inFile = None /\ applied = None
  /\ efiPc \in InHand => SameShape /\ PatchesTaken /\ AppliedOnce
  /\ efiPc = "visiting" => InTurn /\ VisitorsKnow
  /\ efiPc \in InHand \ {"visiting"} => here \in Int /\ here > Len(given) /\ \A k \in DOMAIN Visitors : applied[k]
  /\ efiPc \in {"fixed", "written"} => ReadableVolume(vol) /\ SecoreOffset(vol) = origPos
  /\ efiPc = "written" => written = Window

-----------------------------------------------------------------------------
(* Where things lie is defined by recursion over the places of a volume;    *)
(* that it defines anything is shown here, by a measure that descends.      *)

(* A set of numbers has a least one.                                        *)
LEMMA LeastOf ==
  ASSUME NEW T \in SUBSET Nat, T # {}
  PROVE  \E m \in T : \A k \in T : m <= k
<1>1. IsWellFoundedOn(OpToRel(<, Nat), Nat)
  BY NatLessThanWellFounded
<1>2. \E x \in T : \A y \in T : ~ (<<y, x>> \in OpToRel(<, Nat))
  BY <1>1, WFMin
<1>3. \A x \in Nat, y \in Nat : y < x => <<y, x>> \in OpToRel(<, Nat)
  BY DEF OpToRel
<1>4. PICK x \in T : \A y \in T : ~ (<<y, x>> \in OpToRel(<, Nat))
  BY <1>2
<1>5. \A y \in T : ~ (y < x)
  BY <1>3, <1>4
<1>6. \A y \in T : x \in Nat /\ y \in Nat
  BY <1>4
<1>7. \A y \in T : x <= y
  BY <1>5, <1>6
<1> QED
  BY <1>4, <1>7

(* So what holds of zero and of the number after each holds of all.         *)
LEMMA NatInduct ==
  ASSUME NEW S, 0 \in S, \A n \in Nat : n \in S => n + 1 \in S
  PROVE  Nat \subseteq S
<1> DEFINE T == Nat \ S
<1> SUFFICES ASSUME T # {} PROVE FALSE
  OBVIOUS
<1>1. PICK m \in T : \A k \in T : m <= k
  BY LeastOf
<1>2. m # 0 /\ m - 1 \in Nat /\ m - 1 \notin T
  BY <1>1
<1> QED
  BY <1>2

(* A step says of each place what it says by places of a smaller measure.   *)
Descends(D, S, measure, bound, step) ==
  /\ step \in [[D -> S] -> [D -> S]] /\ measure \in [D -> Nat] /\ bound \in Nat
  /\ \A x \in D : measure[x] < bound
  /\ \A f \in [D -> S], g \in [D -> S], x \in D :
       (\A y \in D : measure[y] < measure[x] => f[y] = g[y]) => step[f][x] = step[g][x]

(* Then some function is what the step makes of it: a recursive definition  *)
(* whose step descends defines a function.                                  *)
LEMMA FixedPoint ==
  ASSUME NEW D, NEW S, NEW measure, NEW bound, NEW step, S # {},
         Descends(D, S, measure, bound, step)
  PROVE  \E f \in [D -> S] : step[f] = f
<1> USE DEF Descends
<1> DEFINE Good(f, n) == \A x \in D : measure[x] < n => step[f][x] = f[x]
           Reached == {n \in Nat : \E f \in [D -> S] : Good(f, n)}
<1>1. 0 \in Reached
  <2>1. PICK s \in S : TRUE
    OBVIOUS
  <2>2. [x \in D |-> s] \in [D -> S] /\ Good([x \in D |-> s], 0)
    OBVIOUS
  <2> QED
    BY <2>2
<1>2. ASSUME NEW n \in Nat, n \in Reached
      PROVE  n + 1 \in Reached
  <2>1. PICK f \in [D -> S] : Good(f, n)
    BY <1>2
  <2>2. step[f] \in [D -> S]
    OBVIOUS
  <2>3. ASSUME NEW x \in D, measure[x] < n + 1
        PROVE  step[step[f]][x] = step[f][x]
    <3>1. \A y \in D : measure[y] < measure[x] => step[f][y] = f[y]
      BY <2>1, <2>3
    <3> QED
      BY <2>2, <3>1
  <2>4. Good(step[f], n + 1)
    BY <2>3
  <2> HIDE DEF Good
  <2> QED
    BY <2>2, <2>4
<1> HIDE DEF Reached
<1>3. bound \in Reached
  BY <1>1, <1>2, NatInduct
<1>4. PICK f \in [D -> S] : Good(f, bound)
  BY <1>3 DEF Reached
<1>5. step[f] \in [D -> S] /\ \A x \in D : step[f][x] = f[x]
  BY <1>4
<1> QED
  BY <1>5

(* Filling up adds no less than nothing.                                    *)
LEMMA AlignNat ==
  ASSUME NEW n \in Nat, NEW a \in {4, 8, 16, 256}
  PROVE  AlignUp(n, a) \in Nat /\ AlignUp(n, a) >= n
BY DEF AlignUp

(* What a node takes is a number of bytes, if packed data is.               *)
LEMMA BytesNat ==
  ASSUME \A n \in Nat : Packed(n) \in Nat, NEW node \in Node, NEW n \in Nat
  PROVE  NodeBytes(node, n) \in Nat
<1>1. CASE node.kind \in {"pe32", "leaf"}
  BY <1>1 DEF NodeBytes, Node, SectionHeader
<1>2. CASE node.kind = "compressed"
  BY <1>2 DEF NodeBytes, Node, SectionHeader
<1>3. CASE node.kind = "guid"
  BY <1>3 DEF NodeBytes, Node, SectionHeader
<1>4. CASE node.kind = "volume"
  <2>1. node.custom \in Nat /\ node.minSize \in Nat
    BY <1>4 DEF Node
  <2>2. DataBytes(node, n) \in Nat
    BY <2>1, AlignNat, SMTT(30) DEF DataBytes, Larger, BlockSize
  <2> QED
    BY <1>4, <2>1, <2>2 DEF NodeBytes, SectionHeader
<1>5. CASE node.kind = "file"
  BY <1>5 DEF NodeBytes, Node, FileHeader
<1> QED
  BY <1>1, <1>2, <1>3, <1>4, <1>5 DEF Node

(* So is what a node holds with one thing more.                             *)
LEMMA JoinedNat ==
  ASSUME NEW node, NEW n \in Nat, NEW bytes \in Nat
  PROVE  Joined(node, n, bytes) \in Nat
BY AlignNat DEF Joined

(* Multiples of different numbers lie that far apart.                       *)
LEMMA TimesApart ==
  ASSUME NEW a \in Nat, NEW b \in Nat, NEW c \in Nat, a < b
  PROVE  a * c + c <= b * c
<1>1. (b - a - 1) * c >= 0 /\ (b - a - 1) * c = b * c - a * c - c
  OBVIOUS
<1> QED
  BY <1>1

(* What a node holds, as far as some node: the places Length speaks of.     *)
PlacesIn(v) == Nodes(v) \X (0 .. Len(v))

(* What Length(v) says of a place, given what it says of the others. *)
Said(v, length, i, j) ==
  IF j <= i THEN IF v[i].kind = "volume" THEN VolumeHeader ELSE 0
  ELSE IF v[j].up # i THEN length[<<i, j - 1>>]
  ELSE Joined(v[i], length[<<i, j - 1>>], NodeBytes(v[j], length[<<j, Len(v)>>]))

(* What is said of a place is a number of bytes if what it is said by is.   *)
LEMMA SaidNat ==
  ASSUME \A n \in Nat : Packed(n) \in Nat, NEW v \in Seq(Node), NEW f,
         NEW i \in Nodes(v), NEW j \in 0 .. Len(v),
         i < j => f[<<i, j - 1>>] \in Nat /\ f[<<j, Len(v)>>] \in Nat
  PROVE  Said(v, f, i, j) \in Nat
<1>0. Len(v) \in Nat /\ i \in 1 .. Len(v)
  BY DEF Nodes
<1>1. CASE j <= i
  BY <1>1 DEF Said, VolumeHeader
<1>2. CASE i < j
  <2>1. j \in 1 .. Len(v)
    BY <1>0, <1>2
  <2>2. v[j] \in Node
    BY <2>1, ElementOfSeq
  <2>3. NodeBytes(v[j], f[<<j, Len(v)>>]) \in Nat
    BY <1>2, <2>2, BytesNat
  <2>4. v[j].up = i => Joined(v[i], f[<<i, j - 1>>], NodeBytes(v[j], f[<<j, Len(v)>>])) \in Nat
    BY <1>2, <2>3, JoinedNat
  <2>5. ~(j <= i)
    BY <1>0, <1>2
  <2> QED
    BY <1>2, <2>4, <2>5 DEF Said
<1> QED
  BY <1>0, <1>1, <1>2

(* Every place is said by places of a smaller measure. *)
Measure(v, i, j) == (Len(v) - i) * (Len(v) + 1) + j

(* The places a place is said by have a smaller measure.                    *)
LEMMA MeasureDescends ==
  ASSUME NEW v \in Seq(Node)
  PROVE  /\ \A i \in Nodes(v), j \in 0 .. Len(v) :
              Measure(v, i, j) \in Nat /\ Measure(v, i, j) < (Len(v) + 1) * (Len(v) + 1)
         /\ \A i \in Nodes(v), j \in Nodes(v) :
              i < j => /\ Measure(v, i, j - 1) < Measure(v, i, j)
                       /\ Measure(v, j, Len(v)) < Measure(v, i, j)
<1>0. PICK N \in Nat : N = Len(v)
  OBVIOUS
<1>1. \A m \in Nat : m * (N + 1) \in Nat
  OBVIOUS
<1>2. \A m \in Nat, n \in Nat : m < n => m * (N + 1) + (N + 1) <= n * (N + 1)
  BY TimesApart
<1>3. ASSUME NEW i \in Nodes(v), NEW j \in 0 .. Len(v)
      PROVE  Measure(v, i, j) \in Nat /\ Measure(v, i, j) < (Len(v) + 1) * (Len(v) + 1)
  <2>1. i \in 1 .. N /\ j \in 0 .. N /\ N - i \in Nat /\ N - i < N + 1 /\ N + 1 \in Nat
    BY <1>0 DEF Nodes
  <2>2. (N - i) * (N + 1) \in Nat /\ (N + 1) * (N + 1) \in Nat
    BY <1>1, <2>1
  <2>3. (N - i) * (N + 1) + (N + 1) <= (N + 1) * (N + 1)
    BY <1>2, <2>1
  <2> DEFINE a == (N - i) * (N + 1)
             b == (N + 1) * (N + 1)
  <2>4. a \in Nat /\ b \in Nat /\ a + (N + 1) <= b
    BY <2>2, <2>3
  <2>5. Measure(v, i, j) = a + j
    BY <1>0 DEF Measure
  <2> HIDE DEF a, b
  <2>6. a + j \in Nat /\ a + j < b
    BY <2>1, <2>4
  <2> QED
    BY <1>0, <2>5, <2>6 DEF b
<1>4. ASSUME NEW i \in Nodes(v), NEW j \in Nodes(v), i < j
      PROVE  /\ Measure(v, i, j - 1) < Measure(v, i, j)
             /\ Measure(v, j, Len(v)) < Measure(v, i, j)
  <2>1. i \in 1 .. N /\ j \in 1 .. N /\ N - i \in Nat /\ N - j \in Nat /\ N - j < N - i
    BY <1>0, <1>4 DEF Nodes
  <2> DEFINE a == (N - i) * (N + 1)
             b == (N - j) * (N + 1)
  <2>2. a \in Nat /\ b \in Nat /\ b + (N + 1) <= a
    BY <1>1, <1>2, <2>1
  <2>3. Measure(v, i, j - 1) = a + (j - 1) /\ Measure(v, i, j) = a + j /\ Measure(v, j, Len(v)) = b + N
    BY <1>0 DEF Measure
  <2> HIDE DEF a, b
  <2> QED
    BY <2>1, <2>2, <2>3
<1> QED
  BY <1>3, <1>4

(* Induction along the places. *)
LEMMA PlaceInduct ==
  ASSUME NEW v \in Seq(Node), NEW P,
         \A i \in Nodes(v), j \in 0 .. Len(v) :
           (i < j => <<i, j - 1>> \in P /\ <<j, Len(v)>> \in P) => <<i, j>> \in P
  PROVE  \A i \in Nodes(v), j \in 0 .. Len(v) : <<i, j>> \in P
<1>0. Len(v) \in Nat
  OBVIOUS
<1> DEFINE S == {n \in Nat : \A i \in Nodes(v), j \in 0 .. Len(v) : Measure(v, i, j) < n => <<i, j>> \in P}
<1>1. 0 \in S
  BY MeasureDescends
<1>2. ASSUME NEW n \in Nat, n \in S
      PROVE  n + 1 \in S
  <2>1. ASSUME NEW i \in Nodes(v), NEW j \in 0 .. Len(v), Measure(v, i, j) < n + 1
        PROVE  <<i, j>> \in P
    <3>1. ASSUME i < j
          PROVE  <<i, j - 1>> \in P /\ <<j, Len(v)>> \in P
      <4>1. i \in 1 .. Len(v) /\ j \in 1 .. Len(v) /\ j - 1 \in 0 .. Len(v) /\ Len(v) \in 0 .. Len(v)
        BY <1>0, <3>1 DEF Nodes
      <4>2. /\ Measure(v, i, j) \in Nat /\ Measure(v, i, j - 1) \in Nat /\ Measure(v, j, Len(v)) \in Nat
            /\ Measure(v, i, j - 1) < Measure(v, i, j) /\ Measure(v, j, Len(v)) < Measure(v, i, j)
        BY <3>1, <4>1, MeasureDescends DEF Nodes
      <4>3. Measure(v, i, j - 1) < n /\ Measure(v, j, Len(v)) < n
        BY <2>1, <4>2
      <4> QED
        BY <1>2, <4>1, <4>3 DEF Nodes
    <3> QED
      BY <3>1
  <2> QED
    BY <2>1
<1> HIDE DEF S
<1>3. Nat \subseteq S
  BY <1>1, <1>2, NatInduct
<1>4. (Len(v) + 1) * (Len(v) + 1) \in Nat
  BY <1>0
<1> QED
  BY <1>3, <1>4, MeasureDescends DEF S

(* Length is what its definition says: the recursion descends, so there is  *)
(* such a function, and its values are numbers of bytes.                    *)
LEMMA LengthAt ==
  ASSUME \A n \in Nat : Packed(n) \in Nat, NEW v \in Seq(Node)
  PROVE  /\ Length(v) \in [PlacesIn(v) -> Nat]
         /\ \A i \in Nodes(v), j \in 0 .. Len(v) : Length(v)[<<i, j>>] = Said(v, Length(v), i, j)
<1> DEFINE D == PlacesIn(v)
           N == Len(v)
           said(f, p) == LET i == p[1]
                             j == p[2]
                         IN  IF j <= i THEN IF v[i].kind = "volume" THEN VolumeHeader ELSE 0
                             ELSE IF v[j].up # i THEN f[<<i, j - 1>>]
                             ELSE Joined(v[i], f[<<i, j - 1>>], NodeBytes(v[j], f[<<j, Len(v)>>]))
           step == [f \in [D -> Nat] |-> [p \in D |-> said(f, p)]]
           measure == [p \in D |-> Measure(v, p[1], p[2])]
           bound == (N + 1) * (N + 1)
<1>0. N \in Nat
  OBVIOUS
<1>1. \A f, p : p \in D => said(f, p) = Said(v, f, p[1], p[2])
  BY DEF Said
<1>2. \A p \in D : p[1] \in 1 .. N /\ p[2] \in 0 .. N /\ p = <<p[1], p[2]>>
  BY DEF PlacesIn, Nodes
<1>3. \A i \in Nodes(v), j \in 0 .. N : <<i, j>> \in D /\ <<i, j>>[1] = i /\ <<i, j>>[2] = j
  BY DEF PlacesIn
<1> HIDE DEF said, D
<1>4. step \in [[D -> Nat] -> [D -> Nat]]
  <2>1. ASSUME NEW f \in [D -> Nat], NEW p \in D
        PROVE  said(f, p) \in Nat
    <3>0. PICK i \in 1 .. N, j \in 0 .. N : p = <<i, j>>
      BY <1>2
    <3>1. p[1] = i /\ p[2] = j /\ i \in Nodes(v)
      BY <3>0 DEF Nodes
    <3>2. ASSUME i < j
          PROVE  f[<<i, j - 1>>] \in Nat /\ f[<<j, N>>] \in Nat
      <4>1. j \in Nodes(v) /\ j - 1 \in 0 .. N /\ N \in 0 .. N
        BY <1>0, <3>2 DEF Nodes
      <4> QED
        BY <1>3, <3>1, <4>1
    <3>3. Said(v, f, i, j) \in Nat
      BY <3>1, <3>2, SaidNat
    <3> QED
      BY <1>1, <3>1, <3>3
  <2> QED
    BY <2>1
<1>5. measure \in [D -> Nat] /\ bound \in Nat /\ \A p \in D : measure[p] < bound
  <2>1. bound \in Nat
    BY <1>0
  <2>2. \A p \in D : Measure(v, p[1], p[2]) \in Nat /\ Measure(v, p[1], p[2]) < bound
    BY <1>2, MeasureDescends DEF Nodes
  <2> QED
    BY <2>1, <2>2
<1>6. ASSUME NEW f \in [D -> Nat], NEW g \in [D -> Nat], NEW p \in D,
             \A q \in D : measure[q] < measure[p] => f[q] = g[q]
      PROVE  step[f][p] = step[g][p]
  <2>0. PICK i \in 1 .. N, j \in 0 .. N : p = <<i, j>>
    BY <1>2
  <2>1. p[1] = i /\ p[2] = j
    BY <2>0
  <2>2. step[f][p] = Said(v, f, i, j) /\ step[g][p] = Said(v, g, i, j)
    BY <1>1, <2>1
  <2>3. CASE j <= i
    BY <2>2, <2>3 DEF Said
  <2>4. CASE i < j
    <3>0. i \in Nodes(v) /\ j \in Nodes(v) /\ j - 1 \in 0 .. N /\ N \in 0 .. N
      BY <1>0, <2>4 DEF Nodes
    <3>1. <<i, j - 1>> \in D /\ <<j, N>> \in D
      BY <1>3, <3>0
    <3>2. /\ measure[p] = Measure(v, i, j) /\ measure[<<i, j - 1>>] = Measure(v, i, j - 1)
          /\ measure[<<j, N>>] = Measure(v, j, N)
      BY <2>1, <3>1
    <3>3. measure[<<i, j - 1>>] < measure[p] /\ measure[<<j, N>>] < measure[p]
      BY <2>4, <3>0, <3>2, MeasureDescends
    <3>4. f[<<i, j - 1>>] = g[<<i, j - 1>>] /\ f[<<j, N>>] = g[<<j, N>>]
      BY <1>6, <3>1, <3>3
    <3>5. Said(v, f, i, j) = Said(v, g, i, j)
      BY <2>4, <3>4 DEF Said
    <3> QED
      BY <2>2, <3>5
  <2> QED
    BY <1>0, <2>3, <2>4
<1>7. \E f \in [D -> Nat] : step[f] = f
  <2>1. \A f \in [D -> Nat], g \in [D -> Nat], p \in D :
          (\A q \in D : measure[q] < measure[p] => f[q] = g[q]) => step[f][p] = step[g][p]
    BY <1>6
  <2>2. PICK T : T = Nat
    OBVIOUS
  <2>3. T # {}
    BY <2>2
  <2> HIDE DEF step, measure, bound
  <2>4. Descends(D, T, measure, bound, step)
    BY <1>4, <1>5, <2>1, <2>2 DEF Descends
  <2>5. \E f \in [D -> T] : step[f] = f
    BY <2>3, <2>4, FixedPoint
  <2> QED
    BY <2>2, <2>5
<1>8. PICK h \in [D -> Nat] : h = [p \in D |-> said(h, p)]
  BY <1>7
<1>9. Length(v) = [p \in D |-> said(Length(v), p)]
  BY <1>8 DEF Length, said, D, PlacesIn
<1>10. \A i \in Nodes(v), j \in 0 .. N : Length(v)[<<i, j>>] = Said(v, Length(v), i, j)
  <2>1. \A p \in D : Length(v)[p] = Said(v, Length(v), p[1], p[2])
    BY <1>1, <1>9
  <2> QED
    BY <1>3, <2>1, ZenonT(60)
<1>11. \A i \in Nodes(v), j \in 0 .. N : Length(v)[<<i, j>>] \in Nat
  <2> DEFINE P == {p \in D : Length(v)[p] \in Nat}
  <2>1. ASSUME NEW i \in Nodes(v), NEW j \in 0 .. N,
               i < j => <<i, j - 1>> \in P /\ <<j, N>> \in P
        PROVE  Said(v, Length(v), i, j) \in Nat
    BY <2>1, SaidNat
  <2>2. \A i \in Nodes(v), j \in 0 .. N :
          (i < j => <<i, j - 1>> \in P /\ <<j, N>> \in P) => <<i, j>> \in P
    BY <1>3, <1>10, <2>1, ZenonT(60)
  <2> HIDE DEF P
  <2>3. \A i \in Nodes(v), j \in 0 .. N : <<i, j>> \in P
    BY <2>2, PlaceInduct
  <2> QED
    BY <2>3 DEF P
<1>12. Length(v) \in [D -> Nat]
  <2>1. \A p \in D : Length(v)[p] \in Nat
    BY <1>2, <1>11 DEF Nodes
  <2> QED
    BY <1>9, <2>1
<1> QED
  BY <1>10, <1>12 DEF D

-----------------------------------------------------------------------------
(* The list of the nodes, under patches and padding.                        *)

(* A set of numbers up to some bound has a greatest one.                    *)
LEMMA GreatestOf ==
  ASSUME NEW n \in Nat, NEW T \in SUBSET (1 .. n), T # {}
  PROVE  \E m \in T : \A k \in T : k <= m
<1> DEFINE below == {n - k : k \in T}
<1>0. \A k \in T : k \in 1 .. n
  OBVIOUS
<1>1. below \in SUBSET Nat /\ below # {}
  <2>1. \A k \in 1 .. n : n - k \in Nat
    OBVIOUS
  <2>2. \A b \in below : b \in Nat
    BY <1>0, <2>1
  <2> QED
    BY <2>2
<1>2. PICK b \in below : \A c \in below : b <= c
  <2> HIDE DEF below
  <2> QED
    BY <1>1, LeastOf
<1>3. PICK m \in T : b = n - m
  BY <1>2
<1>4. \A k \in T : n - m <= n - k /\ m \in Int /\ k \in Int
  <2>1. \A k \in T : n - k \in below
    OBVIOUS
  <2>2. \A k \in T : n - m <= n - k
    <3> HIDE DEF below
    <3> QED
      BY <1>2, <1>3, <2>1
  <2> QED
    BY <1>0, <2>2
<1>5. \A k \in T : k <= m
  BY <1>4
<1> QED
  BY <1>5

(* The nodes of a volume: the volume itself comes first, and every other is *)
(* held by one before it.                                                   *)
LEMMA NodesOf ==
  ASSUME NEW v, WellFormed(v)
  PROVE  /\ Len(v) \in Nat /\ DOMAIN v = Nodes(v) /\ v \in Seq(Node)
         /\ \A i \in Nodes(v) : v[i] \in Node
         /\ 1 \in Nodes(v) /\ v[1].kind = "volume" /\ v[1].up = 0
         /\ \A i \in Nodes(v) : i # 1 => i \in 2 .. Len(v) /\ v[i].up \in 1 .. i - 1
<1>1. v \in Seq(Node) /\ InWalkOrder(v)
  BY DEF WellFormed
<1>2. Len(v) \in Nat /\ DOMAIN v = Nodes(v) /\ \A i \in Nodes(v) : v[i] \in Node
  BY <1>1 DEF Nodes
<1>3. 1 \in Nodes(v)
  BY <1>1, <1>2 DEF InWalkOrder, Nodes
<1>4. \A i \in Nodes(v) : i # 1 => i \in 2 .. Len(v)
  BY <1>2 DEF Nodes
<1>5. v[1].kind = "volume" /\ v[1].up = 0 /\ \A i \in 2 .. Len(v) : v[i].up \in 1 .. i - 1
  BY <1>1 DEF InWalkOrder
<1> QED
  BY <1>1, <1>2, <1>3, <1>4, <1>5

(* The files of the volume itself: the first, and, with a security core     *)
(* behind the padding, two more of which no other comes behind.             *)
LEMMA OutermostFiles ==
  ASSUME NEW v, WellFormed(v), HasSecore(v)
  PROVE  /\ LastFile(v) \in Nodes(v) /\ PaddingFile(v) \in Nodes(v)
         /\ 2 < PaddingFile(v) /\ PaddingFile(v) < LastFile(v)
         /\ v[PaddingFile(v)].kind = "file" /\ v[PaddingFile(v)].up = 1
         /\ v[LastFile(v)].kind = "file" /\ v[LastFile(v)].up = 1
         /\ \A k \in Nodes(v) : v[k].up = 1 => k <= PaddingFile(v) \/ k = LastFile(v)
         /\ v[2].kind = "file" /\ v[2].up = 1 /\ 2 \in Nodes(v)
<1>0. PICK N \in Nat : N = Len(v)
  BY NodesOf
<1>1. Nodes(v) = 1 .. N
  BY <1>0 DEF Nodes
<1>2. PICK i, j \in Files(v) : 2 < i /\ i < j
  BY DEF HasSecore
<1>3. Files(v) \in SUBSET (1 .. N) /\ Files(v) # {}
  BY <1>1, <1>2 DEF Files, Held
<1>4. \E m \in Files(v) : \A k \in Files(v) : k <= m
  BY <1>3, GreatestOf
<1>5. LastFile(v) \in Files(v) /\ \A k \in Files(v) : k <= LastFile(v)
  BY <1>4 DEF LastFile
<1>6. i \in Files(v) \ {LastFile(v)}
  BY <1>2, <1>3, <1>5
<1>7. \E m \in Files(v) \ {LastFile(v)} : \A k \in Files(v) \ {LastFile(v)} : k <= m
  <2>1. Files(v) \ {LastFile(v)} \in SUBSET (1 .. N) /\ Files(v) \ {LastFile(v)} # {}
    BY <1>3, <1>6
  <2> QED
    BY <2>1, GreatestOf
<1>8. /\ PaddingFile(v) \in Files(v) \ {LastFile(v)}
      /\ \A k \in Files(v) \ {LastFile(v)} : k <= PaddingFile(v)
  BY <1>7 DEF PaddingFile
<1>9. 2 < PaddingFile(v) /\ PaddingFile(v) < LastFile(v)
  BY <1>2, <1>3, <1>5, <1>6, <1>8
<1>10. 2 \in 2 .. N
  BY <1>1, <1>2, <1>3
<1>11. \A k \in Files(v) : k \in Nodes(v) /\ v[k].up = 1
  BY DEF Files, Held
<1>12. \A k \in 2 .. N : v[k].up = 1 => v[k].kind = "file"
  BY <1>0 DEF WellFormed, InWalkOrder
<1>13. v[2].up = 1
  BY <1>0, <1>10 DEF WellFormed, InWalkOrder
<1>14. \A k \in Nodes(v) : v[k].up = 1 => k \in Files(v)
  BY DEF Files, Held
<1>15. PaddingFile(v) \in 2 .. N /\ LastFile(v) \in 2 .. N
  BY <1>3, <1>5, <1>8, <1>9
<1>16. \A k \in Files(v) : k <= PaddingFile(v) \/ k = LastFile(v)
  BY <1>8
<1> QED
  BY <1>1, <1>5, <1>8, <1>9, <1>10, <1>11, <1>12, <1>13, <1>14, <1>15, <1>16

(* The order of the walk hangs on kinds and holders only, the security core *)
(* on holders and files.                                                    *)
LEMMA OrderKept ==
  ASSUME NEW v, WellFormed(v), NEW z \in Seq(Node), Len(z) = Len(v),
         \A i \in Nodes(v) : z[i].kind = v[i].kind /\ z[i].up = v[i].up
  PROVE  WellFormed(z)
<1>0. PICK N \in Nat : N = Len(v) /\ N = Len(z)
  BY NodesOf
<1>1. \A i \in 1 .. N : z[i].kind = v[i].kind /\ z[i].up = v[i].up
  BY <1>0 DEF Nodes
<1>2. N > 0 /\ v[1].kind = "volume" /\ v[1].up = 0
  BY <1>0 DEF WellFormed, InWalkOrder
<1>3. ASSUME NEW j \in 2 .. N
      PROVE  /\ z[j].kind \in SectionKinds \cup {"file"} /\ z[j].up \in 1 .. j - 1
             /\ z[z[j].up].kind \notin {"pe32", "leaf"}
             /\ z[j].kind = "file" <=> z[z[j].up].kind = "volume"
             /\ \A i \in z[j].up + 1 .. j - 1 : z[i].up >= z[j].up
  <2>1. /\ v[j].kind \in SectionKinds \cup {"file"} /\ v[j].up \in 1 .. j - 1
        /\ v[v[j].up].kind \notin {"pe32", "leaf"}
        /\ v[j].kind = "file" <=> v[v[j].up].kind = "volume"
        /\ \A i \in v[j].up + 1 .. j - 1 : v[i].up >= v[j].up
    BY <1>0 DEF WellFormed, InWalkOrder
  <2>2. j \in 1 .. N /\ v[j].up \in 1 .. N
    BY <2>1
  <2>3. z[j].kind = v[j].kind /\ z[j].up = v[j].up /\ z[v[j].up].kind = v[v[j].up].kind
    BY <1>1, <2>2
  <2>4. \A i \in v[j].up + 1 .. j - 1 : i \in 1 .. N /\ z[i].up = v[i].up
    BY <1>1, <2>1
  <2> QED
    BY <2>1, <2>3, <2>4
<1>4. InWalkOrder(z)
  BY <1>0, <1>1, <1>2, <1>3 DEF InWalkOrder
<1> QED
  BY <1>4 DEF WellFormed

(* Where the core lies in the list hangs on the holders and the types of    *)
(* the files.                                                               *)
LEMMA SecoreKept ==
  ASSUME NEW v, WellFormed(v), HasSecore(v), NEW z, Len(z) = Len(v),
         \A i \in Nodes(v) : z[i].up = v[i].up /\ (v[i].kind = "file" => z[i].type = v[i].type)
  PROVE  HasSecore(z) /\ PaddingFile(z) = PaddingFile(v) /\ LastFile(z) = LastFile(v)
<1>1. Files(z) = Files(v)
  BY DEF Files, Held, Nodes
<1>2. LastFile(z) = LastFile(v) /\ PaddingFile(z) = PaddingFile(v)
  BY <1>1 DEF LastFile, PaddingFile
<1>3. /\ z[2].type = v[2].type /\ z[LastFile(v)].type = v[LastFile(v)].type
      /\ z[PaddingFile(v)].type = v[PaddingFile(v)].type
  BY OutermostFiles
<1> QED
  BY <1>1, <1>2, <1>3 DEF HasSecore, SecoreFirst

(* What a module, and what a file, is made of.                              *)
LEMMA ModuleNode ==
  ASSUME NEW s \in Node, s.kind = "pe32"
  PROVE  /\ s = [kind |-> "pe32", up |-> s.up, len |-> s.len, stock |-> s.stock]
         /\ s.up \in Nat /\ s.len \in Nat /\ s.stock \in SUBSET STRING
<1>1. s \in [kind : {"pe32"}, up : Nat, len : Nat, stock : SUBSET STRING]
  BY DEF Node
<1> QED
  BY <1>1

(* What a file is made of.                                                  *)
LEMMA FileNode ==
  ASSUME NEW s \in Node, s.kind = "file"
  PROVE  /\ s = [kind |-> "file", up |-> s.up, guid |-> s.guid, type |-> s.type, pad |-> s.pad]
         /\ s.up \in Nat /\ s.guid \in STRING /\ s.type \in STRING /\ s.pad \in Nat
<1>1. s \in [kind : {"file"}, up : Nat, guid : STRING, type : STRING, pad : Nat]
  BY DEF Node
<1> QED
  BY <1>1

(* A patch leaves a module where it is. *)
PatchedAt(v, i, p) == [v EXCEPT ![i] = Patched(p, v[i])]

(* The volume stays in order, and only that module is another.              *)
LEMMA PatchedNode ==
  ASSUME NEW v, WellFormed(v), NEW i \in Nodes(v), v[i].kind = "pe32", NEW p, p.by \in Nat,
         NEW z, z = PatchedAt(v, i, p)
  PROVE  /\ WellFormed(z) /\ Len(z) = Len(v)
         /\ \A j \in Nodes(v) : /\ z[j].kind = v[j].kind /\ z[j].up = v[j].up
                                /\ v[j].kind # "pe32" => z[j] = v[j]
<1> DEFINE s == v[i]
           t == Patched(p, s)
<1>1. s \in Node /\ s.kind = "pe32" /\ v \in Seq(Node) /\ i \in 1 .. Len(v)
  BY NodesOf DEF Nodes
<1>2. /\ s = [kind |-> "pe32", up |-> s.up, len |-> s.len, stock |-> s.stock]
      /\ s.up \in Nat /\ s.len \in Nat /\ s.stock \in SUBSET STRING
  <2> HIDE DEF s
  <2> QED
    BY <1>1, ModuleNode
<1>3. t = [kind |-> "pe32", up |-> s.up, len |-> IF p.op = "grow" THEN s.len + p.by ELSE s.len,
           stock |-> s.stock \ {p.site}]
  <2> HIDE DEF s
  <2>1. PICK up, len, stock : s = [kind |-> "pe32", up |-> up, len |-> len, stock |-> stock]
    BY <1>2
  <2> DEFINE n == IF p.op = "grow" THEN len + p.by ELSE len
             r == [s EXCEPT !.stock = @ \ {p.site}]
  <2>2. r = [kind |-> "pe32", up |-> up, len |-> len, stock |-> stock \ {p.site}]
    BY <2>1
  <2>3. t = [s EXCEPT !.stock = s.stock \ {p.site}, !.len = IF p.op = "grow" THEN s.len + p.by ELSE s.len]
    BY DEF Patched
  <2>4. t = [kind |-> "pe32", up |-> up, len |-> n, stock |-> stock \ {p.site}]
    BY <2>1, <2>3
  <2> QED
    BY <2>1, <2>4
<1>4. t \in Node /\ t.kind = "pe32" /\ t.up = s.up
  <2>1. s.stock \ {p.site} \in SUBSET STRING /\ (IF p.op = "grow" THEN s.len + p.by ELSE s.len) \in Nat
    BY <1>2
  <2> HIDE DEF s, t
  <2> QED
    BY <1>2, <1>3, <2>1 DEF Node
<1>5. z = [v EXCEPT ![i] = t]
  BY DEF PatchedAt
<1> HIDE DEF s, t
<1>6. z \in Seq(Node) /\ Len(z) = Len(v) /\ \A j \in 1 .. Len(v) : z[j] = IF j = i THEN t ELSE v[j]
  BY <1>1, <1>4, <1>5, ExceptSeq
<1>7. \A j \in Nodes(v) : /\ z[j].kind = v[j].kind /\ z[j].up = v[j].up
                          /\ v[j].kind # "pe32" => z[j] = v[j]
  BY <1>1, <1>4, <1>6 DEF Nodes, s
<1> QED
  BY <1>6, <1>7, OrderKept

(* So does more or less padding. *)
LEMMA RepaddedNode ==
  ASSUME NEW v, WellFormed(v), HasSecore(v), NEW needed \in Int,
         needed = 0 \/ PaddingSuffices(v, needed), NEW z, z = Repadded(v, needed)
  PROVE  /\ WellFormed(z) /\ Len(z) = Len(v)
         /\ \A j \in Nodes(v) : z[j].kind = v[j].kind /\ z[j].up = v[j].up
         /\ \A j \in Nodes(v) : v[j].kind = "file" => z[j].type = v[j].type
         /\ \A j \in Nodes(v) : j # PaddingFile(v) => z[j] = v[j]
         /\ z[PaddingFile(v)].pad = v[PaddingFile(v)].pad + needed
<1> DEFINE i == PaddingFile(v)
           s == v[i]
           t == [s EXCEPT !.pad = @ + needed]
<1>1. s \in Node /\ s.kind = "file" /\ v \in Seq(Node) /\ i \in 1 .. Len(v)
  BY OutermostFiles, NodesOf DEF Nodes
<1>2. /\ s = [kind |-> "file", up |-> s.up, guid |-> s.guid, type |-> s.type, pad |-> s.pad]
      /\ s.up \in Nat /\ s.guid \in STRING /\ s.type \in STRING /\ s.pad \in Nat
  <2> HIDE DEF s
  <2> QED
    BY <1>1, FileNode
<1>3. CASE needed = 0
  <2>1. z = v
    BY <1>3 DEF Repadded
  <2> QED
    BY <1>2, <1>3, <2>1
<1>4. CASE needed # 0
  <2>1. t = [kind |-> "file", up |-> s.up, guid |-> s.guid, type |-> s.type, pad |-> s.pad + needed]
    <3> HIDE DEF s
    <3> QED
      BY <1>2
  <2>2. s.pad + needed \in Nat
    BY <1>2, <1>4 DEF PaddingSuffices
  <2>3. t \in Node /\ t.kind = "file" /\ t.up = s.up /\ t.type = s.type /\ t.pad = s.pad + needed
    <3> HIDE DEF s, t
    <3> QED
      BY <1>2, <2>1, <2>2 DEF Node
  <2>4. z = [v EXCEPT ![i] = t]
    BY <1>4 DEF Repadded
  <2> HIDE DEF s, t
  <2>5. z \in Seq(Node) /\ Len(z) = Len(v) /\ \A j \in 1 .. Len(v) : z[j] = IF j = i THEN t ELSE v[j]
    <3> HIDE DEF i
    <3> QED
      BY <1>1, <2>3, <2>4, ExceptSeq
  <2>6. \A j \in Nodes(v) : /\ z[j].kind = v[j].kind /\ z[j].up = v[j].up
                            /\ v[j].kind = "file" => z[j].type = v[j].type
                            /\ j # i => z[j] = v[j]
    <3> HIDE DEF i
    <3> QED
      BY <1>1, <2>3, <2>5 DEF Nodes, s
  <2>7. z[i].pad = v[i].pad + needed
    <3> HIDE DEF i
    <3> QED
      BY <1>1, <2>3, <2>5 DEF s
  <2> QED
    BY <2>5, <2>6, <2>7, OrderKept
<1> QED
  BY <1>3, <1>4

(* Where things come to lie is a number of bytes, and a volume takes no     *)
(* fewer than its block map promised.                                       *)
LEMMA OffsetsNat ==
  ASSUME \A n \in Nat : Packed(n) \in Nat, NEW v, WellFormed(v)
  PROVE  /\ \A i \in Nodes(v), j \in 0 .. Len(v) : Length(v)[<<i, j>>] \in Nat
         /\ \A j \in Nodes(v) : FileOffset(v, j) \in Nat
         /\ VolumeBytes(v) \in Nat /\ VolumeBytes(v) >= v[1].minSize + v[1].custom
         /\ v[1].minSize \in Nat /\ v[1].custom \in Nat
         /\ HasSecore(v) => SecoreOffset(v) \in Nat
<1>1. \A i \in Nodes(v), j \in 0 .. Len(v) : Length(v)[<<i, j>>] \in Nat
  BY NodesOf, LengthAt DEF PlacesIn
<1>2. Len(v) \in Nat /\ 1 \in Nodes(v) /\ v[1] \in Node /\ v[1].kind = "volume"
  BY NodesOf
<1>3. \A j \in Nodes(v) : FileOffset(v, j) \in Nat
  <2>0. PICK n \in Nat : n = Len(v)
    BY <1>2
  <2>1. \A j \in Nodes(v) : j - 1 \in 0 .. Len(v)
    BY <2>0 DEF Nodes
  <2> QED
    BY <1>1, <1>2, <2>1 DEF FileOffset
<1>4. v[1].minSize \in Nat /\ v[1].custom \in Nat
  <2> DEFINE s == v[1]
  <2> HIDE DEF s
  <2>1. s \in Node /\ s.kind = "volume"
    BY <1>2 DEF s
  <2>2. s.minSize \in Nat /\ s.custom \in Nat
    BY <2>1 DEF Node
  <2> QED
    BY <2>2 DEF s
<1>5. FilesEnd(v, 1) \in Nat
  BY <1>1, <1>2 DEF FilesEnd
<1>6. Larger(FilesEnd(v, 1), v[1].minSize) \in Nat /\ Larger(FilesEnd(v, 1), v[1].minSize) >= v[1].minSize
  BY <1>4, <1>5 DEF Larger
<1>7. DataBytes(v[1], FilesEnd(v, 1)) \in Nat /\ DataBytes(v[1], FilesEnd(v, 1)) >= v[1].minSize
  BY <1>4, <1>6, AlignNat, SMTT(30) DEF DataBytes, BlockSize
<1>8. HasSecore(v) => SecoreOffset(v) \in Nat
  BY <1>3, OutermostFiles DEF SecoreOffset
<1>9. VolumeBytes(v) \in Nat /\ VolumeBytes(v) >= v[1].minSize + v[1].custom
  <2>1. PICK d \in Nat, m \in Nat, c \in Nat :
          d = DataBytes(v[1], FilesEnd(v, 1)) /\ m = v[1].minSize /\ c = v[1].custom /\ d >= m
    BY <1>4, <1>7
  <2> QED
    BY <2>1 DEF VolumeBytes
<1> QED
  BY <1>1, <1>3, <1>4, <1>8, <1>9

-----------------------------------------------------------------------------
(* The steps.                                                               *)

(* There are visitors, and each has patches.                                *)
LEMMA VisitorsKnown ==
  /\ Len(Visitors) \in Nat /\ Len(Visitors) > 0 /\ DOMAIN Visitors = 1 .. Len(Visitors)
  /\ \A k \in DOMAIN Visitors :
       /\ Len(Visitors[k].patches) \in Nat /\ Len(Visitors[k].patches) > 0
       /\ DOMAIN Visitors[k].patches = 1 .. Len(Visitors[k].patches)
       /\ \A q \in DOMAIN Visitors[k].patches : Visitors[k].patches[q].by \in Nat
<1>1. \A S : \A s \in Seq(S) \ {<<>>} : Len(s) \in Nat /\ Len(s) > 0 /\ DOMAIN s = 1 .. Len(s)
  BY EmptySeq, LenProperties
<1>2. Visitors \in Seq({Visitors[k] : k \in DOMAIN Visitors}) \ {<<>>}
  BY VisitorsAssumption
<1>3. Len(Visitors) \in Nat /\ Len(Visitors) > 0 /\ DOMAIN Visitors = 1 .. Len(Visitors)
  BY <1>1, <1>2
<1>4. ASSUME NEW k \in DOMAIN Visitors
      PROVE  /\ Len(Visitors[k].patches) \in Nat /\ Len(Visitors[k].patches) > 0
             /\ DOMAIN Visitors[k].patches = 1 .. Len(Visitors[k].patches)
             /\ \A q \in DOMAIN Visitors[k].patches : Visitors[k].patches[q].by \in Nat
  <2> DEFINE patches == Visitors[k].patches
  <2>1. /\ patches \in Seq({patches[q] : q \in DOMAIN patches}) \ {<<>>}
        /\ \A q \in DOMAIN patches : patches[q].by \in Nat
    BY VisitorsAssumption
  <2> HIDE DEF patches
  <2>2. Len(patches) \in Nat /\ Len(patches) > 0 /\ DOMAIN patches = 1 .. Len(patches)
    BY <1>1, <2>1
  <2> QED
    BY <2>1, <2>2 DEF patches
<1> QED
  BY <1>3, <1>4

(* The file that was come to last is one.                                   *)
LEMMA LastOpenedUnique ==
  ASSUME NEW i \in Int, NEW f, NEW g, IsLastOpened(given, f, i), IsLastOpened(given, g, i)
  PROVE  f = g
<1>1. f \in Int /\ g \in Int /\ f <= i - 1 /\ g <= i - 1
  BY DEF IsLastOpened
<1>2. ~(f < g)
  BY <1>1 DEF IsLastOpened
<1>3. ~(g < f)
  BY <1>1 DEF IsLastOpened
<1> QED
  BY <1>1, <1>2, <1>3

(* There is one before every node but the first two.                        *)
LEMMA LastOpenedExists ==
  ASSUME WellFormed(given), HasSecore(given), NEW i \in Nodes(given), i > 2
  PROVE  \E f \in Nodes(given) : IsLastOpened(given, f, i)
<1>0. PICK N \in Nat : N = Len(given) /\ i \in 1 .. N /\ Nodes(given) = 1 .. N
  BY NodesOf DEF Nodes
<1> DEFINE opened == {j \in 1 .. i - 1 : given[j].kind = "file"}
<1>1. 2 \in opened /\ i - 1 \in Nat
  BY <1>0, OutermostFiles
<1>2. opened \in SUBSET (1 .. i - 1) /\ opened # {}
  BY <1>1
<1>3. \E f \in opened : \A j \in opened : j <= f
  <2> HIDE DEF opened
  <2> QED
    BY <1>1, <1>2, GreatestOf
<1>4. PICK f \in opened : \A j \in opened : j <= f
  BY <1>3
<1>5. f \in 1 .. i - 1 /\ f \in Nodes(given) /\ given[f].kind = "file"
  BY <1>0
<1>6. \A j \in f + 1 .. i - 1 : j \in 1 .. i - 1 /\ j > f
  BY <1>0, <1>5
<1>7. \A j \in f + 1 .. i - 1 : given[j].kind # "file"
  <2>1. \A j \in 1 .. i - 1 : given[j].kind = "file" => j <= f
    BY <1>4
  <2>2. \A j \in f + 1 .. i - 1 : ~(j <= f)
    BY <1>5, <1>6
  <2> QED
    BY <1>6, <2>1, <2>2
<1> QED
  BY <1>5, <1>7 DEF IsLastOpened

(* It is the one that LastOpened names.                                     *)
LEMMA LastOpenedIs ==
  ASSUME NEW i \in Int, NEW f, IsLastOpened(given, f, i)
  PROVE  LastOpened(given, i) = f
<1>1. /\ f \in 1 .. i - 1
      /\ given[f].kind = "file" /\ \A j \in f + 1 .. i - 1 : given[j].kind # "file"
  BY DEF IsLastOpened
<1>2. \A g \in 1 .. i - 1 :
        given[g].kind = "file" /\ (\A j \in g + 1 .. i - 1 : given[j].kind # "file") => g = f
  BY LastOpenedUnique DEF IsLastOpened
<1> QED
  BY <1>1, <1>2 DEF LastOpened

(* The invariant holds at the start, and what is read has the shape it      *)
(* says.                                                                    *)
LEMMA VisitStarts == EfiInit => EfiInv
BY DEF EfiInit, EfiInv, InHand

(* Reading: nothing has been visited, and the volume is the one that was    *)
(* read.                                                                    *)
LEMMA ReadImageStep ==
  ASSUME EfiInv, ReadImage, \A n \in Nat : Packed(n) \in Nat
  PROVE  EfiInv'
<1>1. PICK v \in Volumes, off \in Drifts :
        /\ HasSecore(v)
        /\ given' = v /\ vol' = v /\ patchedBy' = [i \in Nodes(v) |-> <<>>]
        /\ origPos' = IF SecoreFirst(v) THEN VolumeHeader ELSE SecoreOffset(v) + off
  BY DEF ReadImage
<1>2. /\ efiPc = "idle" /\ efiPc' = "visiting" /\ here' = 2 /\ base' \in Nat
      /\ turn' = 1 /\ patch' = 1 /\ inFile' = None /\ applied' = None
  BY WindowAssumption DEF ReadImage, EfiInv
<1>3. WellFormed(v)
  BY VolumesAssumption
<1>4. origPos' \in Int
  <2>1. SecoreOffset(v) \in Nat /\ off \in Int
    BY <1>1, <1>3, OffsetsNat, WindowAssumption
  <2> QED
    BY <1>1, <2>1 DEF VolumeHeader
<1>5. SameShape'
  BY <1>1, <1>2, <1>3, <1>4 DEF SameShape
<1>6. \A i \in Nodes(v) : Patchers(i)' = {}
  BY <1>1 DEF Patchers
<1>7. PatchesTaken'
  <2>1. patchedBy' \in [Nodes(v) -> Seq(DOMAIN Visitors)]
    BY <1>1
  <2>2. \A i \in Nodes(v), k \in DOMAIN Visitors : HasPassed(k, i)' => i = 1
    BY <1>2, <1>3, NodesOf, VisitorsKnown DEF HasPassed, Nodes
  <2>3. \A f \in Nodes(v) : ~IsLastOpened(given, f, 1)'
    BY DEF IsLastOpened
  <2>4. \A i \in Nodes(v) : DOMAIN (patchedBy'[i]) = {}
    BY <1>1
  <2> QED
    BY <1>1, <1>6, <2>1, <2>2, <2>3, <2>4 DEF PatchesTaken
<1>8. AppliedOnce'
  BY <1>1, <1>2, <1>6 DEF AppliedOnce, None
<1>9. InTurn'
  <2>1. 2 \in Nodes(v) /\ Len(v) \in Nat
    BY <1>1, <1>3, OutermostFiles, NodesOf
  <2>2. 2 \in 2 .. Len(v) + 1
    BY <2>1 DEF Nodes
  <2>3. 1 \in DOMAIN Visitors
    BY VisitorsKnown
  <2>4. 1 \in DOMAIN Visitors[1].patches
    BY <2>3, VisitorsKnown, SMTT(30)
  <2> QED
    BY <1>1, <1>2, <2>2, <2>3, <2>4 DEF InTurn
<1>10. VisitorsKnow'
  BY <1>1, <1>2 DEF VisitorsKnow, None
<1> QED
  BY <1>2, <1>5, <1>7, <1>8, <1>9, <1>10 DEF EfiInv, InHand

(* What holds while the volume is visited. *)
LEMMA WhileVisiting ==
  ASSUME EfiInv, efiPc = "visiting"
  PROVE  /\ SameShape /\ PatchesTaken /\ AppliedOnce /\ InTurn /\ VisitorsKnow
         /\ Len(vol) = Len(given) /\ Nodes(vol) = Nodes(given) /\ Len(given) \in Nat
         /\ here \in Int /\ here >= 2 /\ turn \in 1 .. Len(Visitors) /\ DOMAIN Visitors = 1 .. Len(Visitors)
         /\ Len(Visitors) \in Nat /\ Len(Visitors) > 0
         /\ here <= Len(vol) =>
              /\ here \in Nodes(given) /\ vol[here].kind = given[here].kind
              /\ given[here].kind # "pe32" => vol[here] = given[here]
<1>1. SameShape /\ PatchesTaken /\ AppliedOnce /\ InTurn /\ VisitorsKnow
  BY DEF EfiInv, InHand
<1>2. Len(vol) = Len(given) /\ Nodes(vol) = Nodes(given) /\ Len(given) \in Nat
  BY <1>1, NodesOf DEF SameShape, Nodes
<1>3. here \in Int /\ here >= 2 /\ turn \in 1 .. Len(Visitors)
  BY <1>1, <1>2, VisitorsKnown DEF InTurn
<1>4. here <= Len(vol) => here \in Nodes(given)
  BY <1>2, <1>3 DEF Nodes
<1>5. \A i \in Nodes(given) : vol[i].kind = given[i].kind /\ (given[i].kind # "pe32" => vol[i] = given[i])
  BY <1>1 DEF SameShape
<1> QED
  BY <1>1, <1>2, <1>3, <1>4, <1>5, VisitorsKnown

(* NextVisitor: one more visitor has passed one more node. *)
LEMMA OnePasses ==
  ASSUME EfiInv, efiPc = "visiting", here <= Len(vol), NextVisitor
  PROVE  \A i \in Nodes(given), k \in DOMAIN Visitors :
           HasPassed(k, i)' <=> HasPassed(k, i) \/ (i = here /\ k = turn)
<1>1. PICK n \in Nat : /\ n = Len(Visitors) /\ DOMAIN Visitors = 1 .. n /\ turn \in 1 .. n
  BY WhileVisiting
<1>2. here \in Int /\ \A i \in Nodes(given) : i \in Int
  BY WhileVisiting DEF Nodes
<1>3. CASE turn = n
  BY <1>1, <1>2, <1>3 DEF NextVisitor, NextNode, HasPassed
<1>4. CASE turn # n
  BY <1>1, <1>2, <1>4 DEF NextVisitor, HasPassed
<1> QED
  BY <1>3, <1>4

(* NextNode: all visitors have passed this node.                            *)
LEMMA AllPass ==
  ASSUME EfiInv, efiPc = "visiting", here <= Len(vol), NextNode
  PROVE  \A i \in Nodes(given), k \in DOMAIN Visitors : HasPassed(k, i)' <=> i <= here
<1>1. here \in Int /\ DOMAIN Visitors = 1 .. Len(Visitors) /\ Len(Visitors) \in Nat /\ \A i \in Nodes(given) : i \in Int
  BY WhileVisiting DEF Nodes
<1> QED
  BY <1>1 DEF NextNode, HasPassed

(* It stays in turn. *)
LEMMA StaysInTurn ==
  ASSUME EfiInv, efiPc = "visiting", here <= Len(vol), UNCHANGED given,
         NextNode \/ (NextVisitor /\ given[here].kind = "pe32")
  PROVE  InTurn'
<1>1. PICK n \in Nat : /\ n = Len(Visitors) /\ DOMAIN Visitors = 1 .. n /\ turn \in 1 .. n /\ n > 0
  BY WhileVisiting
<1>2. PICK N \in Nat : N = Len(given) /\ here \in 2 .. N
  BY WhileVisiting
<1>3. \A k \in 1 .. n : 1 \in DOMAIN Visitors[k].patches
  BY <1>1, VisitorsKnown
<1>4. CASE NextNode
  BY <1>1, <1>2, <1>3, <1>4 DEF NextNode, InTurn
<1>5. CASE NextVisitor /\ given[here].kind = "pe32" /\ turn # n
  BY <1>1, <1>2, <1>3, <1>5 DEF NextVisitor, InTurn
<1> QED
  BY <1>1, <1>4, <1>5 DEF NextVisitor

(* The last file come to is the node itself, or the same as before it. *)
LEMMA OpenedNext ==
  ASSUME NEW i \in Nat
  PROVE  /\ given[i].kind = "file" /\ i > 0 => IsLastOpened(given, i, i + 1)
         /\ \A f : given[i].kind # "file" /\ IsLastOpened(given, f, i) => IsLastOpened(given, f, i + 1)
<1>1. i > 0 => i \in 1 .. (i + 1) - 1 /\ i + 1 .. (i + 1) - 1 = {}
  OBVIOUS
<1>2. \A f \in 1 .. i - 1 : f \in 1 .. (i + 1) - 1 /\ \A j \in f + 1 .. (i + 1) - 1 : j = i \/ j \in f + 1 .. i - 1
  OBVIOUS
<1> QED
  BY <1>1, <1>2 DEF IsLastOpened

(* The volume stays of the shape that was read. *)
LEMMA ShapeKept ==
  ASSUME SameShape, UNCHANGED <<given, vol, origPos, base>>, efiPc' = efiPc \/ efiPc = "visiting"
  PROVE  SameShape'
BY DEF SameShape

(* The visitors that have patched a node are visitors.                      *)
LEMMA PatchersKnown ==
  ASSUME PatchesTaken, NEW i \in Nodes(given)
  PROVE  /\ patchedBy[i] \in Seq(DOMAIN Visitors) /\ Patchers(i) \subseteq DOMAIN Visitors
         /\ DOMAIN patchedBy[i] = 1 .. Len(patchedBy[i]) /\ Len(patchedBy[i]) \in Nat
<1>1. patchedBy[i] \in Seq(DOMAIN Visitors)
  BY DEF PatchesTaken
<1>2. \A S : \A s \in Seq(S) : /\ DOMAIN s = 1 .. Len(s) /\ Len(s) \in Nat
                            /\ \A a \in DOMAIN s : s[a] \in S
  BY LenProperties, ElementOfSeq
<1> QED
  BY <1>1, <1>2 DEF Patchers

(* A node that is no module is passed by all at once, and none patches it.  *)
LEMMA PassesOther ==
  ASSUME EfiInv, efiPc = "visiting", here <= Len(vol), vol[here].kind # "pe32", NextNode,
         UNCHANGED <<given, vol, origPos, base, patchedBy, applied, efiPc>>
  PROVE  SameShape' /\ InTurn' /\ PatchesTaken' /\ AppliedOnce' /\ efiPc' = "visiting"
<1>1. /\ here \in Nodes(given) /\ given[here].kind # "pe32"
      /\ SameShape /\ PatchesTaken /\ AppliedOnce
  BY WhileVisiting
<1>2. SameShape' /\ InTurn'
  BY <1>1, ShapeKept, StaysInTurn
<1>3. AppliedOnce'
  BY <1>1 DEF AppliedOnce, Patchers
<1>4. Patchers(here) = {}
  BY <1>1 DEF PatchesTaken
<1>5. \A i \in Nodes(given), k \in DOMAIN Visitors : HasPassed(k, i)' <=> i <= here
  BY AllPass
<1>6. \A i \in Nodes(given), k \in DOMAIN Visitors : i # here => (HasPassed(k, i) <=> i <= here)
  <2>1. here \in Int /\ \A i \in Nodes(given) : i \in Int
    BY <1>1 DEF Nodes
  <2> QED
    BY <2>1 DEF HasPassed
<1>7. \A i : Patchers(i)' = Patchers(i)
  BY DEF Patchers
<1>8. \A i \in Nodes(given), k \in DOMAIN Visitors : k \in Patchers(i) => HasPassed(k, i)'
  BY <1>1, <1>4, <1>5, <1>6 DEF PatchesTaken
<1>9. \A i \in Nodes(given), f \in Nodes(given), k \in DOMAIN Visitors :
        IsLastOpened(given, f, i) =>
          (k \in Patchers(i) <=> given[i].kind = "pe32" /\ given[f].guid = Visitors[k].guid /\ HasPassed(k, i)')
  <2> SUFFICES ASSUME NEW i \in Nodes(given), NEW f \in Nodes(given), NEW k \in DOMAIN Visitors, IsLastOpened(given, f, i)
               PROVE  k \in Patchers(i) <=>
                        given[i].kind = "pe32" /\ given[f].guid = Visitors[k].guid /\ HasPassed(k, i)'
    OBVIOUS
  <2>1. CASE i = here
    BY <1>1, <1>4, <2>1
  <2>2. CASE i # here
    <3>1. HasPassed(k, i)' <=> HasPassed(k, i)
      BY <1>5, <1>6, <2>2
    <3>2. k \in Patchers(i) <=> given[i].kind = "pe32" /\ given[f].guid = Visitors[k].guid /\ HasPassed(k, i)
      BY <1>1 DEF PatchesTaken
    <3> QED
      BY <3>1, <3>2
  <2> QED
    BY <2>1, <2>2
<1>10. \A i \in Nodes(given) : Patchers(i) \subseteq DOMAIN Visitors
  BY <1>1, PatchersKnown
<1>11. PatchesTaken'
  BY <1>1, <1>7, <1>8, <1>9, <1>10 DEF PatchesTaken, IsLastOpened, Nodes
<1> QED
  BY <1>2, <1>3, <1>11

(* A file: it is the last one come to, and every visitor knows of it.       *)
LEMMA VisitFileStep ==
  ASSUME EfiInv, VisitFile
  PROVE  EfiInv'
<1>1. /\ efiPc = "visiting" /\ here <= Len(vol) /\ vol[here].kind = "file" /\ NextNode
      /\ inFile' = [k \in DOMAIN Visitors |-> vol[here].guid = Visitors[k].guid]
      /\ UNCHANGED <<efiPc, given, vol, origPos, base, applied, patchedBy, written>>
  BY DEF VisitFile, Visiting
<1>2. SameShape' /\ InTurn' /\ PatchesTaken' /\ AppliedOnce' /\ efiPc' = "visiting"
  BY <1>1, PassesOther
<1>3. /\ here \in Nodes(given) /\ vol[here] = given[here] /\ here \in Nat /\ here > 0 /\ here' = here + 1
  BY <1>1, WhileVisiting DEF NextNode
<1>4. IsLastOpened(given, here, here')
  BY <1>1, <1>3, OpenedNext
<1>5. VisitorsKnow'
  BY <1>1, <1>3, <1>4 DEF VisitorsKnow
<1> QED
  BY <1>2, <1>5 DEF EfiInv, InHand

(* Another section: the last file come to stays the same.                   *)
LEMMA VisitOtherStep ==
  ASSUME EfiInv, VisitOther
  PROVE  EfiInv'
<1>1. /\ efiPc = "visiting" /\ here <= Len(vol) /\ vol[here].kind # "pe32" /\ vol[here].kind # "file" /\ NextNode
      /\ UNCHANGED <<efiPc, given, vol, origPos, base, inFile, applied, patchedBy, written>>
  BY DEF VisitOther, Visiting, SectionKinds
<1>2. SameShape' /\ InTurn' /\ PatchesTaken' /\ AppliedOnce' /\ efiPc' = "visiting"
  BY <1>1, PassesOther
<1>3. /\ SameShape /\ VisitorsKnow /\ here \in Nodes(given) /\ given[here].kind # "file" /\ here \in Nat /\ here' = here + 1
      /\ here >= 2
  BY <1>1, WhileVisiting DEF NextNode
<1>4. here > 2
  BY <1>3, OutermostFiles DEF SameShape
<1>5. PICK f \in Nodes(given) :
        IsLastOpened(given, f, here) /\ \A k \in DOMAIN Visitors : inFile[k] <=> given[f].guid = Visitors[k].guid
  BY <1>3, <1>4 DEF VisitorsKnow
<1>6. IsLastOpened(given, f, here')
  BY <1>1, <1>3, <1>5, OpenedNext
<1>7. VisitorsKnow'
  BY <1>1, <1>3, <1>5, <1>6 DEF VisitorsKnow
<1> QED
  BY <1>2, <1>7 DEF EfiInv, InHand

(* At a module, a visitor knows whether it is its file that was come to last.*)
LEMMA AtModule ==
  ASSUME EfiInv, Visiting({"pe32"})
  PROVE  /\ efiPc = "visiting" /\ here <= Len(vol) /\ here \in Nodes(given) /\ given[here].kind = "pe32"
         /\ vol[here].kind = "pe32" /\ here > 2 /\ here \in Nat /\ turn \in DOMAIN Visitors
         /\ \E f \in Nodes(given) :
              IsLastOpened(given, f, here) /\ \A k \in DOMAIN Visitors : inFile[k] <=> given[f].guid = Visitors[k].guid
<1>1. efiPc = "visiting" /\ here <= Len(vol) /\ vol[here].kind = "pe32"
  BY DEF Visiting
<1>2. /\ here \in Nodes(given) /\ given[here].kind = "pe32" /\ here \in Nat /\ here >= 2
      /\ SameShape /\ VisitorsKnow /\ turn \in DOMAIN Visitors
  BY <1>1, WhileVisiting
<1>3. here > 2
  BY <1>2, OutermostFiles DEF SameShape
<1> QED
  BY <1>1, <1>2, <1>3 DEF VisitorsKnow

(* The files come to before it stay the same. *)
LEMMA KnowsOn ==
  ASSUME EfiInv, Visiting({"pe32"}), NextVisitor, UNCHANGED <<given, inFile>>
  PROVE  VisitorsKnow'
<1>1. PICK f \in Nodes(given) :
        IsLastOpened(given, f, here) /\ \A k \in DOMAIN Visitors : inFile[k] <=> given[f].guid = Visitors[k].guid
  BY AtModule
<1>2. here' = here \/ here' = here + 1
  BY DEF NextVisitor, NextNode
<1>3. IsLastOpened(given, f, here')
  BY <1>1, <1>2, AtModule, OpenedNext
<1>4. inFile \in [DOMAIN Visitors -> BOOLEAN]
  BY AtModule, WhileVisiting DEF VisitorsKnow
<1> QED
  BY <1>1, <1>3, <1>4 DEF VisitorsKnow

(* A module that is not in the visitor's file: it passes without a patch.   *)
LEMMA PassByStep ==
  ASSUME EfiInv, Visiting({"pe32"}), PassBy
  PROVE  EfiInv'
<1>1. /\ ~inFile[turn] /\ NextVisitor
      /\ UNCHANGED <<efiPc, given, vol, origPos, base, inFile, applied, patchedBy, written>>
  BY DEF PassBy
<1>2. /\ efiPc = "visiting" /\ here <= Len(vol) /\ here \in Nodes(given) /\ given[here].kind = "pe32"
      /\ here > 2 /\ here \in Nat /\ turn \in DOMAIN Visitors
  BY AtModule
<1>3. SameShape /\ PatchesTaken /\ AppliedOnce
  BY <1>2, WhileVisiting
<1>4. SameShape' /\ InTurn' /\ VisitorsKnow'
  BY <1>1, <1>2, <1>3, ShapeKept, StaysInTurn, KnowsOn
<1>5. AppliedOnce'
  BY <1>1, <1>3 DEF AppliedOnce, Patchers
<1>6. \A i \in Nodes(given), k \in DOMAIN Visitors : HasPassed(k, i)' <=> HasPassed(k, i) \/ (i = here /\ k = turn)
  BY <1>1, <1>2, OnePasses
<1>7. \A i : Patchers(i)' = Patchers(i)
  BY <1>1 DEF Patchers
<1>8. PICK f \in Nodes(given) :
        IsLastOpened(given, f, here) /\ given[f].guid # Visitors[turn].guid
  BY <1>1, <1>2, AtModule
<1>9. \A g \in Nodes(given) : IsLastOpened(given, g, here) => g = f
  BY <1>2, <1>8, LastOpenedUnique
<1>10. ~HasPassed(turn, here)
  BY <1>2, VisitorsKnown DEF HasPassed
<1>11. ASSUME NEW i \in Nodes(given), NEW g \in Nodes(given), NEW k \in DOMAIN Visitors, IsLastOpened(given, g, i)
       PROVE  k \in Patchers(i) <=>
                given[i].kind = "pe32" /\ given[g].guid = Visitors[k].guid /\ HasPassed(k, i)'
  <2>1. k \in Patchers(i) <=> given[i].kind = "pe32" /\ given[g].guid = Visitors[k].guid /\ HasPassed(k, i)
    BY <1>3, <1>11 DEF PatchesTaken
  <2>2. CASE i = here /\ k = turn
    BY <1>8, <1>9, <1>10, <1>11, <2>1, <2>2
  <2>3. CASE ~(i = here /\ k = turn)
    BY <1>6, <2>1, <2>3
  <2> QED
    BY <2>2, <2>3
<1>12. \A i \in Nodes(given) : \A k \in Patchers(i) : HasPassed(k, i)'
  BY <1>3, <1>6, PatchersKnown DEF PatchesTaken
<1>13. PatchesTaken'
  BY <1>1, <1>3, <1>7, <1>11, <1>12 DEF PatchesTaken
<1> QED
  BY <1>1, <1>2, <1>4, <1>5, <1>13 DEF EfiInv, InHand

(* A patch leaves the volume of the shape that was read. *)
LEMMA ApplyMoreStep ==
  ASSUME EfiInv, Visiting({"pe32"}), inFile[turn], ~applied[turn],
         NEW p, p.by \in Nat, vol' = [vol EXCEPT ![here] = Patched(p, @)],
         UNCHANGED <<efiPc, given, origPos, base>>
  PROVE  SameShape'
<1>1. /\ efiPc = "visiting" /\ here \in Nodes(given) /\ Nodes(vol) = Nodes(given) /\ vol[here].kind = "pe32"
      /\ SameShape
  BY AtModule, WhileVisiting
<1>2. /\ WellFormed(vol') /\ Len(vol') = Len(vol)
      /\ \A j \in Nodes(vol) : /\ vol'[j].kind = vol[j].kind /\ vol'[j].up = vol[j].up
                               /\ vol[j].kind # "pe32" => vol'[j] = vol[j]
  <2>1. /\ WellFormed(vol) /\ here \in Nodes(vol) /\ vol[here].kind = "pe32"
        /\ vol' = PatchedAt(vol, here, p)
    BY <1>1 DEF SameShape, PatchedAt
  <2>2. WellFormed(vol')
    BY <2>1, PatchedNode, ZenonT(60)
  <2>4. Len(vol') = Len(vol)
    BY <2>1, PatchedNode
  <2>3. ASSUME NEW j \in Nodes(vol)
        PROVE  /\ vol'[j].kind = vol[j].kind /\ vol'[j].up = vol[j].up
               /\ vol[j].kind # "pe32" => vol'[j] = vol[j]
    BY <2>1, PatchedNode
  <2> QED
    BY <2>2, <2>3, <2>4
<1>3. 1 \in Nodes(vol) /\ vol[1].kind = "volume"
  BY <1>1, NodesOf DEF SameShape
<1> QED
  BY <1>1, <1>2, <1>3 DEF SameShape

(* A patch: with its last one, the visitor has patched this module, for the *)
(* first time, after all that came before it.                               *)
LEMMA ApplyLastStep ==
  ASSUME EfiInv, Visiting({"pe32"}), inFile[turn], ~applied[turn], ApplyPatch,
         efiPc' # "failed"
  PROVE  EfiInv'
<1> DEFINE p == Visitors[turn].patches[patch]
<1>1. /\ vol' = [vol EXCEPT ![here] = Patched(p, @)]
      /\ IF patch < Len(Visitors[turn].patches)
         THEN patch' = patch + 1 /\ UNCHANGED <<here, turn, applied, patchedBy>>
         ELSE /\ NextVisitor /\ applied' = [applied EXCEPT ![turn] = TRUE]
              /\ patchedBy' = [patchedBy EXCEPT ![here] = Append(@, turn)]
      /\ UNCHANGED <<efiPc, given, origPos, base, inFile, written>>
  BY DEF ApplyPatch, Fail
<1>2. /\ efiPc = "visiting" /\ here <= Len(vol) /\ here \in Nodes(given) /\ given[here].kind = "pe32"
      /\ here > 2 /\ here \in Nat /\ turn \in DOMAIN Visitors
  BY AtModule
<1>3. SameShape /\ PatchesTaken /\ AppliedOnce /\ InTurn /\ VisitorsKnow
  BY <1>2, WhileVisiting
<1>4. patch \in DOMAIN Visitors[turn].patches /\ p.by \in Nat
  BY <1>2, <1>3, VisitorsKnown DEF InTurn
<1> HIDE DEF p
<1>5. SameShape'
  BY <1>1, <1>4, ApplyMoreStep
<1>6. CASE patch < Len(Visitors[turn].patches)
  <2>1. InTurn'
    <3>1. PICK n \in Nat : n = Len(Visitors[turn].patches) /\ DOMAIN Visitors[turn].patches = 1 .. n
      BY <1>2, VisitorsKnown
    <3>2. patch + 1 \in DOMAIN Visitors[turn].patches
      BY <1>4, <1>6, <3>1
    <3>3. here <= Len(given)
      BY <1>2, WhileVisiting
    <3> QED
      BY <1>1, <1>2, <1>3, <1>6, <3>2, <3>3 DEF InTurn
  <2>2. PatchesTaken' /\ AppliedOnce' /\ VisitorsKnow'
    BY <1>1, <1>3, <1>6 DEF PatchesTaken, AppliedOnce, VisitorsKnow, Patchers, HasPassed
  <2> QED
    BY <1>1, <1>2, <1>5, <2>1, <2>2 DEF EfiInv, InHand
<1>7. CASE ~(patch < Len(Visitors[turn].patches))
  <2>1. /\ NextVisitor /\ applied' = [applied EXCEPT ![turn] = TRUE]
        /\ patchedBy' = [patchedBy EXCEPT ![here] = Append(@, turn)]
    BY <1>1, <1>7
  <2>2. InTurn' /\ VisitorsKnow'
    BY <1>1, <1>2, <2>1, StaysInTurn, KnowsOn
  <2> DEFINE s == patchedBy[here]
             n == Len(s)
             t == Append(s, turn)
  <2>3. /\ s \in Seq(DOMAIN Visitors) /\ n \in Nat /\ DOMAIN s = 1 .. n
        /\ t \in Seq(DOMAIN Visitors) /\ DOMAIN t = 1 .. n + 1
        /\ \A a \in 1 .. n : t[a] = s[a]
        /\ t[n + 1] = turn
    <3>1. s \in Seq(DOMAIN Visitors) /\ n \in Nat /\ DOMAIN s = 1 .. n
      BY <1>2, <1>3, PatchersKnown
    <3> HIDE DEF s
    <3>2. t \in Seq(DOMAIN Visitors) /\ Len(t) = n + 1 /\ (\A a \in 1 .. n : t[a] = s[a]) /\ t[n + 1] = turn
      BY <1>2, <3>1, AppendProperties
    <3>3. DOMAIN t = 1 .. Len(t)
      <4> HIDE DEF t
      <4> QED
        BY <3>2, LenProperties
    <3> QED
      BY <3>1, <3>2, <3>3
  <2>4. patchedBy' \in [Nodes(given) -> Seq(DOMAIN Visitors)] /\ patchedBy'[here] = t
        /\ \A i \in Nodes(given) : i # here => patchedBy'[i] = patchedBy[i]
    <3> HIDE DEF t
    <3>1. patchedBy' = [patchedBy EXCEPT ![here] = t]
      BY <2>1 DEF t
    <3> QED
      BY <1>2, <1>3, <2>3, <3>1 DEF PatchesTaken
  <2> HIDE DEF t
  <2>0. PICK h \in Nodes(given) : h = here
    BY <1>2
  <2>5. Patchers(h)' = Patchers(h) \cup {turn}
    <3>1. {t[a] : a \in 1 .. n + 1} = {s[a] : a \in 1 .. n} \cup {turn}
      <4>1. \A a \in 1 .. n + 1 : a \in 1 .. n \/ a = n + 1
        BY <2>3
      <4>2. n + 1 \in 1 .. n + 1 /\ \A a \in 1 .. n : a \in 1 .. n + 1
        BY <2>3
      <4> HIDE DEF s, n
      <4> QED
        BY <2>3, <4>1, <4>2
    <3>2. Patchers(h)' = {t[a] : a \in DOMAIN t}
      <4>1. \A i : Patchers(i)' = {patchedBy'[i][a] : a \in DOMAIN (patchedBy'[i])}
        BY DEF Patchers
      <4> QED
        BY <2>0, <2>4, <4>1
    <3>3. Patchers(h) = {s[a] : a \in 1 .. n}
      <4>1. Patchers(h) = {s[a] : a \in DOMAIN s}
        BY <2>0 DEF Patchers
      <4> QED
        BY <2>3, <4>1
    <3>4. DOMAIN t = 1 .. n + 1
      BY <2>3
    <3> HIDE DEF s, n
    <3> QED
      BY <3>1, <3>2, <3>3, <3>4
  <2>6. \A i \in Nodes(given) : i # h => Patchers(i)' = Patchers(i)
    <3>1. \A i : Patchers(i)' = {patchedBy'[i][a] : a \in DOMAIN (patchedBy'[i])}
      BY DEF Patchers
    <3> QED
      BY <2>0, <2>4, <3>1 DEF Patchers
  <2>7. \A i \in Nodes(given), k \in DOMAIN Visitors : HasPassed(k, i)' <=> HasPassed(k, i) \/ (i = h /\ k = turn)
    BY <1>2, <2>0, <2>1, OnePasses
  <2>8. PICK f \in Nodes(given) :
          IsLastOpened(given, f, here) /\ given[f].guid = Visitors[turn].guid
    BY <1>2, AtModule
  <2>9. \A g \in Nodes(given) : IsLastOpened(given, g, here) => g = f
    BY <1>2, <2>8, LastOpenedUnique
  <2>10. ASSUME NEW i \in Nodes(given), NEW g \in Nodes(given), NEW k \in DOMAIN Visitors, IsLastOpened(given, g, i)
         PROVE  k \in Patchers(i)' <=>
                  given[i].kind = "pe32" /\ given[g].guid = Visitors[k].guid /\ HasPassed(k, i)'
    <3>1. k \in Patchers(i) <=> given[i].kind = "pe32" /\ given[g].guid = Visitors[k].guid /\ HasPassed(k, i)
      BY <1>3, <2>10 DEF PatchesTaken
    <3>2. CASE i = h /\ k = turn
      BY <1>2, <2>0, <2>5, <2>7, <2>8, <2>9, <2>10, <3>2
    <3>3. CASE ~(i = h /\ k = turn)
      BY <2>5, <2>6, <2>7, <3>1, <3>3
    <3> QED
      BY <3>2, <3>3
  <2>11. \A i \in Nodes(given) : Patchers(i)' \subseteq Patchers(i) \cup (IF i = h THEN {turn} ELSE {})
    BY <2>5, <2>6
  <2>12. ASSUME NEW i \in Nodes(given), Patchers(i)' # {}
         PROVE  given[i].kind = "pe32" /\ i > 2 /\ \A k \in Patchers(i)' : HasPassed(k, i)'
    <3>1. given[i].kind = "pe32" /\ i > 2
      BY <1>2, <1>3, <2>0, <2>6, <2>12 DEF PatchesTaken
    <3>2. \A k \in Patchers(i) : k \in DOMAIN Visitors /\ HasPassed(k, i)
      BY <1>3, PatchersKnown DEF PatchesTaken
    <3> QED
      BY <1>2, <2>7, <2>11, <3>1, <3>2
  <2>13. ASSUME NEW i \in Nodes(given), NEW a \in DOMAIN (patchedBy'[i]), NEW b \in DOMAIN (patchedBy'[i]), a < b
         PROVE  patchedBy'[i][a] < patchedBy'[i][b]
    <3>1. CASE i # here
      BY <1>3, <2>4, <2>13, <3>1 DEF PatchesTaken
    <3>2. CASE i = here
      <4>1. a \in 1 .. n + 1 /\ b \in 1 .. n + 1
        BY <2>3, <2>4, <2>13, <3>2
      <4>0. \A c \in 1 .. n : s[c] \in Patchers(here)
        BY <2>3 DEF Patchers
      <4>2. \A c \in 1 .. n : HasPassed(s[c], here)
        BY <1>2, <1>3, <4>0 DEF PatchesTaken
      <4>3. \A c \in 1 .. n : s[c] < turn
        BY <1>2, <4>2 DEF HasPassed
      <4>4. \A c, d \in 1 .. n : c < d => s[c] < s[d]
        BY <1>2, <1>3, <2>3 DEF PatchesTaken
      <4>5. a \in 1 .. n
        BY <2>3, <2>13, <4>1
      <4>6. CASE b \in 1 .. n
        BY <2>3, <2>4, <2>13, <3>2, <4>4, <4>5, <4>6
      <4>7. CASE b = n + 1
        BY <2>3, <2>4, <3>2, <4>3, <4>5, <4>7
      <4> HIDE DEF n
      <4> QED
        BY <2>3, <4>1, <4>6, <4>7
    <3> QED
      BY <3>1, <3>2
  <2>14. PatchesTaken'
    BY <1>1, <2>4, <2>10, <2>12, <2>13 DEF PatchesTaken
  <2>15. AppliedOnce'
    <3>1. /\ applied \in [DOMAIN Visitors -> BOOLEAN]
          /\ \A k \in DOMAIN Visitors : applied[k] <=> \E i \in Nodes(given) : k \in Patchers(i)
          /\ \A k \in DOMAIN Visitors, i, j \in Nodes(given) : k \in Patchers(i) /\ k \in Patchers(j) => i = j
      BY <1>3 DEF AppliedOnce
    <3>2. \A i \in Nodes(given) : turn \notin Patchers(i)
      BY <1>2, <3>1
    <3>3. /\ applied' \in [DOMAIN Visitors -> BOOLEAN] /\ applied'[turn]
          /\ \A k \in DOMAIN Visitors : k # turn => (applied'[k] <=> applied[k])
      BY <1>2, <2>1, <3>1
    <3>4. \A k \in DOMAIN Visitors, i \in Nodes(given) :
            k \in Patchers(i)' <=> k \in Patchers(i) \/ (i = h /\ k = turn)
      BY <2>5, <2>6
    <3>5. \A k \in DOMAIN Visitors : applied'[k] <=> \E i \in Nodes(given) : k \in Patchers(i)'
      BY <1>2, <3>1, <3>3, <3>4
    <3>6. \A k \in DOMAIN Visitors, i, j \in Nodes(given) : k \in Patchers(i)' /\ k \in Patchers(j)' => i = j
      BY <3>1, <3>2, <3>4
    <3> QED
      BY <1>1, <3>3, <3>5, <3>6 DEF AppliedOnce
  <2> QED
    BY <1>1, <1>2, <1>5, <2>2, <2>14, <2>15 DEF EfiInv, InHand
<1> QED
  BY <1>6, <1>7

(* An error leaves nothing to be said.                                      *)
LEMMA FailStep ==
  ASSUME EfiInv, Fail
  PROVE  EfiInv'
BY DEF Fail, EfiInv, InHand

(* What the walk found stays. *)
LEMMA FoundKept ==
  ASSUME PatchesTaken, AppliedOnce, UNCHANGED <<given, here, turn, applied, patchedBy>>
  PROVE  PatchesTaken' /\ AppliedOnce'
<1>1. \A i : Patchers(i)' = Patchers(i)
  BY DEF Patchers
<1>2. \A k, i : HasPassed(k, i)' <=> HasPassed(k, i)
  BY DEF HasPassed
<1>3. PatchesTaken'
  BY <1>1, <1>2 DEF PatchesTaken
<1>4. AppliedOnce'
  BY <1>1 DEF AppliedOnce
<1> QED
  BY <1>3, <1>4

(* A module: passed by, patched, or an error.                               *)
LEMMA VisitPE32Step ==
  ASSUME EfiInv, VisitPE32
  PROVE  EfiInv'
<1>1. Visiting({"pe32"})
  BY DEF VisitPE32
<1>2. CASE PassBy
  BY <1>1, <1>2, PassByStep
<1>3. CASE Fail
  BY <1>3, FailStep
<1>4. CASE inFile[turn] /\ ~applied[turn] /\ ApplyPatch
  <2>1. CASE efiPc' = "failed"
    BY <2>1 DEF EfiInv, InHand
  <2>2. CASE efiPc' # "failed"
    BY <1>1, <1>4, <2>2, ApplyLastStep
  <2> QED
    BY <2>1, <2>2
<1> QED
  BY <1>2, <1>3, <1>4 DEF VisitPE32

(* Done: every visitor has applied its patches.                             *)
LEMMA VisitingDoneStep ==
  ASSUME EfiInv, VisitingDone
  PROVE  EfiInv'
<1>1. efiPc = "visiting" /\ here > Len(vol)
  BY DEF VisitingDone
<1>2. SameShape /\ PatchesTaken /\ AppliedOnce /\ Len(vol) = Len(given) /\ here \in Int
  BY <1>1, WhileVisiting
<1>3. CASE Fail
  BY <1>3, FailStep
<1>4. CASE /\ \A k \in DOMAIN Visitors : applied[k]
           /\ efiPc' = "patched" /\ UNCHANGED <<given, vol, origPos, base, walk, written>>
  <2>1. SameShape' /\ PatchesTaken' /\ AppliedOnce' /\ here' \in Int /\ here' > Len(given')
    BY <1>1, <1>2, <1>4, ShapeKept, FoundKept DEF walk
  <2> QED
    BY <1>4, <2>1 DEF EfiInv, InHand, walk
<1> QED
  BY <1>3, <1>4 DEF VisitingDone

(* SecoreFixup: the volume reads back, and the core is where it was, by     *)
(* what it checks itself; more or less padding leaves the rest of the       *)
(* volume as it is.                                                         *)
LEMMA FixPaddingStep ==
  ASSUME EfiInv, FixPadding, \A n \in Nat : Packed(n) \in Nat
  PROVE  EfiInv'
<1>1. /\ efiPc = "patched" /\ SameShape /\ PatchesTaken /\ AppliedOnce /\ here \in Int /\ here > Len(given)
      /\ \A k \in DOMAIN Visitors : applied[k]
  BY DEF FixPadding, EfiInv, InHand
<1>2. CASE ~Fixed(vol, origPos)
  BY <1>2, FailStep DEF FixPadding
<1>3. CASE Fixed(vol, origPos)
  <2> DEFINE needed == origPos - SecoreOffset(vol)
             z == Repadded(vol, needed)
  <2>1. /\ vol' = z /\ efiPc' = "fixed"
        /\ UNCHANGED <<given, origPos, base, walk, written>>
    BY <1>3 DEF FixPadding
  <2>2. /\ WellFormed(given) /\ HasSecore(given) /\ WellFormed(vol) /\ Len(vol) = Len(given) /\ vol[1] = given[1]
        /\ origPos \in Int /\ base \in Nat
        /\ \A i \in Nodes(given) :
             /\ vol[i].kind = given[i].kind /\ vol[i].up = given[i].up
             /\ given[i].kind # "pe32" => vol[i] = given[i]
    BY <1>1 DEF SameShape
  <2>3. HasSecore(vol)
    <3>1. \A i \in Nodes(given) : vol[i].up = given[i].up /\ (given[i].kind = "file" => vol[i].type = given[i].type)
      BY <2>2
    <3> QED
      BY <2>2, <3>1, SecoreKept
  <2>4. needed \in Int
    <3>1. SecoreOffset(vol) \in Nat
      BY <2>2, <2>3, OffsetsNat
    <3> QED
      BY <2>2, <3>1
  <2>5. needed = 0 \/ (PaddingSuffices(vol, needed) /\ ReadableVolume(z) /\ SecoreOffset(z) = origPos)
    BY <1>3 DEF Fixed
  <2> HIDE DEF needed
  <2>6. /\ WellFormed(z) /\ Len(z) = Len(vol)
        /\ \A j \in Nodes(vol) : /\ z[j].kind = vol[j].kind /\ z[j].up = vol[j].up
                                 /\ j # PaddingFile(vol) => z[j] = vol[j]
    <3>0. PICK u, n :
            /\ n \in Int /\ u = z /\ n = needed /\ u = Repadded(vol, n)
            /\ WellFormed(vol) /\ HasSecore(vol) /\ (n = 0 \/ PaddingSuffices(vol, n))
      BY <2>2, <2>3, <2>4, <2>5
    <3>1. WellFormed(u) /\ Len(u) = Len(vol)
      BY <3>0, RepaddedNode
    <3>2. \A j \in Nodes(vol) : u[j].kind = vol[j].kind /\ u[j].up = vol[j].up
      BY <3>0, RepaddedNode, SMTT(30)
    <3>3. \A j \in Nodes(vol) : j # PaddingFile(vol) => u[j] = vol[j]
      BY <3>0, RepaddedNode
    <3> HIDE DEF z
    <3> QED
      BY <3>0, <3>1, <3>2, <3>3
  <2>7. PaddingFile(vol) # 1 /\ 1 \in Nodes(vol) /\ Nodes(vol) = Nodes(given)
    BY <2>2, <2>3, OutermostFiles, NodesOf DEF Nodes
  <2>8. SameShape'
    <3>1. \A i \in Nodes(given) : z[i].kind = given[i].kind /\ z[i].up = given[i].up
      BY <2>2, <2>6, <2>7
    <3>2. z[1] = given[1] /\ Len(z) = Len(given)
      BY <2>2, <2>6, <2>7
    <3> HIDE DEF z
    <3> QED
      BY <2>1, <2>2, <2>6, <3>1, <3>2 DEF SameShape
  <2>9. ReadableVolume(z) /\ SecoreOffset(z) = origPos
    <3>1. CASE needed = 0
      <4>1. z = vol /\ ReadableVolume(vol)
        BY <1>3, <3>1 DEF Repadded, Fixed
      <4>2. SecoreOffset(vol) \in Nat
        BY <2>2, <2>3, OffsetsNat
      <4>3. SecoreOffset(vol) = origPos
        BY <2>2, <3>1, <4>2 DEF needed
      <4> QED
        BY <4>1, <4>3
    <3> QED
      BY <2>5, <3>1
  <2>10. PatchesTaken' /\ AppliedOnce' /\ here' \in Int /\ here' > Len(given')
    BY <1>1, <2>1, FoundKept DEF walk
  <2> HIDE DEF z
  <2> QED
    BY <1>1, <2>1, <2>8, <2>9, <2>10 DEF EfiInv, InHand, walk
<1> QED
  BY <1>2, <1>3

(* The body written covers the window: it is not longer by the check, and   *)
(* not shorter as a volume never takes fewer bytes than its block map       *)
(* promised.                                                                *)
LEMMA WriteBackStep ==
  ASSUME EfiInv, WriteBack, \A n \in Nat : Packed(n) \in Nat
  PROVE  EfiInv'
<1>1. /\ efiPc = "fixed" /\ SameShape /\ PatchesTaken /\ AppliedOnce /\ here \in Int /\ here > Len(given)
      /\ \A k \in DOMAIN Visitors : applied[k]
      /\ ReadableVolume(vol) /\ SecoreOffset(vol) = origPos
  BY DEF WriteBack, EfiInv, InHand
<1>2. CASE Fail
  BY <1>2, FailStep
<1>3. CASE /\ ~(Body > Window) /\ efiPc' = "written" /\ written' = Body
           /\ UNCHANGED <<given, vol, origPos, base, walk>>
  <2>1. /\ VolumeBytes(vol) \in Nat /\ VolumeBytes(vol) >= vol[1].minSize + vol[1].custom
        /\ vol[1].minSize \in Nat /\ vol[1].custom \in Nat
    BY <1>1, OffsetsNat DEF SameShape
  <2>2. base \in Nat /\ vol[1] = given[1]
    BY <1>1 DEF SameShape
  <2>3. Body = Window
    <3>1. PICK s \in Nat, m \in Nat, c \in Nat :
            s = VolumeBytes(vol) /\ m = given[1].minSize /\ c = given[1].custom /\ s >= m + c
      BY <2>1, <2>2
    <3>2. Window = base + m + c /\ Body = AlignUp(base + s, 16)
      BY <3>1 DEF Window, Body
    <3>3. base + s \in Nat /\ base + m + c \in Nat /\ base + s >= base + m + c
      BY <2>2, <3>1
    <3>4. Body \in Nat /\ Body >= base + s
      BY <3>2, <3>3, AlignNat
    <3> QED
      BY <1>3, <3>2, <3>3, <3>4
  <2>4. Window' = Window
    BY <1>3 DEF Window
  <2>5. SameShape' /\ PatchesTaken' /\ AppliedOnce' /\ here' \in Int /\ here' > Len(given')
    BY <1>1, <1>3, FoundKept DEF SameShape, walk
  <2>6. \A k \in DOMAIN Visitors : applied'[k]
    BY <1>1, <1>3 DEF walk
  <2>7. ReadableVolume(vol') /\ SecoreOffset(vol') = origPos'
    BY <1>1, <1>3
  <2> QED
    BY <1>3, <2>3, <2>4, <2>5, <2>6, <2>7 DEF EfiInv, InHand
<1> QED
  BY <1>2, <1>3 DEF WriteBack

(* The next image starts afresh, and nothing else changes.                  *)
LEMMA NextImageStep ==
  ASSUME EfiInv, NextImage
  PROVE  EfiInv'
BY DEF NextImage, EfiInv, InHand

(* A step that changes nothing.                                             *)
LEMMA EfiStutter ==
  ASSUME EfiInv, UNCHANGED efiVars
  PROVE  EfiInv'
<1>1. SameShape => SameShape'
  BY DEF SameShape, efiVars
<1>2. InTurn => InTurn'
  BY DEF InTurn, efiVars, walk
<1>3. VisitorsKnow => VisitorsKnow'
  BY DEF VisitorsKnow, efiVars, walk
<1>4. PatchesTaken /\ AppliedOnce => PatchesTaken' /\ AppliedOnce'
  BY FoundKept DEF efiVars, walk
<1>5. Window' = Window
  BY DEF Window, efiVars
<1> QED
  BY <1>1, <1>2, <1>3, <1>4, <1>5 DEF EfiInv, InHand, efiVars, walk

(* So the invariant holds of every run.                                     *)
LEMMA EfiInvHolds ==
  ASSUME \A n \in Nat : Packed(n) \in Nat
  PROVE  EfiSpec => []EfiInv
<1>1. EfiInit => EfiInv
  BY VisitStarts
<1>2. EfiInv /\ [EfiNext]_efiVars => EfiInv'
  BY ReadImageStep, VisitFileStep, VisitOtherStep, VisitPE32Step, VisitingDoneStep, FixPaddingStep,
     WriteBackStep, NextImageStep, EfiStutter DEF EfiNext
<1> QED
  BY <1>1, <1>2, PTL DEF EfiSpec

(* What is written back reads back with the security core where it was read, *)
(* and covers the window, for any visitors, volumes, drift and packing, as  *)
(* long as the length of packed data is a number of bytes.                  *)
THEOREM SecoreStaysPut ==
  ASSUME \A n \in Nat : Packed(n) \in Nat
  PROVE  EfiSpec => []SecoreStays
<1>1. EfiInv => SecoreStays
  BY DEF EfiInv, SecoreStays
<1> QED
  BY <1>1, EfiInvHolds, PTL

(* Each visitor has patched one module, and a patched module was patched by *)
(* all visitors of one file, in their order; it lies in that file, unless   *)
(* something lies behind a nested volume.                                   *)
THEOREM EachPatchedOnce ==
  ASSUME \A n \in Nat : Packed(n) \in Nat
  PROVE  EfiSpec => []PatchedOnce
<1>1. EfiInv => PatchedOnce
  <2> SUFFICES ASSUME EfiInv, efiPc = "written" PROVE PatchedOnce
    BY DEF PatchedOnce
  <2>1. /\ SameShape /\ PatchesTaken /\ AppliedOnce /\ here \in Int /\ here > Len(given) /\ Len(given) \in Nat
        /\ \A k \in DOMAIN Visitors : applied[k]
    BY NodesOf DEF EfiInv, InHand, SameShape
  <2>2. Nodes(vol) = Nodes(given)
    BY <2>1 DEF SameShape, Nodes
  <2>3. ASSUME NEW k \in DOMAIN Visitors
        PROVE  \E i \in Nodes(vol) : \A j \in Nodes(vol) : k \in Patchers(j) <=> j = i
    BY <2>1, <2>2 DEF AppliedOnce
  <2>4. ASSUME NEW i \in Nodes(given), NEW k \in Patchers(i)
        PROVE  /\ Patchers(i) = VisitorsOf(Visitors[k].guid)
               /\ NothingBehindNested(given) => given[FileOf(given, i)].guid = Visitors[k].guid
    <3>1. given[i].kind = "pe32" /\ i > 2 /\ k \in DOMAIN Visitors /\ Patchers(i) \subseteq DOMAIN Visitors
      BY <2>1, PatchersKnown DEF PatchesTaken
    <3>2. PICK f \in Nodes(given) : IsLastOpened(given, f, i)
      BY <2>1, <3>1, LastOpenedExists DEF SameShape
    <3>3. \A j \in DOMAIN Visitors : HasPassed(j, i)
      BY <2>1 DEF HasPassed, Nodes
    <3>4. \A j \in DOMAIN Visitors : j \in Patchers(i) <=> given[f].guid = Visitors[j].guid
      BY <2>1, <3>1, <3>2, <3>3 DEF PatchesTaken
    <3>5. given[f].guid = Visitors[k].guid
      BY <3>1, <3>4
    <3>6. LastOpened(given, i) = f
      BY <3>2, LastOpenedIs DEF Nodes
    <3> QED
      BY <3>1, <3>4, <3>5, <3>6 DEF VisitorsOf, NothingBehindNested
  <2>5. \A i \in Nodes(given) : \A a, b \in DOMAIN patchedBy[i] : a < b => patchedBy[i][a] < patchedBy[i][b]
    BY <2>1 DEF PatchesTaken
  <2> QED
    BY <2>2, <2>3, <2>4, <2>5 DEF PatchedOnce
<1> QED
  BY <1>1, EfiInvHolds, PTL

-----------------------------------------------------------------------------
(* SecoreFixup's arithmetic.                                                *)

(* Filling up to eight bytes, before and after a change by a multiple of    *)
(* eight.                                                                   *)
LEMMA AlignEight ==
  ASSUME NEW n \in Nat
  PROVE  /\ AlignUp(n, 8) \in Nat /\ AlignUp(n, 8) % 8 = 0
         /\ \A d \in Int : d % 8 = 0 /\ n + d >= 0 => AlignUp(n + d, 8) = AlignUp(n, 8) + d
BY DEF AlignUp

(* What a volume holds as far as any of its files ends at a multiple of     *)
(* eight.                                                                   *)
LEMMA FilesAligned ==
  ASSUME \A n \in Nat : Packed(n) \in Nat, NEW v, WellFormed(v), NEW j \in 1 .. Len(v)
  PROVE  Length(v)[<<1, j>>] % 8 = 0
<1>0. /\ Len(v) \in Nat /\ v \in Seq(Node) /\ 1 \in Nodes(v) /\ v[1].kind = "volume"
      /\ \A i \in Nodes(v) : v[i] \in Node
  BY NodesOf
<1>1. \A i \in Nodes(v), k \in 0 .. Len(v) : Length(v)[<<i, k>>] = Said(v, Length(v), i, k)
  BY <1>0, LengthAt
<1>2. \A i \in Nodes(v), k \in 0 .. Len(v) : Length(v)[<<i, k>>] \in Nat
  BY OffsetsNat
<1> DEFINE S == {n \in Nat : n \in 1 .. Len(v) => Length(v)[<<1, n>>] % 8 = 0}
<1>3. 0 \in S
  OBVIOUS
<1>4. ASSUME NEW n \in Nat, n \in S
      PROVE  n + 1 \in S
  <2> SUFFICES ASSUME n + 1 \in 1 .. Len(v) PROVE Length(v)[<<1, n + 1>>] % 8 = 0
    OBVIOUS
  <2> DEFINE k == n + 1
  <2>0. k \in Nodes(v) /\ k \in 0 .. Len(v) /\ k - 1 = n /\ n \in 0 .. Len(v) /\ Len(v) \in 0 .. Len(v)
    BY <1>0 DEF Nodes
  <2>1. Length(v)[<<1, k>>] = Said(v, Length(v), 1, k)
    BY <1>0, <1>1, <2>0
  <2>2. CASE n = 0
    <3>1. Length(v)[<<1, k>>] = VolumeHeader
      BY <1>0, <2>1, <2>2 DEF Said
    <3> QED
      BY <3>1 DEF VolumeHeader
  <2>3. CASE n # 0
    <3>1. Length(v)[<<1, n>>] \in Nat /\ Length(v)[<<1, n>>] % 8 = 0
      BY <1>0, <1>2, <1>4, <2>0, <2>3
    <3>2. Length(v)[<<k, Len(v)>>] \in Nat /\ v[k] \in Node
      BY <1>0, <1>2, <2>0
    <3>3. NodeBytes(v[k], Length(v)[<<k, Len(v)>>]) \in Nat
      BY <3>2, BytesNat
    <3>4. ~(k <= 1)
      BY <2>3
    <3>5. CASE v[k].up # 1
      BY <2>0, <2>1, <3>1, <3>4, <3>5 DEF Said
    <3>6. CASE v[k].up = 1
      <4> DEFINE b == NodeBytes(v[k], Length(v)[<<k, Len(v)>>])
                 a == Length(v)[<<1, n>>]
      <4>1. Length(v)[<<1, k>>] = a + AlignUp(b, 8)
        BY <1>0, <2>0, <2>1, <3>4, <3>6 DEF Said, Joined
      <4>2. AlignUp(b, 8) \in Nat /\ AlignUp(b, 8) % 8 = 0
        BY <3>3, AlignEight
      <4> HIDE DEF a, b
      <4>3. a \in Nat /\ a % 8 = 0
        BY <3>1 DEF a
      <4>4. \A x \in Nat, y \in Nat : x % 8 = 0 /\ y % 8 = 0 => (x + y) % 8 = 0
        BY SMTT(30)
      <4>5. (a + AlignUp(b, 8)) % 8 = 0
        BY <4>2, <4>3, <4>4
      <4>6. Length(v)[<<1, k>>] % 8 = 0
        BY <4>1, <4>5
      <4> QED
        BY <4>6
    <3> QED
      BY <3>5, <3>6
  <2> QED
    BY <2>2, <2>3
<1> HIDE DEF S
<1>5. Nat \subseteq S
  BY <1>3, <1>4, NatInduct
<1>6. j \in Nat
  BY <1>0
<1> QED
  BY <1>5, <1>6 DEF S

(* Other padding moves only what lies behind it in the volume.              *)
LEMMA PaddingMoves ==
  ASSUME \A n \in Nat : Packed(n) \in Nat, NEW v, WellFormed(v), HasSecore(v),
         v[PaddingFile(v)].type = "padding", NEW d \in Int, d % 8 = 0, PaddingSuffices(v, d),
         NEW z, z = Repadded(v, d)
  PROVE  FileOffset(z, LastFile(v)) = FileOffset(v, LastFile(v)) + d
<1> DEFINE p == PaddingFile(v)
           l == LastFile(v)
<1>1. PICK N \in Nat : N = Len(v)
  BY NodesOf
<1>2. /\ Len(v) \in Nat /\ v \in Seq(Node) /\ 1 \in Nodes(v) /\ v[1].kind = "volume"
      /\ \A i \in Nodes(v) : v[i] \in Node
  BY NodesOf
<1>3. WellFormed(z) /\ Len(z) = Len(v) /\ z \in Seq(Node) /\ Nodes(z) = Nodes(v)
  <2>1. WellFormed(z) /\ Len(z) = Len(v)
    BY RepaddedNode
  <2> QED
    BY <2>1, NodesOf DEF Nodes
<1>4. \A j \in Nodes(v) : z[j].kind = v[j].kind /\ z[j].up = v[j].up
  BY RepaddedNode, SMTT(30)
<1>5. \A j \in Nodes(v) : v[j].kind = "file" => z[j].type = v[j].type
  BY RepaddedNode
<1>6. \A j \in Nodes(v) : j # p => z[j] = v[j]
  BY RepaddedNode
<1>7. z[p].pad = v[p].pad + d
  BY RepaddedNode
<1>8. /\ p \in Nodes(v) /\ l \in Nodes(v) /\ 2 < p /\ p < l /\ v[p].kind = "file" /\ v[p].up = 1
      /\ \A k \in Nodes(v) : v[k].up = 1 => k <= p \/ k = l
  BY OutermostFiles
<1>9. \A i \in Nodes(v), j \in 0 .. N : Length(v)[<<i, j>>] = Said(v, Length(v), i, j)
  BY <1>1, <1>2, LengthAt
<1>10. \A i \in Nodes(v), j \in 0 .. N : Length(z)[<<i, j>>] = Said(z, Length(z), i, j)
  <2>1. \A i \in Nodes(z), j \in 0 .. Len(z) : Length(z)[<<i, j>>] = Said(z, Length(z), i, j)
    BY <1>3, LengthAt
  <2>2. Len(z) = N
    BY <1>1, <1>3
  <2>3. ASSUME NEW i \in Nodes(v), NEW j \in 0 .. N
        PROVE  Length(z)[<<i, j>>] = Said(z, Length(z), i, j)
    <3>1. i \in Nodes(z) /\ j \in 0 .. Len(z)
      BY <1>3, <2>2
    <3> QED
      BY <2>1, <3>1
  <2> QED
    BY <2>3
<1>11. \A i \in Nodes(v), j \in 0 .. N : Length(v)[<<i, j>>] \in Nat
  BY <1>1, OffsetsNat
<1>12. (\A i \in Nodes(v) : i \in 1 .. N) /\ (\A i \in 1 .. N : i \in Nodes(v))
  BY <1>1 DEF Nodes
<1>13. p \in 1 .. N /\ l \in 1 .. N /\ 2 < p /\ p < l
  BY <1>8, <1>12
<1> HIDE DEF p, l
<1> DEFINE P == {q \in PlacesIn(v) : q[1] # 1 \/ q[2] < p => Length(z)[q] = Length(v)[q]}
<1>14. ASSUME NEW i \in Nodes(v), NEW j \in 0 .. N, i < j => <<i, j - 1>> \in P /\ <<j, N>> \in P,
              i # 1 \/ j < p
       PROVE  Length(z)[<<i, j>>] = Length(v)[<<i, j>>]
  <2>1. Length(z)[<<i, j>>] = Said(z, Length(z), i, j) /\ Length(v)[<<i, j>>] = Said(v, Length(v), i, j)
    BY <1>9, <1>10
  <2>2. CASE j <= i
    BY <1>4, <2>1, <2>2 DEF Said
  <2>3. CASE ~(j <= i)
    <3>1. j \in Nodes(v) /\ i < j /\ j # 1 /\ j - 1 \in 0 .. N /\ N \in 0 .. N
      BY <1>12, <2>3
    <3>2. <<i, j - 1>> \in P /\ <<j, N>> \in P
      BY <1>14, <3>1
    <3>3. Length(z)[<<i, j - 1>>] = Length(v)[<<i, j - 1>>]
      <4>1. i # 1 \/ j - 1 < p
        BY <1>2, <1>8, <1>12, <1>14, <3>1
      <4> QED
        BY <3>2, <4>1
    <3>4. Length(z)[<<j, N>>] = Length(v)[<<j, N>>]
      BY <3>1, <3>2
    <3>5. CASE v[j].up # i
      <4>1. z[j].up # i
        BY <1>4, <3>1, <3>5
      <4> QED
        BY <2>1, <2>3, <3>3, <3>5, <4>1 DEF Said
    <3>6. CASE v[j].up = i
      <4>1. z[j].up = i
        BY <1>4, <3>1, <3>6
      <4>2. j # p
        BY <1>8, <1>13, <1>14, <3>1, <3>6
      <4>3. z[j] = v[j] /\ z[i].kind = v[i].kind
        BY <1>4, <1>6, <3>1, <4>2
      <4>4. \A n, b : Joined(z[i], n, b) = Joined(v[i], n, b)
        BY <4>3 DEF Joined
      <4>5. Said(v, Length(v), i, j) = Joined(v[i], Length(v)[<<i, j - 1>>], NodeBytes(v[j], Length(v)[<<j, N>>]))
        BY <1>1, <2>3, <3>6 DEF Said
      <4>6. Said(z, Length(z), i, j) = Joined(z[i], Length(z)[<<i, j - 1>>], NodeBytes(z[j], Length(z)[<<j, N>>]))
        BY <1>1, <1>3, <2>3, <4>1 DEF Said
      <4> QED
        BY <2>1, <3>3, <3>4, <4>3, <4>4, <4>5, <4>6
    <3> QED
      BY <3>5, <3>6
  <2> QED
    BY <2>2, <2>3
<1>15. \A i \in Nodes(v), j \in 0 .. N : i # 1 \/ j < p => Length(z)[<<i, j>>] = Length(v)[<<i, j>>]
  <2>0. \A i \in Nodes(v), j \in 0 .. N :
          <<i, j>> \in P <=> (i # 1 \/ j < p => Length(z)[<<i, j>>] = Length(v)[<<i, j>>])
    BY <1>1 DEF PlacesIn
  <2>1. \A i \in Nodes(v), j \in 0 .. N :
          (i < j => <<i, j - 1>> \in P /\ <<j, N>> \in P) => <<i, j>> \in P
    <3> HIDE DEF P
    <3> QED
      BY <1>14, <2>0
  <2> HIDE DEF P
  <2>2. \A i \in Nodes(v), j \in 0 .. N : <<i, j>> \in P
    BY <1>1, <1>2, <2>1, PlaceInduct
  <2> QED
    BY <2>0, <2>2
<1> HIDE DEF P
<1>16. Length(z)[<<1, p>>] = Length(v)[<<1, p>>] + d
  <2>1. p - 1 \in 0 .. N /\ p \in 0 .. N /\ p - 1 < p /\ ~(p <= 1) /\ N \in 0 .. N
    BY <1>13
  <2> DEFINE a == Length(v)[<<1, p - 1>>]
  <2>2. a \in Nat /\ Length(z)[<<1, p - 1>>] = a
    BY <1>2, <1>11, <1>15, <2>1
  <2>3. z[p].kind = "file" /\ z[p].type = "padding" /\ v[p].type = "padding" /\ z[p].up = 1 /\ z[1].kind = "volume"
    BY <1>2, <1>4, <1>5, <1>8 DEF p
  <2>4. \A n : NodeBytes(v[p], n) = FileHeader + v[p].pad /\ NodeBytes(z[p], n) = FileHeader + (v[p].pad + d)
    BY <1>7, <1>8, <2>3 DEF NodeBytes
  <2>5. /\ Length(v)[<<1, p>>] = a + AlignUp(FileHeader + v[p].pad, 8)
        /\ Length(z)[<<1, p>>] = a + AlignUp(FileHeader + (v[p].pad + d), 8)
    <3>1. Length(v)[<<1, p>>] = Said(v, Length(v), 1, p) /\ Length(z)[<<1, p>>] = Said(z, Length(z), 1, p)
      BY <1>2, <1>9, <1>10, <2>1
    <3>2. Said(v, Length(v), 1, p) = a + AlignUp(FileHeader + v[p].pad, 8)
      BY <1>2, <1>8, <2>1, <2>4 DEF Said, Joined
    <3>3. Said(z, Length(z), 1, p) = a + AlignUp(FileHeader + (v[p].pad + d), 8)
      BY <2>1, <2>2, <2>3, <2>4 DEF Said, Joined
    <3> QED
      BY <3>1, <3>2, <3>3
  <2>6. v[p].pad \in Nat /\ v[p].pad + d >= 0
    BY <1>2, <1>8, FileNode DEF PaddingSuffices, p
  <2>7. AlignUp(FileHeader + (v[p].pad + d), 8) = AlignUp(FileHeader + v[p].pad, 8) + d
        /\ AlignUp(FileHeader + v[p].pad, 8) \in Nat
    <3> DEFINE x == v[p].pad
               n == FileHeader + x
    <3>1. n \in Nat /\ n + d >= 0 /\ FileHeader + (x + d) = n + d
      BY <2>6 DEF FileHeader
    <3> HIDE DEF n
    <3>2. AlignUp(n + d, 8) = AlignUp(n, 8) + d /\ AlignUp(n, 8) \in Nat
      BY <3>1, AlignEight
    <3> QED
      BY <3>1, <3>2 DEF n
  <2> QED
    BY <2>2, <2>5, <2>7
<1> DEFINE S == {n \in Nat : p + n < l => Length(z)[<<1, p + n>>] = Length(v)[<<1, p + n>>] + d}
<1>17. 0 \in S
  <2>1. p + 0 = p
    BY <1>13
  <2> QED
    BY <1>16, <2>1
<1>18. ASSUME NEW n \in Nat, n \in S
       PROVE  n + 1 \in S
  <2> SUFFICES ASSUME p + (n + 1) < l
               PROVE  Length(z)[<<1, p + (n + 1)>>] = Length(v)[<<1, p + (n + 1)>>] + d
    OBVIOUS
  <2> DEFINE j == p + (n + 1)
  <2>1. j \in Nodes(v) /\ j \in 0 .. N /\ p < j /\ j < l /\ j - 1 = p + n /\ p + n < l /\ ~(j <= 1)
    <3>1. j \in 1 .. N /\ p < j /\ j - 1 = p + n /\ p + n < l
      BY <1>13
    <3> HIDE DEF j
    <3> QED
      BY <1>13, <1>12, <3>1 DEF j
  <2>2. Length(z)[<<1, j - 1>>] = Length(v)[<<1, j - 1>>] + d
    BY <1>18, <2>1
  <2> HIDE DEF j
  <2>3. v[j].up # 1 /\ z[j].up # 1
    <3>1. ~(j <= p) /\ j # l
      BY <1>13, <2>1
    <3> QED
      BY <1>4, <1>8, <2>1, <3>1
  <2>4. Length(z)[<<1, j>>] = Length(z)[<<1, j - 1>>] /\ Length(v)[<<1, j>>] = Length(v)[<<1, j - 1>>]
    BY <1>2, <1>9, <1>10, <2>1, <2>3, ZenonT(30) DEF Said
  <2> QED
    BY <2>2, <2>4 DEF j
<1> HIDE DEF S
<1>19. Nat \subseteq S
  BY <1>17, <1>18, NatInduct
<1>20. l - 1 - p \in Nat /\ p + (l - 1 - p) = l - 1 /\ p + (l - 1 - p) < l
  BY <1>13
<1>21. Length(z)[<<1, l - 1>>] = Length(v)[<<1, l - 1>>] + d
  BY <1>19, <1>20 DEF S
<1> QED
  BY <1>21 DEF FileOffset, l

(* SecoreFixup: with padding enough, the padded volume has the core where it*)
(* was just when that is a multiple of eight, or, of a core that comes      *)
(* first, the end of the header; its last check fails otherwise.            *)
THEOREM FixupReaches ==
  ASSUME \A n \in Nat : Packed(n) \in Nat, NEW v, WellFormed(v), HasSecore(v),
         NEW to \in Int, PaddingSuffices(v, to - SecoreOffset(v))
  PROVE  SecoreOffset(Repadded(v, to - SecoreOffset(v))) = to
           <=> IF SecoreFirst(v) THEN to = VolumeHeader ELSE to % 8 = 0
<1>1. PICK d : d = to - SecoreOffset(v)
  OBVIOUS
<1>2. PICK z : z = Repadded(v, d)
  OBVIOUS
<1>3. SecoreOffset(v) \in Nat /\ d \in Int /\ PaddingSuffices(v, d)
  BY <1>1, OffsetsNat
<1>4. WellFormed(z) /\ Len(z) = Len(v)
  BY <1>2, <1>3, RepaddedNode
<1>5. HasSecore(z) /\ LastFile(z) = LastFile(v) /\ (SecoreFirst(z) <=> SecoreFirst(v))
  <2>0. (\A i \in Nodes(v) : z[i].kind = v[i].kind /\ z[i].up = v[i].up)
        /\ (\A i \in Nodes(v) : v[i].kind = "file" => z[i].type = v[i].type)
    BY <1>2, <1>3, RepaddedNode, SMTT(90)
  <2>1. \A i \in Nodes(v) : z[i].up = v[i].up
    BY <2>0
  <2>2. \A i \in Nodes(v) : v[i].kind = "file" => z[i].type = v[i].type
    BY <2>0
  <2>3. HasSecore(z) /\ LastFile(z) = LastFile(v)
    BY <1>4, <2>1, <2>2, SecoreKept
  <2>4. z[2].type = v[2].type
    BY <2>2, OutermostFiles
  <2> QED
    BY <2>3, <2>4 DEF SecoreFirst
<1>6. \A u : WellFormed(u) /\ HasSecore(u) =>
        IF SecoreFirst(u) THEN SecoreOffset(u) = VolumeHeader ELSE SecoreOffset(u) % 8 = 0
  <2> SUFFICES ASSUME NEW u, WellFormed(u), HasSecore(u)
               PROVE  IF SecoreFirst(u) THEN SecoreOffset(u) = VolumeHeader ELSE SecoreOffset(u) % 8 = 0
    OBVIOUS
  <2>1. /\ Len(u) \in Nat /\ u \in Seq(Node) /\ 1 \in Nodes(u) /\ u[1].kind = "volume"
        /\ 1 \in 0 .. Len(u)
    <3>1. Len(u) \in Nat /\ u \in Seq(Node) /\ 1 \in Nodes(u) /\ u[1].kind = "volume"
      BY NodesOf
    <3> QED
      BY <3>1 DEF Nodes
  <2>5. Length(u)[<<1, 1>>] = Said(u, Length(u), 1, 1)
    BY <2>1, LengthAt
  <2>2. Length(u)[<<1, 1>>] = VolumeHeader
    BY <2>1, <2>5 DEF Said
  <2>3. LastFile(u) - 1 \in 1 .. Len(u)
    <3>1. LastFile(u) \in Nodes(u) /\ 2 < PaddingFile(u) /\ PaddingFile(u) < LastFile(u) /\ PaddingFile(u) \in Nodes(u)
      BY OutermostFiles
    <3>2. PICK n \in Nat : n = Len(u) /\ Nodes(u) = 1 .. n
      BY <2>1 DEF Nodes
    <3>3. LastFile(u) \in 1 .. n /\ PaddingFile(u) \in 1 .. n
      BY <3>1, <3>2
    <3>4. PICK l, p : l = LastFile(u) /\ p = PaddingFile(u) /\ l \in 1 .. n /\ p \in 1 .. n /\ 2 < p /\ p < l
      BY <3>1, <3>3
    <3>5. l - 1 \in 1 .. n
      BY <3>4
    <3> QED
      BY <3>2, <3>4, <3>5
  <2>4. Length(u)[<<1, LastFile(u) - 1>>] % 8 = 0
    BY <2>3, FilesAligned
  <2> QED
    BY <2>2, <2>4 DEF SecoreOffset, FileOffset
<1>7. CASE SecoreFirst(v)
  BY <1>1, <1>2, <1>4, <1>5, <1>6, <1>7
<1>8. CASE ~SecoreFirst(v)
  <2>1. SecoreOffset(v) % 8 = 0 /\ SecoreOffset(z) % 8 = 0
    BY <1>4, <1>5, <1>6, <1>8
  <2>2. ASSUME to % 8 = 0
        PROVE  SecoreOffset(z) = to
    <3>1. d % 8 = 0
      BY <1>1, <1>3, <2>1, <2>2
    <3>2. v[PaddingFile(v)].type = "padding"
      BY <1>8 DEF HasSecore
    <3>3. FileOffset(z, LastFile(v)) = FileOffset(v, LastFile(v)) + d
      BY <1>2, <1>3, <3>1, <3>2, PaddingMoves
    <3>4. SecoreOffset(z) = SecoreOffset(v) + d
      BY <1>5, <1>8, <3>3 DEF SecoreOffset
    <3> QED
      BY <1>1, <1>3, <3>4
  <2> QED
    BY <1>1, <1>2, <1>8, <2>1, <2>2
<1> QED
  BY <1>7, <1>8
=============================================================================
