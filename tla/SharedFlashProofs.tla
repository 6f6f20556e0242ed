------------------------- MODULE SharedFlashProofs -------------------------
(***************************************************************************)
(* The three bridges on one flash keep what they promise over any number   *)
(* of pages, requests, failures and reboots, whatever the other two have   *)
(* left on the flash and in memory.                                        *)
(***************************************************************************)
EXTENDS SharedFlash, TLAPS

(* What is proved of the EFI's bridge alone. *)
EfiAlone == INSTANCE EfiBlockIoProofs

-----------------------------------------------------------------------------
(* The invariant.                                                           *)

Page == [0 .. 1 -> Value]

Typing ==
  /\ pages \in [0 .. Pages - 1 -> Page] /\ req \in Requests /\ buf \in [Slots -> Value]
  /\ result \in {"none", "ok", "error"} /\ faults \in 0 .. MaxFaults
  /\ lba \in Nat /\ dst \in Nat /\ blocks \in Nat /\ bio_scratch \in Page
  /\ count \in Nat /\ at \in Nat /\ scratch \in Page /\ status \in Nat
  /\ i \in Nat /\ ftl_scr \in Page /\ hurt \in BOOLEAN

(* tramp_osos_read and tramp_osos_write: unless an inner call has failed,   *)
(* the blocks before lba are served, and the scratch that is to be stored   *)
(* is the page with one block spliced in.  The run of whole pages is even.  *)
RetailWalk ==
  pc # "idle" =>
    /\ pc \in {"head", "body", "tail", "store", "end"}
    /\ lba = req.lba + at /\ count = req.count - at
    /\ pc = "head" => lba % 2 = 1 /\ count > 0
    /\ pc = "body" => lba % 2 = 0 /\ count >= 2
    /\ pc = "tail" => count = 1
    /\ pc = "end" => count = 0
    /\ pc = "store" =>
         /\ req.op = "write" /\ count > 0 /\ (lba % 2 = 1 \/ count = 1)
         /\ status = 0 => scratch = [pages[lba \div 2] EXCEPT ![lba % 2] = buf[at]]
    /\ status = 0 => \A b \in req.lba .. (lba - 1) : blocksOf[b] = buf[b - req.lba]

(* tramp_ftl_rd and tramp_ftl_wr likewise.  The scratch holds the block at  *)
(* sec, and next to it nothing from another page.                           *)
sec == req.lba + i
DiskWalk ==
  pc # "idle" =>
    /\ pc \in {"fast", "loop", "store"} /\ i <= req.count
    /\ pc = "fast" => i = 0 /\ ~hurt /\ req.lba % 2 = 0 /\ req.count % 2 = 0
    /\ req.op = "write" => buf = Payload(req)
    /\ pc = "store" =>
         /\ req.op = "write" /\ i < req.count /\ ftl_scr[sec % 2] = buf[i]
         /\ ~hurt => ftl_scr = [pages[sec \div 2] EXCEPT ![sec % 2] = buf[i]]
         /\ \A h \in 0 .. 1 :
              h = sec % 2 \/ ftl_scr[h] \in {pages[sec \div 2][h], Erased, Junk}
    /\ ~hurt => \A b \in req.lba .. (sec - 1) : blocksOf[b] = buf[b - req.lba]

SharedInv ==
  /\ Typing /\ mode \in {"efi", "osos", "disk"}
  /\ mode = "efi" => pc \in {"idle", "loop", "store"} /\ EfiAlone!Walk
  /\ mode = "osos" => RetailWalk
  /\ mode = "disk" => DiskWalk

-----------------------------------------------------------------------------
(* Blocks and pages.                                                        *)

LEMMA Halves ==
  ASSUME NEW b \in Nat
  PROVE  /\ b \div 2 \in Nat /\ b % 2 \in 0 .. 1 /\ b = 2 * (b \div 2) + (b % 2)
         /\ b \in Blocks <=> b \div 2 \in 0 .. Pages - 1
<1>1. b \div 2 \in Nat /\ b % 2 \in 0 .. 1 /\ b = 2 * (b \div 2) + (b % 2)
  OBVIOUS
<1>2. QED
  BY <1>1, StorageAssumption DEF Blocks

LEMMA BothHalves ==
  ASSUME NEW p \in 0 .. Pages - 1, NEW h \in 0 .. 1
  PROVE  2 * p + h \in Blocks /\ (2 * p + h) \div 2 = p /\ (2 * p + h) % 2 = h
BY StorageAssumption DEF Blocks

LEMMA BlankPages == Erased \in Value /\ Junk \in Value
                    /\ [h \in 0 .. 1 |-> Erased] \in Page /\ [h \in 0 .. 1 |-> Junk] \in Page
BY DEF Value, Page

LEMMA BlocksAreValues ==
  ASSUME NEW P \in [0 .. Pages - 1 -> Page]
  PROVE  [b \in Blocks |-> P[b \div 2][b % 2]] \in [Blocks -> Value]
<1>1. \A b \in Blocks : b \div 2 \in 0 .. Pages - 1 /\ b % 2 \in 0 .. 1
  BY Halves DEF Blocks
<1>2. \A b \in Blocks : P[b \div 2][b % 2] \in Value
  BY <1>1 DEF Page
<1>3. QED
  BY <1>2

(* A page stored changes its two blocks.                                    *)
LEMMA PageStored ==
  ASSUME pages \in [0 .. Pages - 1 -> Page], NEW p \in 0 .. Pages - 1, NEW s \in Page,
         pages' = [pages EXCEPT ![p] = s]
  PROVE  /\ pages' \in [0 .. Pages - 1 -> Page] /\ blocksOf' \in [Blocks -> Value]
         /\ \A b \in Blocks : blocksOf'[b] = IF b \div 2 = p THEN s[b % 2] ELSE blocksOf[b]
<1>1. pages' \in [0 .. Pages - 1 -> Page]
  OBVIOUS
<1>2. blocksOf' = [b \in Blocks |-> pages'[b \div 2][b % 2]]
  BY DEF blocksOf
<1>3. blocksOf' \in [Blocks -> Value]
  BY <1>1, <1>2, BlocksAreValues
<1>4. ASSUME NEW b \in Blocks
      PROVE  blocksOf'[b] = IF b \div 2 = p THEN s[b % 2] ELSE blocksOf[b]
  <2>1. b \div 2 \in 0 .. Pages - 1
    BY Halves DEF Blocks
  <2>2. QED
    BY <1>2, <2>1 DEF blocksOf
<1>5. QED
  BY <1>1, <1>3, <1>4

(* The pages of S rewritten, block by block from F.                         *)
LEMMA PagesRewritten ==
  ASSUME pages \in [0 .. Pages - 1 -> Page], NEW S \in SUBSET (0 .. Pages - 1),
         NEW F \in [Blocks -> Value],
         pages' = [p \in 0 .. Pages - 1 |->
                     IF p \in S THEN [h \in 0 .. 1 |-> F[2 * p + h]] ELSE pages[p]]
  PROVE  /\ pages' \in [0 .. Pages - 1 -> Page] /\ blocksOf' \in [Blocks -> Value]
         /\ \A b \in Blocks : blocksOf'[b] = IF b \div 2 \in S THEN F[b] ELSE blocksOf[b]
<1>1. ASSUME NEW p \in 0 .. Pages - 1 PROVE pages'[p] \in Page
  <2>1. CASE p \in S
    <3>1. \A h \in 0 .. 1 : F[2 * p + h] \in Value
      BY BothHalves
    <3>2. QED
      BY <2>1, <3>1 DEF Page
  <2>2. CASE p \notin S
    BY <2>2
  <2>3. QED
    BY <2>1, <2>2
<1>2. pages' \in [0 .. Pages - 1 -> Page]
  BY <1>1
<1>3. blocksOf' = [b \in Blocks |-> pages'[b \div 2][b % 2]]
  BY DEF blocksOf
<1>4. blocksOf' \in [Blocks -> Value]
  BY <1>2, <1>3, BlocksAreValues
<1>5. ASSUME NEW b \in Blocks
      PROVE  blocksOf'[b] = IF b \div 2 \in S THEN F[b] ELSE blocksOf[b]
  <2>1. b \div 2 \in 0 .. Pages - 1 /\ b % 2 \in 0 .. 1 /\ b = 2 * (b \div 2) + (b % 2)
    BY Halves DEF Blocks
  <2>2. blocksOf'[b] = pages'[b \div 2][b % 2]
    BY <1>3
  <2>3. CASE b \div 2 \in S
    BY <2>1, <2>2, <2>3
  <2>4. CASE b \div 2 \notin S
    BY <2>1, <2>2, <2>4 DEF blocksOf
  <2>5. QED
    BY <2>3, <2>4
<1>6. QED
  BY <1>2, <1>4, <1>5

(* The payload of a request is made of block values, each block's its own.  *)
LEMMA PayloadType ==
  ASSUME NEW r \in Requests
  PROVE  /\ Payload(r) \in [Slots -> Value]
         /\ r.op = "write" => \A k \in Slots : k < r.count => Payload(r)[k].addr = r.lba + k
<1>1. /\ r.lba \in Nat /\ r.count \in Nat /\ r.ver \in Versions
      /\ r.lba + r.count <= 2 * Pages /\ r.count <= Buffer
  BY StorageAssumption DEF Request
<1>2. ASSUME NEW k \in Slots, k < r.count
      PROVE  [addr |-> r.lba + k, ver |-> r.ver] \in Value
  <2>1. r.lba + k \in Blocks
    BY <1>1, <1>2, StorageAssumption DEF Slots, Blocks
  <2>2. QED
    BY <1>1, <2>1 DEF Value
<1>3. QED
  BY <1>2, BlankPages DEF Payload

LEMMA RequestFields ==
  ASSUME Typing
  PROVE  /\ req.lba \in Nat /\ req.count \in Nat /\ req.op \in {"read", "write"}
         /\ req.lba + req.count <= 2 * Pages /\ req.count <= Buffer
         /\ Pages \in Nat /\ Buffer \in Nat
BY StorageAssumption DEF Typing, Request

-----------------------------------------------------------------------------
(* The EFI.                                                                 *)

LEMMA EfiAssumptions == EfiAlone!StorageAssumption /\ EfiAlone!FaultAssumption
<1>1. EfiAlone!Request = Request
  BY DEF EfiAlone!Request, Request
<1>2. QED
  BY <1>1, StorageAssumption, SharedAssumption
     DEF EfiAlone!StorageAssumption, EfiAlone!FaultAssumption

(* The actions of the bridge as the flash is shared are those proved about. *)
LEMMA EfiSameStep == Efi!Next => EfiAlone!Next
<1>1. \A r : Efi!Submit(r) => EfiAlone!Submit(r)
  <2>1. \A r : Efi!Payload(r) = EfiAlone!Payload(r)
    BY DEF Efi!Payload, EfiAlone!Payload, Efi!Slots, EfiAlone!Slots, Efi!Erased, EfiAlone!Erased
  <2>2. QED
    BY <2>1 DEF Efi!Submit, EfiAlone!Submit
<1>2. Efi!BadParameter => EfiAlone!BadParameter
  BY DEF Efi!BadParameter, EfiAlone!BadParameter, Efi!Return, EfiAlone!Return,
         Efi!Leave, EfiAlone!Leave
<1>3. Efi!Done => EfiAlone!Done
  BY DEF Efi!Done, EfiAlone!Done, Efi!Return, EfiAlone!Return, Efi!Leave, EfiAlone!Leave
<1>4. Efi!AlignedXfer => EfiAlone!AlignedXfer
  <2>1. Efi!RunRead = EfiAlone!RunRead
    BY DEF Efi!RunRead, EfiAlone!RunRead, Efi!Run, EfiAlone!Run, Efi!Slots, EfiAlone!Slots,
           Efi!Page0, EfiAlone!Page0, Efi!Half, EfiAlone!Half
  <2>2. /\ Efi!RunPages = EfiAlone!RunPages
        /\ \A S : Efi!RunWritten(S) = EfiAlone!RunWritten(S)
    BY DEF Efi!RunWritten, EfiAlone!RunWritten, Efi!Run, EfiAlone!Run, Efi!Slot, EfiAlone!Slot,
           Efi!RunPages, EfiAlone!RunPages, Efi!Page0, EfiAlone!Page0
  <2>3. QED
    BY <2>1, <2>2 DEF Efi!AlignedXfer, EfiAlone!AlignedXfer, Efi!Aligned, EfiAlone!Aligned,
       Efi!Continue, EfiAlone!Continue, Efi!Half, EfiAlone!Half
<1>5. Efi!AlignedXferFails => EfiAlone!AlignedXferFails
  <2>1. /\ Efi!RunPages = EfiAlone!RunPages /\ Efi!Run = EfiAlone!Run
        /\ Efi!Slots = EfiAlone!Slots /\ Efi!Junk = EfiAlone!Junk
        /\ \A S : Efi!RunWritten(S) = EfiAlone!RunWritten(S)
    BY DEF Efi!RunWritten, EfiAlone!RunWritten, Efi!Run, EfiAlone!Run, Efi!Slot, EfiAlone!Slot,
           Efi!RunPages, EfiAlone!RunPages, Efi!Page0, EfiAlone!Page0, Efi!Slots,
           EfiAlone!Slots, Efi!Junk, EfiAlone!Junk
  <2>2. QED
    BY <2>1 DEF Efi!AlignedXferFails, EfiAlone!AlignedXferFails, Efi!Aligned, EfiAlone!Aligned,
       Efi!Fault, EfiAlone!Fault, Efi!Return, EfiAlone!Return, Efi!Leave, EfiAlone!Leave,
       Efi!Half, EfiAlone!Half
<1>6. Efi!PartialFetch => EfiAlone!PartialFetch
  BY DEF Efi!PartialFetch, EfiAlone!PartialFetch, Efi!Partial, EfiAlone!Partial,
         Efi!Continue, EfiAlone!Continue, Efi!Half, EfiAlone!Half, Efi!Page0, EfiAlone!Page0
<1>7. Efi!PartialFetchFails => EfiAlone!PartialFetchFails
  BY DEF Efi!PartialFetchFails, EfiAlone!PartialFetchFails, Efi!Partial, EfiAlone!Partial,
         Efi!Fault, EfiAlone!Fault, Efi!Return, EfiAlone!Return, Efi!Leave, EfiAlone!Leave,
         Efi!Half, EfiAlone!Half, Efi!Junk, EfiAlone!Junk
<1>8. Efi!PartialStore => EfiAlone!PartialStore
  BY DEF Efi!PartialStore, EfiAlone!PartialStore, Efi!Continue, EfiAlone!Continue,
         Efi!Page0, EfiAlone!Page0
<1>9. Efi!PartialStoreFails => EfiAlone!PartialStoreFails
  BY DEF Efi!PartialStoreFails, EfiAlone!PartialStoreFails, Efi!Fault, EfiAlone!Fault,
         Efi!Return, EfiAlone!Return, Efi!Leave, EfiAlone!Leave, Efi!Page0, EfiAlone!Page0
<1>10. Efi!PowerLoss => EfiAlone!PowerLoss
  BY DEF Efi!PowerLoss, EfiAlone!PowerLoss, Efi!Leave, EfiAlone!Leave, Efi!Erased,
         EfiAlone!Erased
<1>11. QED
  BY <1>1, <1>2, <1>3, <1>4, <1>5, <1>6, <1>7, <1>8, <1>9, <1>10 DEF Efi!Next, EfiAlone!Next

(* So is the device they are to be like.                                    *)
LEMMA EfiSameDevice ==
  /\ EfiAlone!disk = blocksOf
  /\ EfiAlone!Store!Next => Perfect!Next
  /\ UNCHANGED EfiAlone!Store!storeVars => UNCHANGED Perfect!storeVars
<1>1. EfiAlone!disk = blocksOf /\ EfiAlone!disk' = blocksOf'
  BY DEF EfiAlone!disk, blocksOf, EfiAlone!Page0, EfiAlone!Half, EfiAlone!Blocks, Blocks
<1>2. \A r : EfiAlone!Store!Submit(r) => Perfect!Submit(r)
  <2>1. \A r : EfiAlone!Store!Payload(r) = Perfect!Payload(r)
    BY DEF EfiAlone!Store!Payload, Perfect!Payload, EfiAlone!Store!Slots,
           Perfect!Slots, EfiAlone!Store!Erased, Perfect!Erased
  <2>2. QED
    BY <1>1, <2>1 DEF EfiAlone!Store!Submit, Perfect!Submit, phase
<1>3. EfiAlone!Store!Served = Perfect!Served /\ EfiAlone!Store!Served' = Perfect!Served'
  BY <1>1 DEF EfiAlone!Store!Served, Perfect!Served, EfiAlone!Store!Target, Perfect!Target
<1>4. EfiAlone!Store!Answer => Perfect!Answer
  BY <1>1, <1>3 DEF EfiAlone!Store!Answer, Perfect!Answer, phase
<1>5. EfiAlone!Store!Goes => Perfect!Goes
  BY <1>4 DEF EfiAlone!Store!Goes, Perfect!Goes, phase
<1>6. EfiAlone!Store!WriteBlocks => Perfect!WriteBlocks
  <2>1. /\ EfiAlone!Store!Blocks = Perfect!Blocks /\ EfiAlone!Store!Value = Perfect!Value
        /\ EfiAlone!Store!Target(req) = Perfect!Target(req)
    BY DEF EfiAlone!Store!Blocks, Perfect!Blocks, EfiAlone!Store!Value, Perfect!Value,
           EfiAlone!Store!Target, Perfect!Target, EfiAlone!Store!Erased,
           Perfect!Erased, EfiAlone!Store!Junk, Perfect!Junk
  <2>2. QED
    BY <1>1, <1>5, <2>1 DEF EfiAlone!Store!WriteBlocks, Perfect!WriteBlocks, phase
<1>7. EfiAlone!Store!ReadBlocks => Perfect!ReadBlocks
  <2>1. EfiAlone!Store!Slots = Perfect!Slots /\ EfiAlone!Store!Value = Perfect!Value
    BY DEF EfiAlone!Store!Slots, Perfect!Slots, EfiAlone!Store!Value, Perfect!Value,
           EfiAlone!Store!Blocks, Perfect!Blocks, EfiAlone!Store!Erased,
           Perfect!Erased, EfiAlone!Store!Junk, Perfect!Junk
  <2>2. QED
    BY <1>1, <1>5, <2>1 DEF EfiAlone!Store!ReadBlocks, Perfect!ReadBlocks, phase
<1>8. EfiAlone!Store!Reply \/ EfiAlone!Store!PowerLoss => Perfect!Reply \/ Perfect!PowerLoss
  BY <1>1, <1>4 DEF EfiAlone!Store!Reply, Perfect!Reply, EfiAlone!Store!PowerLoss,
         Perfect!PowerLoss, phase
<1>9. EfiAlone!Store!Next => Perfect!Next
  BY <1>2, <1>6, <1>7, <1>8 DEF EfiAlone!Store!Next, Perfect!Next
<1>10. UNCHANGED EfiAlone!Store!storeVars => UNCHANGED Perfect!storeVars
  BY <1>1 DEF EfiAlone!Store!storeVars, Perfect!storeVars, phase
<1>11. QED
  BY <1>1, <1>9, <1>10

(* A step of the EFI keeps the invariant and is one of a perfect device.    *)
LEMMA EfiKeeps ==
  ASSUME SharedInv, EfiStep
  PROVE  SharedInv' /\ [Perfect!Next]_Perfect!storeVars
<1>1. EfiAlone!TypeOK
  <2>1. EfiAlone!Page = Page /\ EfiAlone!Slots = Slots /\ EfiAlone!Value = Value
    BY DEF EfiAlone!Page, Page, EfiAlone!Slots, Slots, EfiAlone!Value, Value, EfiAlone!Blocks,
           Blocks, EfiAlone!Erased, Erased, EfiAlone!Junk, Junk
  <2>2. QED
    BY <2>1 DEF EfiAlone!TypeOK, SharedInv, Typing, EfiStep
<1>2. EfiAlone!TypeOK' /\ EfiAlone!Walk' /\ [EfiAlone!Store!Next]_EfiAlone!Store!storeVars
  BY <1>1, EfiAlone!Step, EfiAssumptions, EfiSameStep DEF EfiStep, SharedInv
<1>3. SharedInv'
  <2>1. EfiAlone!Page = Page /\ EfiAlone!Slots = Slots /\ EfiAlone!Value = Value
    BY DEF EfiAlone!Page, Page, EfiAlone!Slots, Slots, EfiAlone!Value, Value, EfiAlone!Blocks,
           Blocks, EfiAlone!Erased, Erased, EfiAlone!Junk, Junk
  <2>2. Typing'
    BY <1>2, <2>1 DEF EfiAlone!TypeOK, SharedInv, Typing, EfiStep, osos, disk
  <2>3. QED
    BY <1>2, <2>2 DEF EfiAlone!TypeOK, SharedInv, EfiStep
<1>4. QED
  BY <1>2, <1>3, EfiSameDevice

-----------------------------------------------------------------------------
(* RetailOS.                                                                *)

LEMMA RetailSame ==
  /\ RetailOS!Slots = Slots /\ RetailOS!Blocks = Blocks
  /\ RetailOS!Erased = Erased /\ RetailOS!Junk = Junk
  /\ Reporting!Slots = Slots /\ Reporting!Blocks = Blocks /\ Reporting!Value = Value
  /\ \A r : /\ RetailOS!Payload(r) = Payload(r) /\ Reporting!Payload(r) = Payload(r)
            /\ Reporting!Target(r) = Target(r)
<1>1. /\ RetailOS!Slots = Slots /\ RetailOS!Blocks = Blocks
      /\ RetailOS!Erased = Erased /\ RetailOS!Junk = Junk
      /\ Reporting!Slots = Slots /\ Reporting!Blocks = Blocks
      /\ Reporting!Erased = Erased /\ Reporting!Junk = Junk
  BY DEF RetailOS!Slots, Slots, RetailOS!Blocks, Blocks, RetailOS!Erased, Erased,
         RetailOS!Junk, Junk, Reporting!Slots, Reporting!Blocks, Reporting!Erased,
         Reporting!Junk
<1>2. Reporting!Value = Value
  BY <1>1 DEF Reporting!Value, Value
<1>3. \A r : /\ RetailOS!Payload(r) = Payload(r) /\ Reporting!Payload(r) = Payload(r)
             /\ Reporting!Target(r) = Target(r)
  BY <1>1 DEF RetailOS!Payload, Payload, Reporting!Payload, Reporting!Target, Target
<1>4. QED
  BY <1>1, <1>2, <1>3

(* accum_status: a code once kept stays, and a failure leaves one.          *)
LEMMA StatusKept ==
  ASSUME Typing, RetailOS!Succeeds \/ \E rc \in Codes : RetailOS!FailsWith(rc)
  PROVE  /\ status' \in Nat /\ faults' \in 0 .. MaxFaults
         /\ status' = 0 => status = 0 /\ ~\E rc \in Codes : RetailOS!FailsWith(rc)
BY SharedAssumption
   DEF Typing, RetailOS!Succeeds, RetailOS!FailsWith, RetailOS!accum_status

(* The next block is inside the device, the request and the buffer.         *)
LEMMA RetailInside ==
  ASSUME Typing, RetailWalk, pc # "idle", NEW n \in Nat, n > 0, n <= count
  PROVE  /\ lba \in Blocks /\ at \in Slots /\ lba \in Target(req)
         /\ at + n <= req.count /\ lba = req.lba + at /\ lba + n <= 2 * Pages
         /\ \A b \in req.lba .. (lba + n - 1) :
              b \in Blocks /\ b \in Target(req) /\ b - req.lba \in Slots
<1>1. /\ lba = req.lba + at /\ count = req.count - at
      /\ lba \in Nat /\ at \in Nat /\ count \in Nat
  BY DEF RetailWalk, Typing
<1>2. QED
  BY <1>1, RequestFields DEF Blocks, Slots, Target

(* The trampoline is n blocks further.                                      *)
LEMMA Advanced ==
  ASSUME Typing, RetailWalk, pc # "idle", NEW n \in Nat, n > 0, n <= count,
         n = count \/ (lba + n) % 2 = 0, RetailOS!Advance(n),
         status' = 0 =>
           \A b \in req.lba .. (lba + n - 1) : blocksOf'[b] = buf'[b - req.lba]
  PROVE  /\ RetailWalk' /\ pc' # "idle" /\ UNCHANGED <<req, result>>
         /\ lba' \in Nat /\ count' \in Nat /\ at' \in Nat
<1>1. /\ lba = req.lba + at /\ count = req.count - at
      /\ lba \in Nat /\ at \in Nat /\ count \in Nat
  BY DEF RetailWalk, Typing
<1>2. (count - n) % WordSize = count - n
  <2>1. count - n \in Nat /\ count - n < WordSize /\ WordSize \in Nat
    BY <1>1, RequestFields, SharedAssumption
  <2>2. QED
    BY <2>1, SMT
<1>3. /\ lba' = lba + n /\ at' = at + n /\ count' = count - n /\ UNCHANGED <<req, result>>
      /\ pc' = IF count - n = 0 THEN "end" ELSE RetailOS!BodyOrTail(count - n)
  BY <1>2 DEF RetailOS!Advance
<1>4. lba' \in Nat /\ count' \in Nat /\ at' \in Nat
  BY <1>1, <1>3
<1>5. /\ pc' \in {"body", "tail", "end"}
      /\ pc' = "body" => lba' % 2 = 0 /\ count' >= 2
      /\ pc' = "tail" => count' = 1
      /\ pc' = "end" => count' = 0
  BY <1>1, <1>3 DEF RetailOS!BodyOrTail
<1>6. lba' = req'.lba + at' /\ count' = req'.count - at' /\ lba' - 1 = lba + n - 1
  BY <1>1, <1>3, RequestFields
<1>7. QED
  BY <1>3, <1>4, <1>5, <1>6 DEF RetailWalk

(* tramp_osos_*: the request is taken.                                      *)
LEMMA RetailSubmit ==
  ASSUME Typing, UNCHANGED <<efi, disk>>, NEW r \in Requests, RetailOS!Submit(r)
  PROVE  Typing' /\ RetailWalk' /\ Reporting!Submit(r)
<1>1. /\ r.lba \in Nat /\ r.count \in Nat
  BY StorageAssumption DEF Request
<1>2. Typing'
  BY <1>1, PayloadType, RetailSame DEF Typing, RetailOS!Submit, efi, disk
<1>3. RetailWalk'
  <2>1. /\ req' = r /\ lba' = r.lba /\ count' = r.count /\ at' = 0
        /\ pc' = RetailOS!Entry(r)
    BY DEF RetailOS!Submit
  <2>2. /\ pc' \in {"head", "body", "tail", "end"}
        /\ pc' = "head" => lba' % 2 = 1 /\ count' > 0
        /\ pc' = "body" => lba' % 2 = 0 /\ count' >= 2
        /\ pc' = "tail" => count' = 1
        /\ pc' = "end" => count' = 0
    BY <1>1, <2>1 DEF RetailOS!Entry, RetailOS!BodyOrTail, RetailOS!Half
  <2>3. QED
    BY <1>1, <2>1, <2>2 DEF RetailWalk
<1>4. Reporting!Submit(r)
  <2>1. pc' # "idle"
    BY DEF RetailOS!Submit, RetailOS!Entry, RetailOS!BodyOrTail
  <2>2. blocksOf' = blocksOf
    BY DEF RetailOS!Submit, blocksOf
  <2>3. QED
    BY <2>1, <2>2, RetailSame DEF Reporting!Submit, RetailOS!Submit, phase
<1>5. QED
  BY <1>2, <1>3, <1>4

(* Head or tail of a read: one block into the buffer.                       *)
LEMMA RetailPartialRead ==
  ASSUME Typing, RetailWalk, UNCHANGED <<efi, disk>>, RetailOS!PartialRead
  PROVE  Typing' /\ RetailWalk' /\ Reporting!ReadBlocks
<1>1. /\ pc \in {"head", "tail"} /\ pc # "idle" /\ req.op = "read" /\ RetailOS!Advance(1)
      /\ UNCHANGED pages
  BY DEF RetailOS!PartialRead
<1>2. PICK s : /\ RetailOS!Fetch(s) /\ scratch' = s
               /\ s \in {pages[lba \div 2], scratch, [h \in 0 .. 1 |-> Junk]}
               /\ buf' = [buf EXCEPT ![at] = s[lba % 2]]
  BY RetailSame DEF RetailOS!PartialRead, RetailOS!Page0, RetailOS!Half
<1>3. count >= 1 /\ (1 = count \/ (lba + 1) % 2 = 0)
  BY <1>1 DEF RetailWalk, Typing
<1>4. /\ lba \in Blocks /\ at \in Slots /\ lba \in Target(req)
      /\ at + 1 <= req.count /\ lba = req.lba + at /\ count \in Nat /\ at \in Nat
      /\ \A b \in req.lba .. (lba + 1 - 1) : b \in Blocks /\ b - req.lba \in Slots
  BY <1>1, <1>3, RetailInside DEF Typing
<1>5. lba \div 2 \in 0 .. Pages - 1 /\ lba % 2 \in 0 .. 1
  BY <1>4, Halves DEF Blocks
<1>6. s \in Page /\ s[lba % 2] \in Value
  BY <1>2, <1>5, BlankPages DEF Typing, Page
<1>7. /\ status' \in Nat /\ faults' \in 0 .. MaxFaults
      /\ status' = 0 => status = 0 /\ s = pages[lba \div 2]
  <2>1. RetailOS!Succeeds \/ \E rc \in Codes : RetailOS!FailsWith(rc)
    BY <1>2 DEF RetailOS!Fetch
  <2>2. QED
    BY <1>2, <2>1, StatusKept DEF RetailOS!Fetch, RetailOS!Page0
<1>8. blocksOf' = blocksOf /\ blocksOf \in [Blocks -> Value]
  BY <1>1, BlocksAreValues DEF blocksOf, Typing
<1>9. buf' \in [Slots -> Value]
  BY <1>2, <1>4, <1>6 DEF Typing
<1>10. ASSUME status' = 0, NEW b \in req.lba .. (lba + 1 - 1)
       PROVE  blocksOf'[b] = buf'[b - req.lba]
  <2>1. b - req.lba \in Slots /\ req.lba \in Nat /\ b \in Nat
    BY <1>4, RequestFields
  <2>2. CASE b = lba
    <3>1. b - req.lba = at
      BY <1>4, <2>1, <2>2
    <3>2. buf'[at] = pages[lba \div 2][lba % 2]
      BY <1>2, <1>4, <1>7, <1>10 DEF Typing
    <3>3. QED
      BY <1>4, <1>8, <2>2, <3>1, <3>2 DEF blocksOf
  <2>3. CASE b # lba
    <3>1. b \in req.lba .. (lba - 1) /\ b - req.lba # at
      BY <1>4, <2>1, <2>3
    <3>2. blocksOf[b] = buf[b - req.lba]
      BY <1>1, <1>7, <1>10, <3>1 DEF RetailWalk
    <3>3. QED
      BY <1>2, <1>8, <2>1, <3>1, <3>2 DEF Typing
  <2>4. QED
    BY <2>2, <2>3
<1>11. /\ RetailWalk' /\ pc' # "idle" /\ UNCHANGED <<req, result>>
       /\ lba' \in Nat /\ count' \in Nat /\ at' \in Nat
  BY <1>1, <1>3, <1>4, <1>10, Advanced
<1>12. Typing'
  BY <1>1, <1>2, <1>6, <1>7, <1>9, <1>11 DEF Typing, efi, disk
<1>13. Reporting!ReadBlocks
  <2>1. Reporting!Goes
    BY <1>1, <1>7, <1>11 DEF Reporting!Goes, phase
  <2>2. \A k \in Slots : k >= req.count => buf'[k] = buf[k]
    BY <1>2, <1>4, RequestFields DEF Typing, Slots
  <2>3. QED
    BY <1>1, <1>8, <1>9, <1>11, <2>1, <2>2, RetailSame DEF Reporting!ReadBlocks, phase
<1>14. QED
  BY <1>11, <1>12, <1>13

(* Head or tail of a write: the page fetched and one block spliced in.      *)
LEMMA RetailPartialFetch ==
  ASSUME Typing, RetailWalk, UNCHANGED <<efi, disk>>, RetailOS!PartialFetch
  PROVE  Typing' /\ RetailWalk' /\ Reporting!WriteBlocks
<1>1. /\ pc \in {"head", "tail"} /\ pc # "idle" /\ req.op = "write" /\ pc' = "store"
      /\ UNCHANGED <<pages, req, buf, result, lba, count, at>>
  BY DEF RetailOS!PartialFetch
<1>2. PICK s : /\ RetailOS!Fetch(s) /\ scratch' = [s EXCEPT ![lba % 2] = buf[at]]
               /\ s \in {pages[lba \div 2], scratch, [h \in 0 .. 1 |-> Junk]}
  BY RetailSame DEF RetailOS!PartialFetch, RetailOS!Page0, RetailOS!Half
<1>3. count > 0 /\ (lba % 2 = 1 \/ count = 1) /\ count \in Nat
  BY <1>1 DEF RetailWalk, Typing
<1>4. lba \in Blocks /\ at \in Slots
  BY <1>1, <1>3, RetailInside
<1>5. lba \div 2 \in 0 .. Pages - 1 /\ lba % 2 \in 0 .. 1
  BY <1>4, Halves DEF Blocks
<1>6. scratch' \in Page
  BY <1>2, <1>4, <1>5, BlankPages DEF Typing, Page
<1>7. /\ status' \in Nat /\ faults' \in 0 .. MaxFaults
      /\ status' = 0 => status = 0 /\ s = pages[lba \div 2]
  <2>1. RetailOS!Succeeds \/ \E rc \in Codes : RetailOS!FailsWith(rc)
    BY <1>2 DEF RetailOS!Fetch
  <2>2. QED
    BY <1>2, <2>1, StatusKept DEF RetailOS!Fetch, RetailOS!Page0
<1>8. blocksOf' = blocksOf /\ blocksOf \in [Blocks -> Value]
  BY <1>1, BlocksAreValues DEF blocksOf, Typing
<1>9. Typing'
  BY <1>1, <1>6, <1>7 DEF Typing, efi, disk
<1>10. RetailWalk'
  <2>1. status' = 0 => scratch' = [pages'[lba' \div 2] EXCEPT ![lba' % 2] = buf'[at']]
    BY <1>1, <1>2, <1>7
  <2>2. status' = 0 => \A b \in req'.lba .. (lba' - 1) : blocksOf'[b] = buf'[b - req'.lba]
    BY <1>1, <1>7, <1>8 DEF RetailWalk
  <2>3. QED
    BY <1>1, <1>3, <2>1, <2>2 DEF RetailWalk
<1>11. Reporting!WriteBlocks
  BY <1>1, <1>7, <1>8, RetailSame DEF Reporting!WriteBlocks, Reporting!Goes, phase
<1>12. QED
  BY <1>9, <1>10, <1>11

(* The page back to the flash.  The other half of a page that could not be  *)
(* read is lost with it, and the code that says so is kept.                 *)
LEMMA RetailPartialStore ==
  ASSUME Typing, RetailWalk, UNCHANGED <<efi, disk>>, RetailOS!PartialStore
  PROVE  Typing' /\ RetailWalk' /\ Reporting!WriteBlocks
<1> DEFINE p == lba \div 2
<1>1. /\ pc = "store" /\ pc # "idle" /\ RetailOS!Advance(1) /\ UNCHANGED <<buf, scratch>>
      /\ RetailOS!Succeeds \/ \E rc \in Codes : RetailOS!FailsWith(rc)
      /\ pages' \in {pages, [pages EXCEPT ![p] = scratch]}
      /\ pages' = [pages EXCEPT ![p] = scratch] \/ \E rc \in Codes : RetailOS!FailsWith(rc)
  BY DEF RetailOS!PartialStore, RetailOS!Page0
<1>2. /\ req.op = "write" /\ count > 0 /\ count \in Nat /\ 1 <= count
      /\ 1 = count \/ (lba + 1) % 2 = 0
      /\ status = 0 => scratch = [pages[p] EXCEPT ![lba % 2] = buf[at]]
  BY <1>1 DEF RetailWalk, Typing
<1>3. /\ lba \in Blocks /\ at \in Slots /\ lba \in Target(req) /\ lba = req.lba + at
      /\ \A b \in req.lba .. (lba + 1 - 1) : b \in Blocks /\ b - req.lba \in Slots
  BY <1>1, <1>2, RetailInside
<1>4. p \in 0 .. Pages - 1 /\ lba % 2 \in 0 .. 1 /\ lba = 2 * p + (lba % 2)
  BY <1>3, Halves DEF Blocks
<1> HIDE DEF p
<1>5. /\ status' \in Nat /\ faults' \in 0 .. MaxFaults
      /\ status' = 0 => status = 0 /\ pages' = [pages EXCEPT ![p] = scratch]
  BY <1>1, StatusKept
<1>6. /\ pages \in [0 .. Pages - 1 -> Page] /\ scratch \in Page
  BY DEF Typing
<1>7. /\ pages' \in [0 .. Pages - 1 -> Page] /\ blocksOf' \in [Blocks -> Value]
      /\ \A b \in Blocks :
           blocksOf'[b] = blocksOf[b] \/ (b \div 2 = p /\ blocksOf'[b] = scratch[b % 2])
      /\ status' = 0 => \A b \in Blocks :
           blocksOf'[b] = IF b \div 2 = p THEN scratch[b % 2] ELSE blocksOf[b]
  <2>1. CASE pages' = [pages EXCEPT ![p] = scratch]
    BY <1>4, <1>6, <2>1, PageStored
  <2>2. CASE pages' = pages /\ status' # 0
    BY <1>6, <2>2, BlocksAreValues DEF blocksOf
  <2>3. QED
    BY <1>1, <1>5, <2>1, <2>2
(* Where nothing has failed, the block at lba is the one that changes.      *)
<1>8. ASSUME status' = 0, NEW b \in Blocks
      PROVE  blocksOf'[b] = IF b = lba THEN buf[at] ELSE blocksOf[b]
  <2>1. /\ b \div 2 \in 0 .. Pages - 1 /\ b % 2 \in 0 .. 1
        /\ b = 2 * (b \div 2) + (b % 2)
    BY Halves DEF Blocks
  <2>2. scratch = [pages[p] EXCEPT ![lba % 2] = buf[at]] /\ pages[p] \in Page
    BY <1>2, <1>4, <1>5, <1>6, <1>8
  <2>3. CASE b = lba
    <3>1. b \div 2 = p
      BY <2>3 DEF p
    <3>2. scratch[b % 2] = buf[at]
      BY <1>4, <2>2, <2>3 DEF Page
    <3>3. QED
      BY <1>7, <1>8, <2>3, <3>1, <3>2
  <2>4. CASE b # lba /\ b \div 2 = p
    <3>1. b % 2 # lba % 2
      BY <1>4, <2>1, <2>4
    <3>2. scratch[b % 2] = pages[p][b % 2]
      BY <1>4, <2>1, <2>2, <3>1 DEF Page
    <3>3. QED
      BY <1>7, <1>8, <2>4, <3>2 DEF blocksOf
  <2>5. CASE b \div 2 # p
    <3>1. b # lba
      BY <2>5 DEF p
    <3>2. QED
      BY <1>7, <1>8, <2>5, <3>1
  <2>6. QED
    BY <2>3, <2>4, <2>5
<1>9. ASSUME status' = 0, NEW b \in req.lba .. (lba + 1 - 1)
      PROVE  blocksOf'[b] = buf'[b - req.lba]
  <2>1. b \in Blocks /\ req.lba \in Nat /\ b \in Nat /\ lba \in Nat
    BY <1>3, RequestFields DEF Blocks
  <2>2. CASE b = lba
    <3>1. b - req.lba = at
      BY <1>3, <2>1, <2>2 DEF Slots
    <3>2. QED
      BY <1>1, <1>8, <1>9, <2>1, <2>2, <3>1
  <2>3. CASE b # lba
    <3>1. b \in req.lba .. (lba - 1)
      BY <2>1, <2>3
    <3>2. blocksOf[b] = buf[b - req.lba]
      BY <1>1, <1>5, <1>9, <3>1 DEF RetailWalk
    <3>3. QED
      BY <1>1, <1>8, <1>9, <2>1, <2>3, <3>2
  <2>4. QED
    BY <2>2, <2>3
<1>10. /\ RetailWalk' /\ pc' # "idle" /\ UNCHANGED <<req, result>>
       /\ lba' \in Nat /\ count' \in Nat /\ at' \in Nat
  BY <1>1, <1>2, <1>9, Advanced
<1>11. Typing'
  BY <1>1, <1>5, <1>7, <1>10 DEF Typing, efi, disk
<1>12. Reporting!WriteBlocks
  <2>1. Reporting!Goes
    BY <1>1, <1>5, <1>10 DEF Reporting!Goes, phase
  <2>2. ASSUME NEW b \in Blocks
        PROVE  \/ blocksOf'[b] = blocksOf[b]
               \/ b \in Target(req) /\ blocksOf'[b] = buf[b - req.lba]
               \/ status' # 0 /\ b \in Reporting!TargetPages(req)
    <3>1. CASE status' = 0
      <4>1. lba - req.lba = at
        BY <1>3, RequestFields DEF Slots
      <4>2. QED
        BY <1>3, <1>8, <3>1, <4>1
    <3>2. CASE status' # 0 /\ b \div 2 = p
      BY <1>3, <3>2, RetailSame DEF Reporting!TargetPages, p
    <3>3. CASE b \div 2 # p
      BY <1>7, <3>3
    <3>4. QED
      BY <3>1, <3>2, <3>3
  <2>3. QED
    BY <1>1, <1>2, <1>7, <1>10, <2>1, <2>2, RetailSame DEF Reporting!WriteBlocks, phase
<1>13. QED
  BY <1>10, <1>11, <1>12

(* The run of whole pages lies in what is left of the request, and a block  *)
(* is in it exactly when its page is.                                       *)
LEMMA RetailRun ==
  ASSUME Typing, RetailWalk, pc = "body"
  PROVE  LET n == 2 * (count \div 2)
         IN  /\ n \in Nat /\ n > 0 /\ n <= count /\ (n = count \/ (lba + n) % 2 = 0)
             /\ RetailOS!Run \cap Blocks = lba .. (lba + n - 1)
             /\ RetailOS!RunPages \subseteq 0 .. Pages - 1
             /\ \A b \in Blocks : b \div 2 \in RetailOS!RunPages <=> b \in lba .. (lba + n - 1)
<1> DEFINE n == 2 * (count \div 2)
<1>1. count \in Nat /\ lba \in Nat /\ lba % 2 = 0 /\ count >= 2 /\ pc # "idle"
  BY DEF RetailWalk, Typing
<1>2. n \in Nat /\ n > 0 /\ n <= count /\ (lba + n) % 2 = 0 /\ n % 2 = 0
  BY <1>1
<1>3. RetailOS!Run = lba .. (lba + n - 1)
  BY DEF RetailOS!Run
<1> HIDE DEF n
<1>4. lba + n <= 2 * Pages /\ Pages \in Nat
  BY <1>1, <1>2, RetailInside, RequestFields
<1>5. RetailOS!Run \cap Blocks = lba .. (lba + n - 1)
  BY <1>1, <1>2, <1>3, <1>4 DEF Blocks
<1>6. RetailOS!RunPages = {b \div 2 : b \in lba .. (lba + n - 1)}
  BY <1>5, RetailSame DEF RetailOS!RunPages, RetailOS!Page0
<1>7. ASSUME NEW b \in Blocks
      PROVE  b \div 2 \in RetailOS!RunPages <=> b \in lba .. (lba + n - 1)
  <2>1. b \in Nat /\ b = 2 * (b \div 2) + (b % 2) /\ b % 2 \in 0 .. 1 /\ b \div 2 \in Nat
    BY Halves DEF Blocks
  <2>2. ASSUME NEW c \in lba .. (lba + n - 1), b \div 2 = c \div 2
        PROVE  b \in lba .. (lba + n - 1)
    <3>1. c \in Nat /\ c = 2 * (c \div 2) + (c % 2) /\ c % 2 \in 0 .. 1
      BY <1>1, <1>2, Halves
    <3>2. QED
      BY <1>1, <1>2, <2>1, <2>2, <3>1
  <2>3. QED
    BY <1>6, <2>2
<1>8. RetailOS!RunPages \subseteq 0 .. Pages - 1
  <2>1. ASSUME NEW c \in lba .. (lba + n - 1) PROVE c \div 2 \in 0 .. Pages - 1
    <3>1. c \in Blocks
      BY <1>5
    <3>2. QED
      BY <3>1, Halves DEF Blocks
  <2>2. QED
    BY <1>6, <2>1
<1>9. QED
  BY <1>2, <1>5, <1>7, <1>8 DEF n

(* The run read into the buffer.                                            *)
LEMMA RetailBodyRead ==
  ASSUME Typing, RetailWalk, UNCHANGED <<efi, disk>>, RetailOS!BodyRead
  PROVE  Typing' /\ RetailWalk' /\ Reporting!ReadBlocks
<1> DEFINE n == 2 * (count \div 2)
<1>1. /\ pc = "body" /\ pc # "idle" /\ req.op = "read" /\ RetailOS!Advance(n)
      /\ UNCHANGED <<pages, scratch>>
      /\ RetailOS!Succeeds \/ \E rc \in Codes : RetailOS!FailsWith(rc)
  BY DEF RetailOS!BodyRead
<1>2. /\ n \in Nat /\ n > 0 /\ n <= count /\ (n = count \/ (lba + n) % 2 = 0)
      /\ RetailOS!Run \cap Blocks = lba .. (lba + n - 1)
  BY <1>1, RetailRun
<1> HIDE DEF n
<1>3. /\ at + n <= req.count /\ lba = req.lba + at /\ at \in Nat /\ lba \in Nat
      /\ req.lba \in Nat /\ req.count \in Nat /\ lba + n <= 2 * Pages
      /\ \A b \in req.lba .. (lba + n - 1) :
           b \in Blocks /\ b \in Target(req) /\ b - req.lba \in Slots
  BY <1>1, <1>2, RetailInside, RequestFields DEF Typing
<1>4. blocksOf' = blocksOf /\ blocksOf \in [Blocks -> Value]
  BY <1>1, BlocksAreValues DEF blocksOf, Typing
<1>5. /\ RetailOS!RunSlots = {k \in Slots : req.lba + k \in lba .. (lba + n - 1)}
      /\ \A k \in Slots : RetailOS!BlockOf(k) = req.lba + k
  <2>1. ASSUME NEW k \in Slots PROVE RetailOS!BlockOf(k) = req.lba + k
    BY <1>3, RequestFields DEF RetailOS!BlockOf, Slots
  <2>2. QED
    BY <1>2, <2>1, RetailSame DEF RetailOS!RunSlots
<1>6. /\ status' \in Nat /\ faults' \in 0 .. MaxFaults
      /\ status' = 0 => status = 0 /\ ~\E rc \in Codes : RetailOS!FailsWith(rc)
  BY <1>1, StatusKept
<1>7. ASSUME buf' = [k \in Slots |-> IF k \in RetailOS!RunSlots
                     THEN pages[RetailOS!Page0(RetailOS!BlockOf(k))]
                               [RetailOS!Half(RetailOS!BlockOf(k))] ELSE buf[k]]
      PROVE  /\ buf' \in [Slots -> Value]
             /\ status' = 0 =>
                  \A b \in req.lba .. (lba + n - 1) : blocksOf'[b] = buf'[b - req.lba]
             /\ \A k \in Slots : k \notin RetailOS!RunSlots => buf'[k] = buf[k]
  <2>1. ASSUME NEW k \in Slots
        PROVE  buf'[k] = IF k \in RetailOS!RunSlots THEN blocksOf[req.lba + k] ELSE buf[k]
    <3>1. CASE k \in RetailOS!RunSlots
      <4>1. req.lba + k \in Blocks
        BY <1>2, <1>5, <3>1
      <4>2. QED
        BY <1>5, <1>7, <3>1, <4>1 DEF blocksOf, RetailOS!Page0, RetailOS!Half
    <3>2. CASE k \notin RetailOS!RunSlots
      BY <1>7, <3>2
    <3>3. QED
      BY <3>1, <3>2
  <2>2. ASSUME NEW k \in Slots PROVE buf'[k] \in Value
    BY <1>2, <1>4, <1>5, <2>1 DEF Typing
  <2>3. buf' \in [Slots -> Value]
    BY <1>7, <2>2
  <2>4. ASSUME status' = 0, NEW b \in req.lba .. (lba + n - 1)
        PROVE  blocksOf'[b] = buf'[b - req.lba]
    <3>1. /\ b - req.lba \in Slots /\ b \in Nat /\ req.lba + (b - req.lba) = b
      BY <1>3
    <3>2. CASE b - req.lba \in RetailOS!RunSlots
      BY <1>4, <2>1, <3>1, <3>2
    <3>3. CASE b - req.lba \notin RetailOS!RunSlots
      <4>1. b \in req.lba .. (lba - 1)
        BY <1>3, <1>5, <3>1, <3>3
      <4>2. blocksOf[b] = buf[b - req.lba]
        BY <1>1, <1>6, <2>4, <4>1 DEF RetailWalk
      <4>3. QED
        BY <1>4, <2>1, <3>1, <3>3, <4>2
    <3>4. QED
      BY <3>2, <3>3
  <2>5. \A k \in Slots : k \notin RetailOS!RunSlots => buf'[k] = buf[k]
    BY <2>1
  <2>6. QED
    BY <2>3, <2>4, <2>5
<1>8. ASSUME \E rc \in Codes : RetailOS!FailsWith(rc),
             \E lost \in SUBSET RetailOS!RunSlots :
                buf' = [k \in Slots |-> IF k \in lost THEN Junk ELSE buf[k]]
      PROVE  /\ buf' \in [Slots -> Value]
             /\ status' = 0 =>
                  \A b \in req.lba .. (lba + n - 1) : blocksOf'[b] = buf'[b - req.lba]
             /\ \A k \in Slots : k \notin RetailOS!RunSlots => buf'[k] = buf[k]
  BY <1>6, <1>8, BlankPages DEF Typing
<1>9. /\ buf' \in [Slots -> Value]
      /\ status' = 0 => \A b \in req.lba .. (lba + n - 1) : blocksOf'[b] = buf'[b - req.lba]
      /\ \A k \in Slots : k \notin RetailOS!RunSlots => buf'[k] = buf[k]
  BY <1>7, <1>8, RetailSame DEF RetailOS!BodyRead
<1>10. /\ RetailWalk' /\ pc' # "idle" /\ UNCHANGED <<req, result>>
       /\ lba' \in Nat /\ count' \in Nat /\ at' \in Nat
  BY <1>1, <1>2, <1>9, Advanced
<1>11. Typing'
  BY <1>1, <1>6, <1>9, <1>10 DEF Typing, efi, disk
<1>12. Reporting!ReadBlocks
  <2>1. Reporting!Goes
    BY <1>1, <1>6, <1>10 DEF Reporting!Goes, phase
  <2>2. \A k \in Slots : k >= req.count => buf'[k] = buf[k]
    <3>1. \A k \in Slots : k >= req.count => k \notin RetailOS!RunSlots
      BY <1>2, <1>3, <1>5, RequestFields DEF Slots
    <3>2. QED
      BY <1>9, <3>1
  <2>3. QED
    BY <1>1, <1>4, <1>9, <1>10, <2>1, <2>2, RetailSame DEF Reporting!ReadBlocks, phase
<1>13. QED
  BY <1>10, <1>11, <1>12

(* The run written from the buffer, or some of its pages.                   *)
LEMMA RetailBodyWrite ==
  ASSUME Typing, RetailWalk, UNCHANGED <<efi, disk>>, RetailOS!BodyWrite
  PROVE  Typing' /\ RetailWalk' /\ Reporting!WriteBlocks
<1> DEFINE n == 2 * (count \div 2)
           F == [b \in Blocks |-> RetailOS!Supplied(at + (b - lba))]
<1>1. /\ pc = "body" /\ pc # "idle" /\ req.op = "write" /\ RetailOS!Advance(n)
      /\ UNCHANGED <<buf, scratch>>
      /\ RetailOS!Succeeds \/ \E rc \in Codes : RetailOS!FailsWith(rc)
  BY DEF RetailOS!BodyWrite
<1>2. /\ n \in Nat /\ n > 0 /\ n <= count /\ (n = count \/ (lba + n) % 2 = 0)
      /\ RetailOS!RunPages \subseteq 0 .. Pages - 1
      /\ \A b \in Blocks : b \div 2 \in RetailOS!RunPages <=> b \in lba .. (lba + n - 1)
  BY <1>1, RetailRun
<1> HIDE DEF n
<1>3. /\ lba = req.lba + at /\ at \in Nat /\ lba \in Nat /\ req.lba \in Nat
      /\ \A b \in req.lba .. (lba + n - 1) :
           b \in Blocks /\ b \in Target(req) /\ b - req.lba \in Slots
  BY <1>1, <1>2, RetailInside, RequestFields DEF Typing
<1>4. /\ status' \in Nat /\ faults' \in 0 .. MaxFaults
      /\ status' = 0 => status = 0 /\ ~\E rc \in Codes : RetailOS!FailsWith(rc)
  BY <1>1, StatusKept
<1>5. F \in [Blocks -> Value]
  BY RetailSame, BlankPages DEF RetailOS!Supplied, Typing
<1>6. ASSUME NEW b \in lba .. (lba + n - 1) PROVE b \in Blocks /\ F[b] = buf[b - req.lba]
  <2>1. b \in Blocks /\ b - req.lba \in Slots /\ at + (b - lba) = b - req.lba
    BY <1>3
  <2>2. QED
    BY <2>1, RetailSame DEF RetailOS!Supplied
<1>7. PICK S \in SUBSET RetailOS!RunPages :
        /\ pages' = [p \in 0 .. Pages - 1 |->
                       IF p \in S THEN [h \in 0 .. 1 |-> F[2 * p + h]] ELSE pages[p]]
        /\ status' = 0 => S = RetailOS!RunPages
  <2>1. PICK S \in SUBSET RetailOS!RunPages :
          /\ pages' = RetailOS!RunWritten(S)
          /\ S = RetailOS!RunPages \/ \E rc \in Codes : RetailOS!FailsWith(rc)
    BY DEF RetailOS!BodyWrite
  <2>2. \A p \in S : p \in 0 .. Pages - 1
    BY <1>2
  <2>3. \A p \in S : \A h \in 0 .. 1 : F[2 * p + h] = RetailOS!Supplied(at + (2 * p + h - lba))
    <3>1. \A b \in Blocks : F[b] = RetailOS!Supplied(at + (b - lba))
      OBVIOUS
    <3>2. \A p \in S : \A h \in 0 .. 1 : 2 * p + h \in Blocks
      BY <2>2, BothHalves
    <3>3. ASSUME NEW p \in S, NEW h \in 0 .. 1
          PROVE  F[2 * p + h] = RetailOS!Supplied(at + (2 * p + h - lba))
      <4> DEFINE b == 2 * p + h
      <4>1. b \in Blocks
        BY <3>2
      <4> HIDE DEF F
      <4>2. F[b] = RetailOS!Supplied(at + (b - lba))
        BY <3>1, <4>1
      <4>3. b - lba = 2 * p + h - lba
        BY <1>3, <2>2
      <4>4. QED
        BY <4>2, <4>3
    <3>4. QED
      BY <3>3
  <2>4. \A p \in S : [h \in 0 .. 1 |-> F[2 * p + h]]
                       = [h \in 0 .. 1 |-> RetailOS!Supplied(at + (2 * p + h - lba))]
    BY <2>3
  <2>5. pages' = [p \in 0 .. Pages - 1 |->
                    IF p \in S THEN [h \in 0 .. 1 |-> F[2 * p + h]] ELSE pages[p]]
    BY <2>1, <2>4 DEF RetailOS!RunWritten
  <2>6. QED
    BY <1>4, <2>1, <2>5
<1> HIDE DEF F
<1>8. /\ pages' \in [0 .. Pages - 1 -> Page] /\ blocksOf' \in [Blocks -> Value]
      /\ \A b \in Blocks : blocksOf'[b] = IF b \div 2 \in S THEN F[b] ELSE blocksOf[b]
  <2>1. pages \in [0 .. Pages - 1 -> Page] /\ S \in SUBSET (0 .. Pages - 1)
    BY <1>2 DEF Typing
  <2>2. QED
    BY <1>5, <1>7, <2>1, PagesRewritten
<1>9. ASSUME status' = 0, NEW b \in req.lba .. (lba + n - 1)
      PROVE  blocksOf'[b] = buf'[b - req.lba]
  <2>1. b \in Blocks /\ b \in Nat
    BY <1>3
  <2>2. CASE b \in lba .. (lba + n - 1)
    BY <1>1, <1>2, <1>6, <1>7, <1>8, <1>9, <2>2
  <2>3. CASE b \notin lba .. (lba + n - 1)
    <3>1. b \in req.lba .. (lba - 1)
      BY <1>3, <2>3
    <3>2. blocksOf[b] = buf[b - req.lba]
      BY <1>1, <1>4, <1>9, <3>1 DEF RetailWalk
    <3>3. QED
      BY <1>1, <1>2, <1>7, <1>8, <1>9, <2>1, <2>3, <3>2
  <2>4. QED
    BY <2>2, <2>3
<1>10. /\ RetailWalk' /\ pc' # "idle" /\ UNCHANGED <<req, result>>
       /\ lba' \in Nat /\ count' \in Nat /\ at' \in Nat
  BY <1>1, <1>2, <1>9, Advanced
<1>11. Typing'
  BY <1>1, <1>4, <1>8, <1>10 DEF Typing, efi, disk
<1>12. Reporting!WriteBlocks
  <2>1. Reporting!Goes
    BY <1>1, <1>4, <1>10 DEF Reporting!Goes, phase
  <2>2. ASSUME NEW b \in Blocks
        PROVE  \/ blocksOf'[b] = blocksOf[b]
               \/ b \in Target(req) /\ blocksOf'[b] = buf[b - req.lba]
    <3>1. CASE b \div 2 \in S
      <4>1. b \in lba .. (lba + n - 1)
        BY <1>2, <3>1
      <4>2. b \in req.lba .. (lba + n - 1)
        BY <1>3, <4>1
      <4>3. QED
        BY <1>3, <1>6, <1>8, <3>1, <4>1, <4>2
    <3>2. CASE b \div 2 \notin S
      BY <1>8, <3>2
    <3>3. QED
      BY <3>1, <3>2
  <2>3. QED
    BY <1>1, <1>8, <1>10, <2>1, <2>2, RetailSame DEF Reporting!WriteBlocks, phase
<1>13. QED
  BY <1>10, <1>11, <1>12

(* The answer: the kept code, or 0 when everything was done.                *)
LEMMA RetailEnds ==
  ASSUME Typing, RetailWalk, UNCHANGED <<efi, disk>>, RetailOS!Return \/ RetailOS!PowerLoss
  PROVE  Typing' /\ RetailWalk' /\ (Reporting!Reply \/ Reporting!PowerLoss)
<1>1. /\ pc # "idle" /\ pc' = "idle" /\ lba' = 0 /\ count' = 0 /\ at' = 0 /\ status' = 0
      /\ UNCHANGED <<req, buf, pages, faults>>
      /\ scratch' \in {scratch, [h \in 0 .. 1 |-> Erased]}
  BY RetailSame DEF RetailOS!Return, RetailOS!PowerLoss, RetailOS!Leave
<1>2. blocksOf' = blocksOf
  BY <1>1 DEF blocksOf
<1>3. RetailWalk'
  BY <1>1 DEF RetailWalk
<1>4. CASE RetailOS!Return
  <2>1. result' = IF status = 0 THEN "ok" ELSE "error"
    BY <1>4 DEF RetailOS!Return
  <2>2. Typing'
    BY <1>1, <2>1, BlankPages DEF Typing, efi, disk
  <2>3. status = 0 => Reporting!Served'
    <3>1. pc = "end" /\ count = 0 /\ lba = req.lba + req.count
      BY <1>4, RequestFields DEF RetailOS!Return, RetailWalk, Typing
    <3>2. Target(req) = req.lba .. (lba - 1)
      BY <3>1, RequestFields DEF Target
    <3>3. status = 0 => \A b \in Target(req) : blocksOf[b] = buf[b - req.lba]
      BY <1>1, <3>2 DEF RetailWalk
    <3>4. QED
      BY <1>1, <1>2, <3>3, RetailSame DEF Reporting!Served
  <2>4. Reporting!Reply
    BY <1>1, <1>2, <2>1, <2>3 DEF Reporting!Reply, Reporting!Answer, phase
  <2>5. QED
    BY <1>3, <2>2, <2>4
<1>5. CASE RetailOS!PowerLoss
  <2>1. UNCHANGED result
    BY <1>5 DEF RetailOS!PowerLoss
  <2>2. Typing'
    BY <1>1, <2>1, BlankPages DEF Typing, efi, disk
  <2>3. Reporting!PowerLoss
    BY <1>1, <1>2, <2>1 DEF Reporting!PowerLoss, phase
  <2>4. QED
    BY <1>3, <2>2, <2>3
<1>6. QED
  BY <1>4, <1>5

(* Whatever the FTL below answers, RetailOS keeps the invariant and has a   *)
(* device that reports.                                                     *)
LEMMA RetailKeeps ==
  ASSUME SharedInv, RetailStep
  PROVE  SharedInv' /\ Reporting!Next
<1>1. Typing /\ RetailWalk /\ UNCHANGED <<efi, disk>> /\ RetailOS!Next
  BY DEF SharedInv, RetailStep
<1>2. Typing' /\ RetailWalk' /\ Reporting!Next
  <2>1. CASE \E r \in Requests : RetailOS!Submit(r)
    BY <1>1, <2>1, RetailSubmit DEF Reporting!Next
  <2>2. CASE RetailOS!PartialRead
    BY <1>1, <2>2, RetailPartialRead DEF Reporting!Next
  <2>3. CASE RetailOS!PartialFetch
    BY <1>1, <2>3, RetailPartialFetch DEF Reporting!Next
  <2>4. CASE RetailOS!PartialStore
    BY <1>1, <2>4, RetailPartialStore DEF Reporting!Next
  <2>5. CASE RetailOS!BodyRead
    BY <1>1, <2>5, RetailBodyRead DEF Reporting!Next
  <2>6. CASE RetailOS!BodyWrite
    BY <1>1, <2>6, RetailBodyWrite DEF Reporting!Next
  <2>7. CASE RetailOS!Return \/ RetailOS!PowerLoss
    BY <1>1, <2>7, RetailEnds DEF Reporting!Next
  <2>8. QED
    BY <1>1, <2>1, <2>2, <2>3, <2>4, <2>5, <2>6, <2>7 DEF RetailOS!Next
<1>3. QED
  BY <1>2 DEF SharedInv, RetailStep

-----------------------------------------------------------------------------
(* Disk mode.                                                               *)

LEMMA DiskSame ==
  /\ DiskMode!Slots = Slots /\ DiskMode!Blocks = Blocks /\ DiskMode!sec = sec
  /\ DiskMode!Erased = Erased /\ DiskMode!Junk = Junk
  /\ DiskMode!Blank = [h \in 0 .. 1 |-> Erased]
  /\ Confined!Slots = Slots /\ Confined!Blocks = Blocks /\ Confined!Value = Value
  /\ \A r : /\ DiskMode!Payload(r) = Payload(r) /\ Confined!Payload(r) = Payload(r)
            /\ DiskMode!Target(r) = Target(r) /\ Confined!Target(r) = Target(r)
<1>1. /\ DiskMode!Slots = Slots /\ DiskMode!Blocks = Blocks /\ DiskMode!sec = sec
      /\ DiskMode!Erased = Erased /\ DiskMode!Junk = Junk
      /\ Confined!Slots = Slots /\ Confined!Blocks = Blocks
      /\ Confined!Erased = Erased /\ Confined!Junk = Junk
  BY DEF DiskMode!Slots, Slots, DiskMode!Blocks, Blocks, DiskMode!Erased, Erased,
         DiskMode!Junk, Junk, Confined!Slots, Confined!Blocks, Confined!Erased,
         Confined!Junk, DiskMode!sec, sec
<1>2. Confined!Value = Value /\ DiskMode!Blank = [h \in 0 .. 1 |-> Erased]
  BY <1>1 DEF Confined!Value, Value, DiskMode!Blank
<1>3. \A r : /\ DiskMode!Payload(r) = Payload(r) /\ Confined!Payload(r) = Payload(r)
             /\ DiskMode!Target(r) = Target(r) /\ Confined!Target(r) = Target(r)
  BY <1>1 DEF DiskMode!Payload, Payload, Confined!Payload, Confined!Target, Target,
              DiskMode!Target
<1>4. QED
  BY <1>1, <1>2, <1>3

(* No block is given what was not written for it, unless it says so.        *)
Native == \A b \in Blocks : blocksOf'[b] = blocksOf[b] \/ blocksOf'[b].addr \in {b, -1}

(* The request is taken.                                                    *)
LEMMA DiskSubmit ==
  ASSUME Typing, UNCHANGED <<lba, efi, osos>>, NEW r \in Requests, DiskMode!Submit(r)
  PROVE  Typing' /\ DiskWalk' /\ Confined!Submit(r) /\ Native
<1>1. /\ r.lba \in Nat /\ r.count \in Nat
  BY StorageAssumption DEF Request
<1>2. /\ buf' = Payload(r) /\ req' = r /\ i' = 0 /\ hurt' = FALSE /\ pages' = pages
      /\ pc' \in {"fast", "loop"}
      /\ pc' = "fast" => DiskMode!FastPath(r)
  BY DiskSame DEF DiskMode!Submit
<1>3. Typing'
  <2>1. result' = "none" /\ UNCHANGED <<ftl_scr, faults>>
    BY DEF DiskMode!Submit
  <2>2. buf' \in [Slots -> Value]
    BY <1>2, PayloadType
  <2>3. QED
    BY <1>2, <2>1, <2>2 DEF Typing, efi, osos
<1>4. DiskWalk'
  <2>1. Payload(req)' = buf'
    BY <1>2 DEF Payload
  <2>2. sec' = r.lba /\ \A b \in r.lba .. (sec' - 1) : FALSE
    BY <1>1, <1>2 DEF sec
  <2>3. pc' = "fast" => req'.lba % 2 = 0 /\ req'.count % 2 = 0
    BY <1>2 DEF DiskMode!FastPath, DiskMode!Half
  <2>4. QED
    BY <1>1, <1>2, <2>1, <2>2, <2>3 DEF DiskWalk
<1>5. blocksOf' = blocksOf
  BY <1>2 DEF blocksOf
<1>6. Confined!Submit(r)
  BY <1>2, <1>5, DiskSame DEF Confined!Submit, DiskMode!Submit, phase
<1>7. QED
  BY <1>3, <1>4, <1>5, <1>6 DEF Native

(* The next sector is inside the device, the request and the buffer.        *)
LEMMA DiskInside ==
  ASSUME Typing, i < req.count
  PROVE  /\ sec \in Blocks /\ i \in Slots /\ sec \in Target(req) /\ sec - req.lba = i
         /\ sec \div 2 \in 0 .. Pages - 1 /\ sec % 2 \in 0 .. 1
         /\ sec = 2 * (sec \div 2) + (sec % 2)
<1>1. i \in Nat /\ sec \in Nat /\ sec = req.lba + i
  BY RequestFields DEF sec, Typing
<1>2. sec \in Blocks /\ i \in Slots /\ sec \in Target(req) /\ sec - req.lba = i
  BY <1>1, RequestFields DEF Blocks, Slots, Target
<1>3. /\ sec \div 2 \in 0 .. Pages - 1 /\ sec % 2 \in 0 .. 1
      /\ sec = 2 * (sec \div 2) + (sec % 2)
  BY <1>1, <1>2, Halves
<1>4. QED
  BY <1>2, <1>3

(* An aligned read: the whole request at once.                              *)
LEMMA DiskFastRead ==
  ASSUME Typing, DiskWalk, UNCHANGED <<lba, efi, osos>>, DiskMode!FastRead
  PROVE  Typing' /\ DiskWalk' /\ Confined!ReadBlocks /\ Native
<1>1. /\ pc = "fast" /\ pc # "idle" /\ req.op = "read" /\ UNCHANGED <<pages, ftl_scr, req>>
      /\ pc' = "idle" /\ i' = 0 /\ hurt' = FALSE /\ result' \in {"ok", "error"}
      /\ faults' \in 0 .. MaxFaults
  BY SharedAssumption DEF DiskMode!FastRead, DiskMode!Return, DiskMode!Fault, Typing
<1>2. req.lba % 2 = 0 /\ ~hurt
  BY <1>1 DEF DiskWalk
<1>3. blocksOf' = blocksOf /\ blocksOf \in [Blocks -> Value]
  BY <1>1, BlocksAreValues DEF blocksOf, Typing
<1>4. /\ req.lba \in Nat /\ req.count \in Nat /\ req.lba + req.count <= 2 * Pages
      /\ req.count <= Buffer /\ Pages \in Nat /\ Buffer \in Nat
  BY RequestFields
<1>5. ASSUME buf' = [k \in Slots |-> IF k < req.count
                       THEN pages[DiskMode!Page0(req.lba + k)][DiskMode!Half(k)] ELSE buf[k]]
      PROVE  /\ buf' \in [Slots -> Value] /\ Confined!Served'
             /\ \A k \in Slots : k >= req.count => buf'[k] = buf[k]
  <2>1. ASSUME NEW k \in Slots, k < req.count
        PROVE  req.lba + k \in Blocks /\ buf'[k] = blocksOf[req.lba + k]
    <3>1. k \in Nat /\ req.lba + k \in Blocks /\ (req.lba + k) % 2 = k % 2
      BY <1>2, <1>4, <2>1 DEF Slots, Blocks
    <3>2. QED
      BY <1>5, <2>1, <3>1 DEF blocksOf, DiskMode!Page0, DiskMode!Half
  <2>2. ASSUME NEW k \in Slots, ~(k < req.count) PROVE buf'[k] = buf[k]
    BY <1>5, <2>2
  <2>3. buf' \in [Slots -> Value]
    <3>1. \A k \in Slots : buf'[k] \in Value
      BY <1>3, <2>1, <2>2 DEF Typing
    <3>2. QED
      BY <1>5, <3>1
  <2>4. \A k \in Slots : k >= req.count => buf'[k] = buf[k]
    BY <1>4, <2>2 DEF Slots
  <2>5. ASSUME NEW b \in Target(req) PROVE blocksOf'[b] = buf'[b - req.lba]
    <3>1. /\ b - req.lba \in Slots /\ b - req.lba < req.count
          /\ req.lba + (b - req.lba) = b
      BY <1>4 DEF Target, Slots
    <3>2. QED
      BY <1>3, <2>1, <3>1
  <2>6. QED
    BY <1>1, <2>3, <2>4, <2>5, DiskSame DEF Confined!Served
<1>6. ASSUME \E lost \in SUBSET {k \in Slots : k < req.count} :
               buf' = [k \in Slots |-> IF k \in lost THEN Junk ELSE buf[k]]
      PROVE  /\ buf' \in [Slots -> Value]
             /\ \A k \in Slots : k >= req.count => buf'[k] = buf[k]
  BY <1>4, <1>6, BlankPages DEF Typing, Slots
<1>7. /\ buf' \in [Slots -> Value]
      /\ result' = "ok" => Confined!Served'
      /\ \A k \in Slots : k >= req.count => buf'[k] = buf[k]
  BY <1>5, <1>6, DiskSame DEF DiskMode!FastRead, DiskMode!Return
<1>8. Typing'
  BY <1>1, <1>7 DEF Typing, efi, osos
<1>9. DiskWalk'
  BY <1>1 DEF DiskWalk
<1>10. Confined!ReadBlocks
  <2>1. Confined!Goes
    BY <1>1, <1>7 DEF Confined!Goes, Confined!Answer, phase
  <2>2. QED
    BY <1>1, <1>3, <1>7, <2>1, DiskSame DEF Confined!ReadBlocks, phase
<1>11. QED
  BY <1>3, <1>8, <1>9, <1>10 DEF Native

(* An aligned write: whole pages, and the blocks of no other.               *)
LEMMA DiskFastWrite ==
  ASSUME Typing, DiskWalk, UNCHANGED <<lba, efi, osos>>, DiskMode!FastWrite
  PROVE  Typing' /\ DiskWalk' /\ Confined!WriteBlocks /\ Native
<1> DEFINE F == [b \in Blocks |-> IF b \in Target(req) THEN buf[b - req.lba] ELSE Junk]
<1>1. /\ pc = "fast" /\ pc # "idle" /\ req.op = "write" /\ UNCHANGED <<buf, ftl_scr, req>>
      /\ pc' = "idle" /\ i' = 0 /\ hurt' = FALSE /\ result' \in {"ok", "error"}
      /\ faults' \in 0 .. MaxFaults
  BY SharedAssumption DEF DiskMode!FastWrite, DiskMode!Return, DiskMode!Fault, Typing
<1>2. req.lba % 2 = 0 /\ req.count % 2 = 0 /\ ~hurt /\ buf = Payload(req)
  BY <1>1 DEF DiskWalk
<1>3. /\ req.lba \in Nat /\ req.count \in Nat /\ req.lba + req.count <= 2 * Pages
      /\ req.count <= Buffer /\ Pages \in Nat /\ Buffer \in Nat
  BY RequestFields
<1>4. ASSUME NEW b \in Target(req)
      PROVE  /\ b \in Blocks /\ b \in Nat /\ b - req.lba \in Slots
             /\ F[b] = buf[b - req.lba] /\ buf[b - req.lba].addr = b
  <2>1. /\ b \in Blocks /\ b \in Nat /\ b - req.lba \in Slots /\ b - req.lba < req.count
        /\ req.lba + (b - req.lba) = b
    BY <1>3 DEF Target, Blocks, Slots
  <2>2. buf[b - req.lba].addr = b
    BY <1>1, <1>2, <2>1, PayloadType DEF Typing
  <2>3. QED
    BY <2>1, <2>2
<1>5. F \in [Blocks -> Value]
  BY <1>4, BlankPages DEF Typing
<1>6. DiskMode!RunPages = {b \div 2 : b \in Target(req)}
  BY DiskSame DEF DiskMode!RunPages, DiskMode!Page0
<1>7. ASSUME NEW b \in Blocks, b \div 2 \in DiskMode!RunPages PROVE b \in Target(req)
  <2>1. PICK c \in Target(req) : b \div 2 = c \div 2
    BY <1>6, <1>7
  <2>2. /\ b \in Nat /\ b = 2 * (b \div 2) + (b % 2) /\ b % 2 \in 0 .. 1 /\ b \div 2 \in Nat
    BY Halves DEF Blocks
  <2>3. /\ c \in Nat /\ c = 2 * (c \div 2) + (c % 2) /\ c % 2 \in 0 .. 1
    BY <1>4, Halves
  <2>4. QED
    BY <1>2, <1>3, <2>1, <2>2, <2>3 DEF Target
<1>8. DiskMode!RunPages \subseteq 0 .. Pages - 1
  <2>1. \A c \in Target(req) : c \div 2 \in 0 .. Pages - 1
    BY <1>4, Halves
  <2>2. QED
    BY <1>6, <2>1
<1>9. PICK S \in SUBSET DiskMode!RunPages :
        /\ pages' = [p \in 0 .. Pages - 1 |->
                       IF p \in S THEN [h \in 0 .. 1 |-> F[2 * p + h]] ELSE pages[p]]
        /\ result' = "ok" => S = DiskMode!RunPages
  <2>1. PICK S \in SUBSET DiskMode!RunPages :
          /\ pages' = DiskMode!RunWritten(S)
          /\ result' = "ok" => S = DiskMode!RunPages
    BY DEF DiskMode!FastWrite, DiskMode!Return
  <2>2. \A p \in S : p \in 0 .. Pages - 1
    BY <1>8
  <2>3. ASSUME NEW p \in S, NEW h \in 0 .. 1
        PROVE  F[2 * p + h] = buf[2 * p + h - req.lba]
    <3> DEFINE b == 2 * p + h
    <3>1. b \in Blocks /\ b \div 2 = p
      BY <2>2, BothHalves
    <3>2. F[b] = buf[b - req.lba]
      BY <1>4, <1>7, <3>1
    <3> HIDE DEF F
    <3>3. b - req.lba = 2 * p + h - req.lba
      BY <1>3, <2>2
    <3>4. QED
      BY <3>2, <3>3
  <2>4. \A p \in S : [h \in 0 .. 1 |-> F[2 * p + h]] = [h \in 0 .. 1 |-> buf[2 * p + h - req.lba]]
    BY <2>3
  <2>5. pages' = [p \in 0 .. Pages - 1 |->
                    IF p \in S THEN [h \in 0 .. 1 |-> F[2 * p + h]] ELSE pages[p]]
    BY <2>1, <2>4 DEF DiskMode!RunWritten
  <2>6. QED
    BY <2>1, <2>5
<1> HIDE DEF F
<1>10. /\ pages' \in [0 .. Pages - 1 -> Page] /\ blocksOf' \in [Blocks -> Value]
       /\ \A b \in Blocks : blocksOf'[b] = IF b \div 2 \in S THEN F[b] ELSE blocksOf[b]
  <2>1. pages \in [0 .. Pages - 1 -> Page] /\ S \in SUBSET (0 .. Pages - 1)
    BY <1>8 DEF Typing
  <2>2. QED
    BY <1>5, <1>9, <2>1, PagesRewritten
<1>11. ASSUME NEW b \in Blocks
       PROVE  \/ blocksOf'[b] = blocksOf[b]
              \/ /\ b \in Target(req) /\ blocksOf'[b] = buf[b - req.lba]
                 /\ blocksOf'[b].addr = b
  BY <1>4, <1>7, <1>10
<1>12. result' = "ok" => Confined!Served'
  <2>1. ASSUME result' = "ok", NEW b \in Target(req) PROVE blocksOf'[b] = buf'[b - req.lba]
    BY <1>1, <1>4, <1>6, <1>9, <1>10, <2>1
  <2>2. QED
    BY <1>1, <2>1, DiskSame DEF Confined!Served
<1>13. Typing'
  BY <1>1, <1>10 DEF Typing, efi, osos
<1>14. DiskWalk'
  BY <1>1 DEF DiskWalk
<1>15. Confined!WriteBlocks
  <2>1. Confined!Goes
    BY <1>1, <1>12 DEF Confined!Goes, Confined!Answer, phase
  <2>2. QED
    BY <1>1, <1>10, <1>11, <2>1, DiskSame DEF Confined!WriteBlocks, phase
<1>16. QED
  BY <1>11, <1>13, <1>14, <1>15 DEF Native

(* One sector of a read, through the scratch.                               *)
LEMMA DiskLoopRead ==
  ASSUME Typing, DiskWalk, UNCHANGED <<lba, efi, osos>>, DiskMode!LoopRead
  PROVE  Typing' /\ DiskWalk' /\ Confined!ReadBlocks /\ Native
<1>1. /\ pc = "loop" /\ pc # "idle" /\ i < req.count /\ req.op = "read" /\ i' = i + 1
      /\ UNCHANGED <<pages, req, result, pc>>
  BY DEF DiskMode!LoopRead, DiskMode!InLoop
<1>2. PICK t \in {pages[sec \div 2], ftl_scr, [h \in 0 .. 1 |-> Junk]} :
        /\ DiskMode!Fetch(ftl_scr, t)
        /\ ftl_scr' = t /\ buf' = [buf EXCEPT ![i] = t[sec % 2]]
  BY DiskSame DEF DiskMode!LoopRead, DiskMode!Page0, DiskMode!Half
<1>3. /\ sec \in Blocks /\ i \in Slots /\ sec \in Target(req) /\ sec - req.lba = i
      /\ sec \div 2 \in 0 .. Pages - 1 /\ sec % 2 \in 0 .. 1
  BY <1>1, DiskInside
<1>4. /\ i \in Nat /\ i' \in Nat /\ req.lba \in Nat /\ req.count \in Nat
      /\ sec = req.lba + i /\ sec' = sec + 1 /\ sec \in Nat
  <2>1. i \in Nat /\ req.lba \in Nat /\ req.count \in Nat
    BY RequestFields DEF Typing
  <2>2. sec = req.lba + i /\ sec' = req'.lba + i'
    BY DEF sec
  <2>3. QED
    BY <1>1, <2>1, <2>2
<1>5. t \in Page /\ t[sec % 2] \in Value
  BY <1>2, <1>3, BlankPages DEF Typing, Page
<1>6. /\ hurt' \in BOOLEAN /\ faults' \in 0 .. MaxFaults
      /\ hurt => hurt'
      /\ ~hurt' => t = pages[sec \div 2]
  <2>1. \/ hurt' = hurt /\ faults' = faults /\ t = pages[sec \div 2]
        \/ hurt' = TRUE /\ faults < MaxFaults /\ faults' = faults + 1
    BY <1>2, DiskSame DEF DiskMode!Fetch, DiskMode!Works, DiskMode!Fault, DiskMode!Page0
  <2>2. hurt \in BOOLEAN /\ faults \in 0 .. MaxFaults
    BY DEF Typing
  <2>3. faults' \in 0 .. MaxFaults
    BY <2>1, <2>2, SharedAssumption
  <2>4. hurt' \in BOOLEAN /\ (hurt => hurt') /\ (~hurt' => t = pages[sec \div 2])
    BY <2>1, <2>2, Zenon
  <2>5. QED
    BY <2>3, <2>4
<1>7. blocksOf' = blocksOf /\ blocksOf \in [Blocks -> Value]
  BY <1>1, BlocksAreValues DEF blocksOf, Typing
<1>8. buf' \in [Slots -> Value]
  BY <1>2, <1>3, <1>5 DEF Typing
<1>9. ASSUME ~hurt', NEW b \in req.lba .. sec PROVE blocksOf'[b] = buf'[b - req.lba]
  <2>1. CASE b = sec
    <3>1. buf'[i] = pages[sec \div 2][sec % 2]
      BY <1>2, <1>3, <1>6, <1>9 DEF Typing
    <3>2. QED
      BY <1>3, <1>7, <2>1, <3>1 DEF blocksOf
  <2>2. CASE b # sec
    <3>1. b \in req.lba .. (sec - 1) /\ b - req.lba # i /\ b - req.lba \in Slots
      BY <1>3, <1>4, <2>2, RequestFields DEF Slots
    <3>2. blocksOf[b] = buf[b - req.lba]
      BY <1>1, <1>6, <1>9, <3>1 DEF DiskWalk
    <3>3. QED
      BY <1>2, <1>7, <3>1, <3>2 DEF Typing
  <2>3. QED
    BY <2>1, <2>2
<1>10. Typing'
  BY <1>1, <1>2, <1>4, <1>5, <1>6, <1>8 DEF Typing, efi, osos
<1>11. DiskWalk'
  <2>1. ~hurt' => \A b \in req'.lba .. (sec' - 1) : blocksOf'[b] = buf'[b - req'.lba]
    <3>1. sec' - 1 = sec
      BY <1>4
    <3>2. QED
      BY <1>1, <1>9, <3>1
  <2>2. i' <= req'.count
    BY <1>1, <1>4
  <2>3. QED
    BY <1>1, <2>1, <2>2 DEF DiskWalk
<1>12. Confined!ReadBlocks
  <2>1. Confined!Goes
    BY <1>1, <1>6 DEF Confined!Goes, phase, Typing
  <2>2. \A k \in Slots : k >= req.count => buf'[k] = buf[k]
    BY <1>1, <1>2, <1>4, RequestFields DEF Typing, Slots
  <2>3. QED
    BY <1>1, <1>7, <1>8, <2>1, <2>2, DiskSame DEF Confined!ReadBlocks, phase
<1>13. QED
  BY <1>7, <1>10, <1>11, <1>12 DEF Native

(* One sector of a write: the scratch blanked, filled and spliced.  What it *)
(* holds beside the sector is of its page, or says that it is not.          *)
LEMMA DiskLoopFetch ==
  ASSUME Typing, DiskWalk, UNCHANGED <<lba, efi, osos>>, DiskMode!LoopFetch
  PROVE  Typing' /\ DiskWalk' /\ Confined!WriteBlocks /\ Native
<1>1. /\ pc = "loop" /\ pc # "idle" /\ i < req.count /\ req.op = "write" /\ pc' = "store"
      /\ UNCHANGED <<pages, req, result, buf, i>>
  BY DEF DiskMode!LoopFetch, DiskMode!InLoop
<1>2. PICK t \in {pages[sec \div 2], [h \in 0 .. 1 |-> Erased], [h \in 0 .. 1 |-> Junk]} :
        /\ DiskMode!Fetch(DiskMode!Blank, t)
        /\ ftl_scr' = [t EXCEPT ![sec % 2] = buf[i]]
  <2>1. DiskMode!sec = sec /\ DiskMode!Junk = Junk
    BY DiskSame
  <2>2. PICK t \in {pages[sec \div 2], DiskMode!Blank, [h \in 0 .. 1 |-> Junk]} :
          /\ DiskMode!Fetch(DiskMode!Blank, t)
          /\ ftl_scr' = [t EXCEPT ![sec % 2] = buf[i]]
    BY <2>1 DEF DiskMode!LoopFetch, DiskMode!Page0, DiskMode!Half
  <2>3. QED
    BY <2>2, DiskSame
<1>3. /\ sec \in Blocks /\ i \in Slots
      /\ sec \div 2 \in 0 .. Pages - 1 /\ sec % 2 \in 0 .. 1
  BY <1>1, DiskInside
<1>4. sec' = sec /\ blocksOf' = blocksOf /\ blocksOf \in [Blocks -> Value]
  BY <1>1, BlocksAreValues DEF sec, blocksOf, Typing
<1>5. t \in Page /\ buf[i] \in Value /\ ftl_scr' \in Page
  BY <1>2, <1>3, BlankPages DEF Typing, Page
<1>6. /\ hurt' \in BOOLEAN /\ faults' \in 0 .. MaxFaults
      /\ hurt => hurt'
      /\ ~hurt' => t = pages[sec \div 2]
  <2>1. \/ hurt' = hurt /\ faults' = faults /\ t = pages[sec \div 2]
        \/ hurt' = TRUE /\ faults < MaxFaults /\ faults' = faults + 1
    BY <1>2, DiskSame DEF DiskMode!Fetch, DiskMode!Works, DiskMode!Fault, DiskMode!Page0
  <2>2. hurt \in BOOLEAN /\ faults \in 0 .. MaxFaults
    BY DEF Typing
  <2>3. faults' \in 0 .. MaxFaults
    BY <2>1, <2>2, SharedAssumption
  <2>4. hurt' \in BOOLEAN /\ (hurt => hurt') /\ (~hurt' => t = pages[sec \div 2])
    BY <2>1, <2>2, Zenon
  <2>5. QED
    BY <2>3, <2>4
<1>7. Typing'
  BY <1>1, <1>5, <1>6 DEF Typing, efi, osos
<1>8. DiskWalk'
  <2>1. Payload(req)' = buf'
    <3>1. buf = Payload(req)
      BY <1>1 DEF DiskWalk
    <3>2. QED
      BY <1>1, <3>1 DEF Payload
  <2>2. ftl_scr'[sec' % 2] = buf'[i']
    BY <1>1, <1>2, <1>3, <1>4, <1>5 DEF Page
  <2>3. ~hurt' => ftl_scr' = [pages'[sec' \div 2] EXCEPT ![sec' % 2] = buf'[i']]
    BY <1>1, <1>2, <1>4, <1>6
  <2>4. \A h \in 0 .. 1 : h = sec' % 2 \/ ftl_scr'[h] \in {pages'[sec' \div 2][h], Erased, Junk}
    BY <1>1, <1>2, <1>3, <1>4, <1>5 DEF Page
  <2>5. ~hurt' => \A b \in req'.lba .. (sec' - 1) : blocksOf'[b] = buf'[b - req'.lba]
    BY <1>1, <1>4, <1>6 DEF DiskWalk
  <2>6. i' <= req'.count /\ i' < req'.count
    BY <1>1, RequestFields DEF Typing
  <2>7. QED
    BY <1>1, <2>1, <2>2, <2>3, <2>4, <2>5, <2>6 DEF DiskWalk
<1>9. Confined!WriteBlocks
  <2>1. Confined!Goes
    BY <1>1, <1>6 DEF Confined!Goes, phase, Typing
  <2>2. QED
    BY <1>1, <1>4, <2>1, DiskSame DEF Confined!WriteBlocks, phase
<1>10. QED
  BY <1>4, <1>7, <1>8, <1>9 DEF Native

(* The page stored, whatever was read.                                      *)
LEMMA DiskLoopStore ==
  ASSUME Typing, DiskWalk, UNCHANGED <<lba, efi, osos>>, DiskMode!LoopStore
  PROVE  Typing' /\ DiskWalk' /\ Confined!WriteBlocks /\ Native
<1> DEFINE p == sec \div 2
<1>1. /\ pc = "store" /\ pc # "idle" /\ pc' = "loop" /\ i' = i + 1
      /\ UNCHANGED <<req, buf, result, ftl_scr>>
  BY DEF DiskMode!LoopStore
<1>2. /\ req.op = "write" /\ i < req.count /\ ftl_scr[sec % 2] = buf[i] /\ buf = Payload(req)
      /\ ~hurt => ftl_scr = [pages[p] EXCEPT ![sec % 2] = buf[i]]
      /\ \A h \in 0 .. 1 : h = sec % 2 \/ ftl_scr[h] \in {pages[p][h], Erased, Junk}
  BY <1>1 DEF DiskWalk
<1>3. /\ sec \in Blocks /\ i \in Slots /\ sec \in Target(req) /\ sec - req.lba = i
      /\ p \in 0 .. Pages - 1 /\ sec % 2 \in 0 .. 1 /\ sec = 2 * p + (sec % 2)
  BY <1>2, DiskInside
<1>4. /\ i \in Nat /\ i' \in Nat /\ req.lba \in Nat /\ req.count \in Nat
      /\ sec = req.lba + i /\ sec' = sec + 1 /\ sec \in Nat
  <2>1. i \in Nat /\ req.lba \in Nat /\ req.count \in Nat
    BY RequestFields DEF Typing
  <2>2. sec = req.lba + i /\ sec' = req'.lba + i'
    BY DEF sec
  <2>3. QED
    BY <1>1, <2>1, <2>2
<1>5. /\ hurt' \in BOOLEAN /\ faults' \in 0 .. MaxFaults
      /\ hurt => hurt'
      /\ pages' \in {pages, [pages EXCEPT ![p] = ftl_scr]}
      /\ ~hurt' => pages' = [pages EXCEPT ![p] = ftl_scr]
  <2>1. \/ hurt' = hurt /\ faults' = faults /\ pages' = [pages EXCEPT ![p] = ftl_scr]
        \/ /\ hurt' = TRUE /\ faults < MaxFaults /\ faults' = faults + 1
           /\ pages' \in {pages, [pages EXCEPT ![p] = ftl_scr]}
    BY DiskSame DEF DiskMode!LoopStore, DiskMode!Works, DiskMode!Fault, DiskMode!Page0
  <2>2. hurt \in BOOLEAN /\ faults \in 0 .. MaxFaults
    BY DEF Typing
  <2>3. faults' \in 0 .. MaxFaults /\ pages' \in {pages, [pages EXCEPT ![p] = ftl_scr]}
    BY <2>1, <2>2, SharedAssumption
  <2>4. /\ hurt' \in BOOLEAN /\ (hurt => hurt')
        /\ ~hurt' => pages' = [pages EXCEPT ![p] = ftl_scr]
    BY <2>1, <2>2, Zenon
  <2>5. QED
    BY <2>3, <2>4
<1>6. pages \in [0 .. Pages - 1 -> Page] /\ ftl_scr \in Page
  BY DEF Typing
<1> HIDE DEF p
<1>7. /\ pages' \in [0 .. Pages - 1 -> Page] /\ blocksOf' \in [Blocks -> Value]
      /\ \A b \in Blocks :
           blocksOf'[b] = blocksOf[b] \/ (b \div 2 = p /\ blocksOf'[b] = ftl_scr[b % 2])
      /\ pages' = [pages EXCEPT ![p] = ftl_scr] => \A b \in Blocks :
           blocksOf'[b] = IF b \div 2 = p THEN ftl_scr[b % 2] ELSE blocksOf[b]
  <2>1. CASE pages' = [pages EXCEPT ![p] = ftl_scr]
    BY <1>3, <1>6, <2>1, PageStored
  <2>2. CASE pages' = pages /\ pages' # [pages EXCEPT ![p] = ftl_scr]
    BY <1>6, <2>2, BlocksAreValues DEF blocksOf
  <2>3. QED
    BY <1>5, <2>1, <2>2
<1>8. ASSUME NEW b \in Blocks
      PROVE  /\ b \in Nat /\ b \div 2 \in 0 .. Pages - 1 /\ b % 2 \in 0 .. 1
             /\ b = 2 * (b \div 2) + (b % 2)
             /\ b = sec <=> b \div 2 = p /\ b % 2 = sec % 2
  BY <1>3, Halves DEF Blocks
<1>9. ASSUME ~hurt', NEW b \in Blocks
      PROVE  blocksOf'[b] = IF b = sec THEN buf[i] ELSE blocksOf[b]
  <2>1. /\ ftl_scr = [pages[p] EXCEPT ![sec % 2] = buf[i]] /\ pages[p] \in Page
        /\ pages' = [pages EXCEPT ![p] = ftl_scr]
    BY <1>2, <1>3, <1>5, <1>6, <1>9
  <2>2. CASE b = sec
    BY <1>2, <1>7, <1>8, <2>1, <2>2
  <2>3. CASE b # sec /\ b \div 2 = p
    <3>1. ftl_scr[b % 2] = pages[p][b % 2]
      BY <1>3, <1>8, <2>1, <2>3 DEF Page
    <3>2. QED
      BY <1>7, <2>1, <2>3, <3>1 DEF blocksOf
  <2>4. CASE b \div 2 # p
    BY <1>7, <1>8, <2>1, <2>4
  <2>5. QED
    BY <2>2, <2>3, <2>4
<1>10. Typing'
  BY <1>1, <1>4, <1>5, <1>7 DEF Typing, efi, osos
<1>11. DiskWalk'
  <2>1. ASSUME ~hurt', NEW b \in req.lba .. sec PROVE blocksOf'[b] = buf'[b - req.lba]
    <3>1. b \in Blocks
      BY <1>3, <1>4, <2>1, StorageAssumption DEF Blocks
    <3>2. CASE b = sec
      BY <1>1, <1>3, <1>9, <2>1, <3>1, <3>2
    <3>3. CASE b # sec
      <4>1. b \in req.lba .. (sec - 1)
        BY <1>4, <2>1, <3>3
      <4>2. blocksOf[b] = buf[b - req.lba]
        BY <1>1, <1>5, <2>1, <4>1 DEF DiskWalk
      <4>3. QED
        BY <1>1, <1>9, <2>1, <3>1, <3>3, <4>2
    <3>4. QED
      BY <3>2, <3>3
  <2>2. ~hurt' => \A b \in req'.lba .. (sec' - 1) : blocksOf'[b] = buf'[b - req'.lba]
    <3>1. sec' - 1 = sec
      BY <1>4
    <3>2. QED
      BY <1>1, <2>1, <3>1
  <2>3. Payload(req)' = buf'
    BY <1>1, <1>2 DEF Payload
  <2>4. i' <= req'.count
    BY <1>1, <1>2, <1>4
  <2>5. QED
    BY <1>1, <2>2, <2>3, <2>4 DEF DiskWalk
<1>12. Confined!WriteBlocks
  <2>1. Confined!Goes
    BY <1>1, <1>5 DEF Confined!Goes, phase, Typing
  <2>2. ASSUME NEW b \in Blocks
        PROVE  \/ blocksOf'[b] = blocksOf[b]
               \/ b \in Target(req) /\ blocksOf'[b] = buf[b - req.lba]
               \/ hurt' /\ b \in Confined!TargetPages(req)
    <3>1. CASE ~hurt'
      BY <1>3, <1>9, <3>1
    <3>2. CASE hurt' /\ b \div 2 = p
      BY <1>3, <3>2, DiskSame DEF Confined!TargetPages, p
    <3>3. CASE b \div 2 # p
      BY <1>7, <3>3
    <3>4. QED
      BY <3>1, <3>2, <3>3
  <2>3. QED
    BY <1>1, <1>2, <1>7, <2>1, <2>2, DiskSame DEF Confined!WriteBlocks, phase
<1>13. Native
  <2>1. buf[i].addr = sec
    BY <1>2, <1>3, <1>4, PayloadType DEF Typing
  <2>2. ASSUME NEW b \in Blocks, b \div 2 = p, blocksOf'[b] = ftl_scr[b % 2]
        PROVE  blocksOf'[b] = blocksOf[b] \/ blocksOf'[b].addr \in {b, -1}
    <3>1. CASE b % 2 = sec % 2
      <4>1. b = sec
        BY <1>8, <2>2, <3>1
      <4>2. QED
        BY <1>2, <2>1, <2>2, <4>1
    <3>2. CASE b % 2 # sec % 2
      <4>1. ftl_scr[b % 2] \in {pages[p][b % 2], Erased, Junk}
        BY <1>2, <1>8, <3>2
      <4>2. blocksOf[b] = pages[p][b % 2]
        BY <2>2 DEF blocksOf
      <4>3. QED
        BY <2>2, <4>1, <4>2 DEF Erased, Junk
    <3>3. QED
      BY <3>1, <3>2
  <2>3. QED
    BY <1>7, <2>2 DEF Native
<1>14. QED
  BY <1>10, <1>11, <1>12, <1>13

(* The answer of the sectored path is always 0.                             *)
LEMMA DiskEnds ==
  ASSUME Typing, DiskWalk, UNCHANGED <<lba, efi, osos>>,
         DiskMode!LoopDone \/ DiskMode!PowerLoss
  PROVE  Typing' /\ DiskWalk' /\ (Confined!Reply \/ Confined!PowerLoss) /\ Native
<1>1. /\ pc # "idle" /\ pc' = "idle" /\ i' = 0 /\ hurt' = FALSE
      /\ UNCHANGED <<req, buf, pages, faults>>
      /\ ftl_scr' \in {ftl_scr, [h \in 0 .. 1 |-> Erased]}
      /\ result' \in {"ok", result}
  BY DiskSame DEF DiskMode!LoopDone, DiskMode!PowerLoss, DiskMode!Return
<1>2. blocksOf' = blocksOf
  BY <1>1 DEF blocksOf
<1>3. DiskWalk'
  BY <1>1 DEF DiskWalk
<1>4. Typing'
  BY <1>1, BlankPages DEF Typing, efi, osos
<1>5. CASE DiskMode!LoopDone
  <2>1. pc = "loop" /\ i = req.count /\ result' = "ok" /\ sec = req.lba + req.count
    BY <1>5, RequestFields DEF DiskMode!LoopDone, DiskMode!Return, DiskWalk, Typing, sec
  <2>2. Target(req) = req.lba .. (sec - 1)
    BY <2>1, RequestFields DEF Target
  <2>3. ~hurt => Confined!Served'
    <3>1. ~hurt => \A b \in Target(req) : blocksOf[b] = buf[b - req.lba]
      BY <2>1, <2>2 DEF DiskWalk
    <3>2. QED
      BY <1>1, <1>2, <3>1, DiskSame DEF Confined!Served
  <2>4. Confined!Reply
    BY <1>1, <1>2, <2>1, <2>3 DEF Confined!Reply, Confined!Answer, phase
  <2>5. QED
    BY <1>2, <1>3, <1>4, <2>4 DEF Native
<1>6. CASE DiskMode!PowerLoss
  <2>1. UNCHANGED result
    BY <1>6 DEF DiskMode!PowerLoss
  <2>2. Confined!PowerLoss
    BY <1>1, <1>2, <2>1 DEF Confined!PowerLoss, phase
  <2>3. QED
    BY <1>2, <1>3, <1>4, <2>2 DEF Native
<1>7. QED
  BY <1>5, <1>6

(* Whatever the FTL below answers, disk mode keeps the invariant, harms no  *)
(* page but those it writes to, and mixes no data.                          *)
LEMMA DiskKeeps ==
  ASSUME SharedInv, DiskStep
  PROVE  SharedInv' /\ Confined!Next /\ Native
<1>1. Typing /\ DiskWalk /\ UNCHANGED <<lba, efi, osos>> /\ DiskMode!Next
  BY DEF SharedInv, DiskStep
<1>2. Typing' /\ DiskWalk' /\ Confined!Next /\ Native
  <2>1. CASE \E r \in Requests : DiskMode!Submit(r)
    BY <1>1, <2>1, DiskSubmit DEF Confined!Next
  <2>2. CASE DiskMode!FastRead
    BY <1>1, <2>2, DiskFastRead DEF Confined!Next
  <2>3. CASE DiskMode!FastWrite
    BY <1>1, <2>3, DiskFastWrite DEF Confined!Next
  <2>4. CASE DiskMode!LoopRead
    BY <1>1, <2>4, DiskLoopRead DEF Confined!Next
  <2>5. CASE DiskMode!LoopFetch
    BY <1>1, <2>5, DiskLoopFetch DEF Confined!Next
  <2>6. CASE DiskMode!LoopStore
    BY <1>1, <2>6, DiskLoopStore DEF Confined!Next
  <2>7. CASE DiskMode!LoopDone \/ DiskMode!PowerLoss
    BY <1>1, <2>7, DiskEnds DEF Confined!Next
  <2>8. QED
    BY <1>1, <2>1, <2>2, <2>3, <2>4, <2>5, <2>6, <2>7 DEF DiskMode!Next
<1>3. QED
  BY <1>2 DEF SharedInv, DiskStep

-----------------------------------------------------------------------------
(* The flash, whoever runs on it.                                           *)

LEMMA SharedStarts == Init => SharedInv
<1> SUFFICES ASSUME Init PROVE SharedInv
  OBVIOUS
<1>1. Efi!Erased = Erased /\ Efi!Slots = Slots
  BY DEF Efi!Erased, Erased, Efi!Slots, Slots
<1>2. /\ req \in Requests /\ result = "none" /\ pc = "idle" /\ faults = 0
      /\ lba = 0 /\ dst = 0 /\ blocks = 0 /\ count = 0 /\ at = 0 /\ status = 0
      /\ i = 0 /\ hurt = FALSE /\ mode \in {"efi", "osos", "disk"}
  BY DEF Init, Efi!Init
<1>3. /\ pages \in [0 .. Pages - 1 -> Page] /\ buf \in [Slots -> Value]
      /\ bio_scratch \in Page /\ scratch \in Page /\ ftl_scr \in Page
  BY <1>1, BlankPages DEF Init, Efi!Init
<1>4. Typing
  <2>1. faults \in 0 .. MaxFaults
    <3>1. faults = 0 /\ MaxFaults \in Nat
      BY <1>2, SharedAssumption
    <3>2. QED
      BY <3>1
  <2>2. hurt \in BOOLEAN
    BY <1>2, Zenon
  <2>3. QED
    BY <1>2, <1>3, <2>1, <2>2 DEF Typing
<1>5. QED
  BY <1>2, <1>4 DEF SharedInv, RetailWalk, DiskWalk, EfiAlone!Walk

(* A reboot finds every bridge at rest and leaves the pages alone.          *)
LEMMA BootKeeps ==
  ASSUME SharedInv, Boot
  PROVE  SharedInv' /\ UNCHANGED pages /\ mode' # mode
<1>1. pc' = "idle" /\ mode' \in {"efi", "osos", "disk"} /\ mode' # mode /\ UNCHANGED pages
  BY DEF Boot, SharedInv
<1>2. Typing'
  <2>1. /\ buf' = [k \in Slots |-> Erased] /\ result' = "none"
        /\ bio_scratch' = [h \in 0 .. 1 |-> Erased]
        /\ scratch' = [h \in 0 .. 1 |-> Erased] /\ ftl_scr' = [h \in 0 .. 1 |-> Erased]
        /\ UNCHANGED <<pages, req, pc, faults, lba, dst, blocks, count, at, status, i, hurt>>
    BY DEF Boot
  <2>2. buf' \in [Slots -> Value]
    BY <2>1, BlankPages
  <2>3. QED
    BY <2>1, <2>2, BlankPages DEF SharedInv, Typing
<1>3. QED
  BY <1>1, <1>2 DEF SharedInv, RetailWalk, DiskWalk, EfiAlone!Walk

LEMMA SharedStep == SharedInv /\ [Next]_vars => SharedInv'
<1> SUFFICES ASSUME SharedInv, [Next]_vars PROVE SharedInv'
  OBVIOUS
<1>1. CASE UNCHANGED vars
  <2>1. /\ UNCHANGED <<mode, pages, req, buf, result, pc, faults, lba, dst, blocks>>
        /\ UNCHANGED <<bio_scratch, count, at, scratch, status, i, ftl_scr, hurt>>
    BY <1>1 DEF vars, request, efi, osos, disk
  <2>2. Typing' /\ (mode = "osos" => RetailWalk') /\ (mode = "disk" => DiskWalk')
    <3>1. Typing'
      BY <2>1 DEF SharedInv, Typing
    <3>2. blocksOf' = blocksOf /\ sec' = sec /\ Payload(req)' = Payload(req)
      BY <2>1 DEF blocksOf, sec, Payload
    <3>3. mode = "osos" => RetailWalk'
      BY <2>1, <3>2 DEF SharedInv, RetailWalk
    <3>4. mode = "disk" => DiskWalk'
      BY <2>1, <3>2 DEF SharedInv, DiskWalk
    <3>5. QED
      BY <3>1, <3>3, <3>4
  <2>3. mode = "efi" => EfiAlone!Walk'
    BY <2>1 DEF SharedInv, EfiAlone!Walk, EfiAlone!disk, EfiAlone!Page0, EfiAlone!Half,
                EfiAlone!Payload
  <2>4. QED
    BY <2>1, <2>2, <2>3 DEF SharedInv
<1>2. QED
  BY <1>1, EfiKeeps, RetailKeeps, DiskKeeps, BootKeeps DEF Next

(* Each bridge is where it says it is in its request, whatever has failed   *)
(* below it and whatever ran before it.                                     *)
THEOREM SharedInvariant == Spec => []SharedInv
BY SharedStarts, SharedStep, PTL DEF Spec

(* tramp_efi_blockio_4k: the EFI has a perfect device of 4 KiB blocks,      *)
(* whatever RetailOS and disk mode have left on the flash.                  *)
THEOREM EfiSeesAPerfectDevice == Spec => EfiIsPerfect
<1>1. SharedInv /\ [Next]_vars =>
        [mode = "efi" /\ mode' = "efi" => Perfect!Next \/ UNCHANGED Perfect!storeVars]_vars
  BY EfiKeeps, BootKeeps DEF Next, RetailStep, DiskStep
<1>2. QED
  BY <1>1, SharedInvariant, PTL DEF Spec, EfiIsPerfect

(* tramp_osos_read and tramp_osos_write: RetailOS is told of every failure, *)
(* and what one costs is confined to the pages of its request.              *)
THEOREM RetailReportsFailures == Spec => ImplementsReportingStore
<1>1. SharedInv /\ [Next]_vars =>
        [mode = "osos" /\ mode' = "osos" =>
           Reporting!Next \/ UNCHANGED Reporting!storeVars]_vars
  BY RetailKeeps, BootKeeps DEF Next, EfiStep, DiskStep
<1>2. QED
  BY <1>1, SharedInvariant, PTL DEF Spec, ImplementsReportingStore

(* tramp_ftl_rd and tramp_ftl_wr: the damage of a failure in disk mode is   *)
(* confined likewise, and an "ok" without a failure means served.           *)
THEOREM DiskModeConfinesDamage == Spec => ImplementsConfinedStore
<1>1. SharedInv /\ [Next]_vars =>
        [mode = "disk" /\ mode' = "disk" =>
           Confined!Next \/ UNCHANGED Confined!storeVars]_vars
  BY DiskKeeps, BootKeeps DEF Next, EfiStep, RetailStep
<1>2. QED
  BY <1>1, SharedInvariant, PTL DEF Spec, ImplementsConfinedStore

(* tramp_ftl_wr: no block is ever left with the data of another, for the    *)
(* scratch is blanked before every page is read into it.                    *)
THEOREM DiskModeMixesNoData == Spec => NoForeignData
<1>1. SharedInv /\ [Next]_vars =>
        [mode = "disk" => \A b \in Blocks :
           blocksOf'[b] = blocksOf[b] \/ blocksOf'[b].addr \in {b, -1}]_vars
  <2>1. UNCHANGED pages => blocksOf' = blocksOf
    BY DEF blocksOf
  <2>2. QED
    BY <2>1, DiskKeeps, BootKeeps DEF Next, EfiStep, RetailStep, Native
<1>2. QED
  BY <1>1, SharedInvariant, PTL DEF Spec, NoForeignData
=============================================================================
