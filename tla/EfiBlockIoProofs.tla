-------------------------- MODULE EfiBlockIoProofs --------------------------
(***************************************************************************)
(* The EFI's block shim implements BlockStore, for every number of pages,  *)
(* every set of requests and every number of failures.                     *)
(***************************************************************************)
EXTENDS EfiBlockIo, TLAPS

(***************************************************************************)
(* A block is one half of one page.                                        *)
(***************************************************************************)
LEMMA Halves ==
  ASSUME NEW b \in Nat
  PROVE  /\ Page0(b) \in Nat /\ Half(b) \in 0 .. 1 /\ b = 2 * Page0(b) + Half(b)
         /\ b \in Blocks <=> Page0(b) \in 0 .. Pages - 1
<1>1. Page0(b) \in Nat /\ Half(b) \in 0 .. 1 /\ b = 2 * Page0(b) + Half(b)
  BY DEF Page0, Half
<1>2. QED
  BY <1>1, StorageAssumption DEF Blocks

(***************************************************************************)
(* While blocks remain the walk is inside the device and the buffer.       *)
(***************************************************************************)
LEMMA Inside ==
  ASSUME TypeOK, Walk, pc # "idle", blocks > 0
  PROVE  /\ lba \in Blocks /\ dst \in Slots /\ lba \in Target(req) /\ lba - req.lba = dst
         /\ req.lba \in Nat /\ req.count \in Nat
         /\ req.lba + req.count <= 2 * Pages /\ req.count <= Buffer
         /\ lba = req.lba + dst /\ blocks = req.count - dst
<1>1. /\ req.lba \in Nat /\ req.count \in Nat
      /\ req.lba + req.count <= 2 * Pages /\ req.count <= Buffer
  BY StorageAssumption DEF TypeOK, Request
<1>2. /\ lba = req.lba + dst /\ blocks = req.count - dst
      /\ lba \in Nat /\ dst \in Nat /\ blocks \in Nat
  BY DEF TypeOK, Walk
<1>3. QED
  BY <1>1, <1>2, StorageAssumption DEF Blocks, Slots, Target

(***************************************************************************)
(* The abstract device means the same blocks, values and requests.         *)
(***************************************************************************)
LEMMA SameDomain ==
  /\ Store!Blocks = Blocks /\ Store!Slots = Slots /\ Store!Value = Value
  /\ \A r : Store!Target(r) = Target(r) /\ Store!Payload(r) = Payload(r)
<1>1. /\ Store!Blocks = Blocks /\ Store!Slots = Slots
      /\ Store!Erased = Erased /\ Store!Junk = Junk
  BY DEF Blocks, Slots, Store!Blocks, Store!Slots, Erased, Store!Erased, Junk, Store!Junk
<1>2. Store!Value = Value
  BY <1>1 DEF Value, Store!Value
<1>3. \A r : Store!Target(r) = Target(r)
  BY DEF Target, Store!Target
<1>4. \A r : Store!Payload(r) = Payload(r)
  BY <1>1 DEF Payload, Store!Payload
<1>5. QED
  BY <1>1, <1>2, <1>3, <1>4

(* The device starts idle, with nothing to keep.                          *)
LEMMA InitInv == Init => TypeOK /\ Walk
<1> SUFFICES ASSUME Init PROVE TypeOK /\ Walk
  OBVIOUS
<1>1. Erased \in Value
  BY DEF Value
<1>2. [h \in 0 .. 1 |-> Erased] \in Page
  BY <1>1 DEF Page
<1>3. TypeOK
  BY <1>1, <1>2, FaultAssumption DEF Init, TypeOK
<1>4. QED
  BY <1>3 DEF Init, Walk

(***************************************************************************)
(* What a request asks to be written is made of block values.              *)
(***************************************************************************)
LEMMA PayloadType ==
  ASSUME NEW r \in Requests
  PROVE  Payload(r) \in [Slots -> Value]
<1>1. /\ r.lba \in Nat /\ r.count \in Nat /\ r.ver \in Versions
      /\ r.lba + r.count <= 2 * Pages /\ r.count <= Buffer
  BY StorageAssumption DEF Request
<1>2. ASSUME NEW i \in Slots, i < r.count
      PROVE  [addr |-> r.lba + i, ver |-> r.ver] \in Value
  <2>1. r.lba + i \in Blocks
    BY <1>1, <1>2, StorageAssumption DEF Slots, Blocks
  <2>2. QED
    BY <1>1, <2>1 DEF Value
<1>3. Erased \in Value
  BY DEF Value
<1>4. QED
  BY <1>2, <1>3 DEF Payload

(* Submit starts the walk at the request, and is the store's Submit.      *)
LEMMA SubmitStep ==
  ASSUME TypeOK, NEW r \in Requests, Submit(r)
  PROVE  TypeOK' /\ Walk' /\ Store!Submit(r)
<1>1. /\ r.lba \in Nat /\ r.count \in Nat
  BY StorageAssumption DEF Request
<1>2. TypeOK'
  BY <1>1, PayloadType DEF Submit, TypeOK
<1>3. Walk'
  BY <1>1 DEF Submit, Walk
<1>4. disk' = disk
  BY DEF Submit, disk
<1>5. Store!Submit(r)
  BY <1>4, SameDomain DEF Submit, Store!Submit
<1>6. QED
  BY <1>2, <1>3, <1>5

(***************************************************************************)
(* The answers that need no transfer, and the power cut.                   *)
(***************************************************************************)
LEMMA LeaveStep ==
  ASSUME TypeOK, Walk, BadParameter \/ Done \/ PowerLoss
  PROVE  TypeOK' /\ Walk' /\ Store!Next
<1>0. disk' = disk
  BY DEF BadParameter, Done, PowerLoss, disk
<1>1. [h \in 0 .. 1 |-> Erased] \in Page
  BY DEF Page, Value
<1>2. TypeOK' /\ Walk'
  BY <1>1 DEF BadParameter, Done, PowerLoss, Return, Leave, TypeOK, Walk
<1>3. CASE BadParameter
  <2>1. Store!Reply
    BY <1>0, <1>3 DEF BadParameter, Return, Leave, Store!Reply, Store!Answer
  <2>2. QED
    BY <1>2, <2>1 DEF Store!Next
<1>4. CASE Done
  <2>1. Store!Served'
    <3>1. /\ req.lba \in Nat /\ req.count \in Nat
      BY StorageAssumption DEF TypeOK, Request
    <3>2. Target(req) = req.lba .. (lba - 1)
      BY <1>4, <3>1 DEF Done, Walk, TypeOK, Target
    <3>3. \A b \in Target(req) : disk[b] = buf[b - req.lba]
      BY <1>4, <3>2 DEF Done, Walk
    <3>4. req' = req /\ buf' = buf
      BY <1>4 DEF Done, Return, Leave
    <3>5. QED
      BY <1>0, <3>3, <3>4, SameDomain DEF Store!Served
  <2>2. Store!Reply
    BY <1>0, <1>4, <2>1 DEF Done, Return, Leave, Store!Reply, Store!Answer
  <2>3. QED
    BY <1>2, <2>2 DEF Store!Next
<1>5. CASE PowerLoss
  <2>1. Store!PowerLoss
    BY <1>0, <1>5 DEF PowerLoss, Leave, Store!PowerLoss
  <2>2. QED
    BY <1>2, <2>1 DEF Store!Next
<1>6. QED
  BY <1>3, <1>4, <1>5

(***************************************************************************)
(* One block through the bounce page.                                      *)
(***************************************************************************)
LEMMA ScratchType ==
  ASSUME TypeOK, Walk, pc = "loop", blocks > 0
  PROVE  /\ pages[Page0(lba)] \in Page
         /\ [pages[Page0(lba)] EXCEPT ![Half(lba)] = buf[dst]] \in Page
         /\ disk[lba] = pages[Page0(lba)][Half(lba)] /\ disk[lba] \in Value
<1>1. lba \in Blocks /\ dst \in Slots
  BY Inside
<1>2. Page0(lba) \in 0 .. Pages - 1 /\ Half(lba) \in 0 .. 1
  BY <1>1, Halves DEF Blocks
<1>3. pages[Page0(lba)] \in Page /\ buf[dst] \in Value
  BY <1>1, <1>2 DEF TypeOK
<1>4. QED
  BY <1>1, <1>2, <1>3 DEF Page, disk

(* A partial block read serves its one block from the bounce page.        *)
LEMMA PartialReadStep ==
  ASSUME TypeOK, Walk, PartialFetch, req.op = "read"
  PROVE  TypeOK' /\ Walk' /\ Store!ReadBlocks
<1>1. pc = "loop" /\ req.whole /\ blocks > 0 /\ blocks \in Nat /\ lba \in Nat /\ dst \in Nat
  BY DEF PartialFetch, Partial, TypeOK
<1>2. /\ lba \in Blocks /\ dst \in Slots /\ lba - req.lba = dst
      /\ req.lba \in Nat /\ req.count \in Nat /\ req.count <= Buffer
      /\ lba = req.lba + dst /\ blocks = req.count - dst
  BY <1>1, Inside
<1>3. /\ buf' = [buf EXCEPT ![dst] = disk[lba]] /\ bio_scratch' = pages[Page0(lba)]
      /\ pc' = "loop" /\ lba' = lba + 1 /\ dst' = dst + 1 /\ blocks' = blocks - 1
      /\ UNCHANGED <<pages, req, result, faults>>
  BY <1>1, ScratchType DEF PartialFetch, Continue
<1>4. disk' = disk
  BY <1>3 DEF disk
<1>5. TypeOK'
  <2>1. buf' \in [Slots -> Value] /\ bio_scratch' \in Page
    BY <1>1, <1>3, ScratchType DEF TypeOK
  <2>2. lba' \in Nat /\ dst' \in Nat /\ blocks' \in Nat
    BY <1>1, <1>3
  <2>3. QED
    BY <2>1, <2>2, <1>3 DEF TypeOK
<1>6. buf \in [Slots -> Value]
  BY DEF TypeOK
<1>7. Walk'
  <2>1. \A b \in req.lba .. (lba - 1) : disk[b] = buf[b - req.lba]
    BY <1>1 DEF Walk
  <2>2. ASSUME NEW b \in req.lba .. lba PROVE disk[b] = buf'[b - req.lba]
    <3>1. CASE b = lba
      BY <3>1, <1>2, <1>3, <1>6
    <3>2. CASE b # lba
      <4>1. b \in req.lba .. (lba - 1) /\ b - req.lba # dst /\ b - req.lba \in Slots
        BY <3>2, <1>1, <1>2, StorageAssumption DEF Slots
      <4>2. QED
        BY <4>1, <2>1, <1>3, <1>6
    <3>3. QED
      BY <3>1, <3>2
  <2>3. lba' = req'.lba + dst' /\ blocks' = req'.count - dst' /\ lba' - 1 = lba
    BY <1>1, <1>2, <1>3
  <2>4. \A b \in req'.lba .. (lba' - 1) : disk'[b] = buf'[b - req'.lba]
    BY <2>2, <2>3, <1>3, <1>4
  <2>5. QED
    BY <2>3, <2>4, <1>3 DEF Walk
<1>8. Store!ReadBlocks
  <2>1. buf' \in [Slots -> Value]
    BY <1>5 DEF TypeOK
  <2>2. \A i \in Slots : i >= req.count => buf'[i] = buf[i]
    BY <1>1, <1>2, <1>3, <1>6 DEF Slots
  <2>3. Store!Goes
    BY <1>1, <1>3 DEF Store!Goes
  <2>4. QED
    BY <1>1, <1>3, <1>4, <2>1, <2>2, <2>3, SameDomain DEF Store!ReadBlocks
<1>9. QED
  BY <1>5, <1>7, <1>8

(* The fetch of a partial write splices, and shows no change.             *)
LEMMA PartialSpliceStep ==
  ASSUME TypeOK, Walk, PartialFetch, req.op = "write"
  PROVE  TypeOK' /\ Walk' /\ UNCHANGED Store!storeVars
<1>1. pc = "loop" /\ req.whole /\ blocks > 0 /\ blocks \in Nat /\ lba \in Nat /\ dst \in Nat
  BY DEF PartialFetch, Partial, TypeOK
<1>2. /\ bio_scratch' = [pages[Page0(lba)] EXCEPT ![Half(lba)] = buf[dst]]
      /\ pc' = "store" /\ lba' = lba /\ dst' = dst /\ blocks' = blocks
      /\ UNCHANGED <<pages, req, result, buf, faults>>
  BY <1>1 DEF PartialFetch, Continue
<1>3. disk' = disk
  BY <1>2 DEF disk
<1>4. TypeOK'
  BY <1>1, <1>2, ScratchType DEF TypeOK
<1>5. Page0(lba)' = Page0(lba) /\ Half(lba)' = Half(lba)
  BY <1>2 DEF Page0, Half
<1>6. Walk'
  BY <1>1, <1>2, <1>3, <1>5 DEF Walk
<1>7. QED
  BY <1>1, <1>2, <1>3, <1>4, <1>6 DEF Store!storeVars

(* A failed fetch ends the call with an error, and nothing else.          *)
LEMMA PartialFetchFailsStep ==
  ASSUME TypeOK, Walk, PartialFetchFails
  PROVE  TypeOK' /\ Walk' /\ Store!Reply
<1>1. disk' = disk
  BY DEF PartialFetchFails, disk
<1>2. [h \in 0 .. 1 |-> Junk] \in Page
  BY DEF Page, Value
<1>3. faults' \in 0 .. MaxFaults
  BY FaultAssumption DEF PartialFetchFails, Fault, TypeOK
<1>4. TypeOK' /\ Walk'
  BY <1>2, <1>3 DEF PartialFetchFails, Return, Leave, TypeOK, Walk
<1>5. Store!Reply
  BY <1>1 DEF PartialFetchFails, Partial, Return, Leave, Store!Reply, Store!Answer
<1>6. QED
  BY <1>4, <1>5

(***************************************************************************)
(* Storing the bounce page changes one block: the read before it, under    *)
(* the same request, saved the other half.                                 *)
(***************************************************************************)
LEMMA StoreChangesOneBlock ==
  ASSUME TypeOK, Walk, pc = "store", pages' = [pages EXCEPT ![Page0(lba)] = bio_scratch]
  PROVE  /\ disk' = [disk EXCEPT ![lba] = buf[dst]]
         /\ pages' \in [0 .. Pages - 1 -> Page] /\ disk' \in [Blocks -> Value]
<1>1. blocks > 0 /\ bio_scratch = [pages[Page0(lba)] EXCEPT ![Half(lba)] = buf[dst]]
  BY DEF Walk
<1>2. lba \in Blocks /\ dst \in Slots /\ lba \in Nat
  BY <1>1, Inside DEF Blocks
<1>3. Page0(lba) \in 0 .. Pages - 1 /\ Half(lba) \in 0 .. 1
      /\ lba = 2 * Page0(lba) + Half(lba)
  BY <1>2, Halves
<1>4. pages' \in [0 .. Pages - 1 -> Page]
  BY DEF TypeOK
<1>5. pages[Page0(lba)] \in [0 .. 1 -> Value]
  BY <1>3 DEF TypeOK, Page
<1>6. ASSUME NEW b \in Blocks
      PROVE  /\ pages'[Page0(b)][Half(b)] = [disk EXCEPT ![lba] = buf[dst]][b]
             /\ pages'[Page0(b)][Half(b)] \in Value
  <2>1. /\ Page0(b) \in 0 .. Pages - 1 /\ Half(b) \in 0 .. 1
        /\ b = 2 * Page0(b) + Half(b) /\ b \in Nat
    BY Halves DEF Blocks
  <2>2. CASE b = lba
    BY <2>2, <1>1, <1>2, <1>3, <1>5 DEF disk, TypeOK
  <2>3. CASE b # lba /\ Page0(b) = Page0(lba)
    <3>1. Half(b) # Half(lba)
      BY <2>1, <2>3, <1>3
    <3>2. pages'[Page0(b)][Half(b)] = pages[Page0(b)][Half(b)]
      BY <3>1, <2>1, <2>3, <1>1, <1>3, <1>5 DEF TypeOK
    <3>3. QED
      BY <3>2, <2>1, <2>3, <1>2, <1>5 DEF disk
  <2>4. CASE Page0(b) # Page0(lba)
    <3>1. pages'[Page0(b)] = pages[Page0(b)]
      BY <2>1, <2>4, <1>3 DEF TypeOK
    <3>2. QED
      BY <3>1, <2>1, <2>4, <1>2 DEF disk, TypeOK, Page
  <2>5. QED
    BY <2>2, <2>3, <2>4
<1>7. disk' = [b \in Blocks |-> pages'[Page0(b)][Half(b)]]
  BY DEF disk, Page0, Half
<1>8. disk' = [disk EXCEPT ![lba] = buf[dst]]
  BY <1>6, <1>7 DEF disk
<1>9. QED
  BY <1>4, <1>6, <1>7, <1>8

(* The store of a partial write serves its one block.                     *)
LEMMA PartialStoreStep ==
  ASSUME TypeOK, Walk, PartialStore
  PROVE  TypeOK' /\ Walk' /\ Store!WriteBlocks
<1>1. /\ pc = "store" /\ pages' = [pages EXCEPT ![Page0(lba)] = bio_scratch]
      /\ pc' = "loop" /\ lba' = lba + 1 /\ dst' = dst + 1 /\ blocks' = blocks - 1
      /\ UNCHANGED <<req, buf, result, bio_scratch, faults>>
  BY DEF PartialStore, Continue
<1>2. /\ req.whole /\ req.op = "write" /\ blocks > 0
      /\ blocks \in Nat /\ lba \in Nat /\ dst \in Nat /\ buf \in [Slots -> Value]
  BY <1>1 DEF Walk, TypeOK
<1>3. /\ lba \in Blocks /\ dst \in Slots /\ lba \in Target(req) /\ lba - req.lba = dst
      /\ req.lba \in Nat /\ req.count \in Nat
      /\ lba = req.lba + dst /\ blocks = req.count - dst
      /\ req.lba + req.count <= 2 * Pages
  BY <1>1, <1>2, Inside
<1>4. /\ disk' = [disk EXCEPT ![lba] = buf[dst]]
      /\ pages' \in [0 .. Pages - 1 -> Page] /\ disk' \in [Blocks -> Value]
  BY <1>1, StoreChangesOneBlock
<1>5. TypeOK'
  BY <1>1, <1>2, <1>4 DEF TypeOK
<1>6. \A b \in Blocks : disk'[b] = IF b = lba THEN buf[dst] ELSE disk[b]
  BY <1>4 DEF disk
<1>7. Walk'
  <2>1. \A b \in req.lba .. (lba - 1) : disk[b] = buf[b - req.lba]
    BY <1>1, <1>2 DEF Walk
  <2>2. ASSUME NEW b \in req.lba .. lba PROVE disk'[b] = buf[b - req.lba]
    <3>1. b \in Blocks
      BY <1>2, <1>3, StorageAssumption DEF Blocks
    <3>2. CASE b = lba
      BY <3>1, <3>2, <1>3, <1>6
    <3>3. CASE b # lba
      BY <3>1, <3>3, <2>1, <1>2, <1>3, <1>6
    <3>4. QED
      BY <3>2, <3>3
  <2>3. lba' = req'.lba + dst' /\ blocks' = req'.count - dst' /\ lba' - 1 = lba
    BY <1>1, <1>2, <1>3
  <2>4. \A b \in req'.lba .. (lba' - 1) : disk'[b] = buf'[b - req'.lba]
    BY <2>2, <2>3, <1>1
  <2>5. buf' = Payload(req)'
    BY <1>1, <1>2 DEF Walk, Payload
  <2>6. QED
    BY <2>3, <2>4, <2>5, <1>1 DEF Walk
<1>8. Store!WriteBlocks
  <2>1. Store!Goes
    BY <1>1 DEF Store!Goes
  <2>2. \A b \in Blocks : \/ disk'[b] = disk[b]
                          \/ b \in Target(req) /\ disk'[b] = buf[b - req.lba]
    <3> TAKE b \in Blocks
    <3>1. CASE b = lba
      BY <3>1, <1>3, <1>6
    <3>2. CASE b # lba
      BY <3>2, <1>6
    <3>3. QED
      BY <3>1, <3>2
  <2>3. QED
    BY <1>1, <1>2, <1>4, <2>1, <2>2, SameDomain DEF Store!WriteBlocks
<1>9. QED
  BY <1>5, <1>7, <1>8

(* A failed store changes that one block or none.                         *)
LEMMA PartialStoreFailsStep ==
  ASSUME TypeOK, Walk, PartialStoreFails
  PROVE  TypeOK' /\ Walk' /\ Store!Next
<1>1. /\ pc = "store" /\ pc' = "idle" /\ lba' = 0 /\ dst' = 0 /\ blocks' = 0
      /\ result' = "error" /\ UNCHANGED <<req, buf, bio_scratch>>
  BY DEF PartialStoreFails, Return, Leave
<1>2. faults' \in 0 .. MaxFaults
  BY FaultAssumption DEF PartialStoreFails, Fault, TypeOK
<1>3. Walk'
  BY <1>1 DEF Walk
<1>4. CASE pages' = pages
  <2>1. TypeOK'
    BY <1>1, <1>2, <1>4 DEF TypeOK
  <2>2. Store!Reply
    BY <1>1, <1>4 DEF Store!Reply, Store!Answer, disk
  <2>3. QED
    BY <2>1, <2>2, <1>3 DEF Store!Next
<1>5. CASE pages' = [pages EXCEPT ![Page0(lba)] = bio_scratch]
  <2>1. /\ disk' = [disk EXCEPT ![lba] = buf[dst]]
        /\ pages' \in [0 .. Pages - 1 -> Page] /\ disk' \in [Blocks -> Value]
    BY <1>1, <1>5, StoreChangesOneBlock
  <2>2. TypeOK'
    BY <1>1, <1>2, <2>1 DEF TypeOK
  <2>3. lba \in Target(req) /\ lba - req.lba = dst /\ req.op = "write"
    BY <1>1, Inside DEF Walk
  <2>4. \A b \in Blocks : \/ disk'[b] = disk[b]
                          \/ b \in Target(req) /\ disk'[b] = buf[b - req.lba]
    <3> TAKE b \in Blocks
    <3>1. disk'[b] = IF b = lba THEN buf[dst] ELSE disk[b]
      BY <2>1 DEF disk
    <3>2. CASE b = lba
      BY <3>1, <3>2, <2>3
    <3>3. CASE b # lba
      BY <3>1, <3>3
    <3>4. QED
      BY <3>2, <3>3
  <2>5. Store!Goes
    BY <1>1 DEF Store!Goes, Store!Answer
  <2>6. Store!WriteBlocks
    BY <1>1, <2>1, <2>3, <2>4, <2>5, SameDomain DEF Store!WriteBlocks
  <2>7. QED
    BY <2>2, <2>6, <1>3 DEF Store!Next
<1>6. QED
  BY <1>4, <1>5 DEF PartialStoreFails

(***************************************************************************)
(* The aligned run lies inside the request, and is made of whole pages.    *)
(***************************************************************************)
LEMMA RunInside ==
  ASSUME TypeOK, Walk, Aligned
  PROVE  /\ blocks \div 2 \in Nat \ {0} /\ 2 * (blocks \div 2) <= blocks
         /\ lba \in Nat /\ dst \in Nat /\ blocks \in Nat
         /\ req.lba \in Nat /\ req.count \in Nat
         /\ req.lba + req.count <= 2 * Pages /\ req.count <= Buffer
         /\ lba = req.lba + dst /\ blocks = req.count - dst
         /\ Run \subseteq Blocks /\ Run \subseteq Target(req)
         /\ \A b \in Run : Slot(b) \in Slots /\ Slot(b) = b - req.lba
         /\ RunPages \subseteq 0 .. Pages - 1
         /\ \A b \in Blocks : b \in Run <=> Page0(b) \in RunPages
<1>1. blocks \in Nat /\ lba \in Nat /\ dst \in Nat /\ blocks >= 2 /\ lba % 2 = 0
  BY DEF Aligned, TypeOK, Half
<1>2. blocks \div 2 \in Nat \ {0} /\ 2 * (blocks \div 2) <= blocks
  BY <1>1
<1>3. /\ lba = req.lba + dst /\ blocks = req.count - dst
      /\ lba \in Nat /\ dst \in Nat /\ blocks \in Nat /\ req.lba \in Nat /\ req.count \in Nat
      /\ req.lba + req.count <= 2 * Pages /\ req.count <= Buffer
  BY <1>1, Inside DEF Aligned
<1> DEFINE n == blocks \div 2
<1>4. n \in Nat \ {0} /\ 2 * n <= blocks /\ Run = lba .. (lba + 2 * n - 1)
  BY <1>2 DEF Run
<1>5. PICK p0 \in Nat : lba = 2 * p0
  <2>1. lba \div 2 \in Nat /\ lba = 2 * (lba \div 2)
    BY <1>1
  <2>2. QED
    BY <2>1
<1> HIDE DEF n
<1>6a. ASSUME NEW b \in Run
       PROVE  /\ b \in Nat /\ b >= req.lba /\ b < req.lba + req.count
              /\ Slot(b) = b - req.lba
  <2>1. b \in Int /\ b >= lba /\ b <= lba + 2 * n - 1
    BY <1>3, <1>4
  <2>2. lba + 2 * n <= req.lba + req.count /\ lba >= req.lba
    BY <1>3, <1>4
  <2>3. b \in Nat /\ b >= req.lba
    BY <2>1, <2>2, <1>3
  <2>4. b < req.lba + req.count
    <3>1. n \in Nat
      BY <1>4
    <3>2. QED
      BY <3>1, <2>1, <2>2, <1>3
  <2>5. Slot(b) = b - req.lba
    BY <2>1, <1>3 DEF Slot
  <2>6. QED
    BY <2>3, <2>4, <2>5
<1>6. Run \subseteq Blocks /\ Run \subseteq Target(req)
  BY <1>3, <1>6a, StorageAssumption DEF Blocks, Target
<1>7. \A b \in Run : Slot(b) \in Slots /\ Slot(b) = b - req.lba
  BY <1>3, <1>6a, StorageAssumption DEF Slots
<1>8. ASSUME NEW b \in Blocks
      PROVE  b \in Run <=> Page0(b) \in p0 .. (p0 + n - 1)
  <2>1. /\ b \in Nat /\ Page0(b) \in Nat /\ Half(b) \in 0 .. 1
        /\ b = 2 * Page0(b) + Half(b)
    BY Halves DEF Blocks
  <2>2. QED
    BY <2>1, <1>4, <1>5
<1>9. ASSUME NEW b \in Run
      PROVE  Page0(b) \in 0 .. Pages - 1
  BY <1>6, Halves DEF Blocks
<1>10. RunPages \subseteq 0 .. Pages - 1
  BY <1>9 DEF RunPages
<1>11. ASSUME NEW b \in Blocks
       PROVE  b \in Run <=> Page0(b) \in RunPages
  <2>1. b \in Run => Page0(b) \in RunPages
    BY DEF RunPages
  <2>2. ASSUME Page0(b) \in RunPages PROVE b \in Run
    <3>1. PICK c \in Run : Page0(b) = Page0(c)
      BY <2>2 DEF RunPages
    <3>2. QED
      BY <3>1, <1>6, <1>8
  <2>3. QED
    BY <2>1, <2>2
<1>12. QED
  BY <1>1, <1>2, <1>3, <1>6, <1>7, <1>10, <1>11

(***************************************************************************)
(* Where a run leaves the walk: everything up to its end is served.        *)
(***************************************************************************)
LEMMA AlignedReadStep ==
  ASSUME TypeOK, Walk, AlignedXfer, req.op = "read"
  PROVE  TypeOK' /\ Walk' /\ Store!ReadBlocks
<1> DEFINE n == 2 * (blocks \div 2)
<1>0. /\ n \in Nat /\ n <= blocks /\ lba \in Nat /\ dst \in Nat /\ blocks \in Nat
      /\ req.lba \in Nat /\ req.count \in Nat /\ req.count <= Buffer
      /\ lba = req.lba + dst /\ blocks = req.count - dst
  <2>1. Aligned
    BY DEF AlignedXfer
  <2>2. QED
    BY <2>1, RunInside
<1>1. /\ Run \subseteq Blocks
      /\ \A b \in Run : Slot(b) \in Slots /\ Slot(b) = b - req.lba
      /\ pc = "loop" /\ req.whole
  <2>1. Aligned
    BY DEF AlignedXfer
  <2>2. QED
    BY <2>1, RunInside DEF Aligned
<1>2. /\ buf' = RunRead /\ pc' = "loop" /\ lba' = lba + n /\ dst' = dst + n
      /\ blocks' = blocks - n /\ UNCHANGED <<pages, req, result, bio_scratch, faults>>
  BY DEF AlignedXfer, Continue
<1>3. Run = lba .. (lba + n - 1)
  BY DEF Run
<1> HIDE DEF n
<1>4. disk' = disk
  BY <1>2 DEF disk
<1>5. buf \in [Slots -> Value] /\ pages \in [0 .. Pages - 1 -> Page]
  BY DEF TypeOK
<1>6. ASSUME NEW i \in Slots
      PROVE  /\ lba + (i - dst) = req.lba + i
             /\ req.lba + i \in Run => /\ buf'[i] = disk[req.lba + i] /\ disk[req.lba + i] \in Value
                                       /\ i < req.count
             /\ req.lba + i \notin Run => buf'[i] = buf[i]
             /\ buf'[i] \in Value
  <2>1. lba + (i - dst) = req.lba + i /\ i \in Nat
    BY <1>0, StorageAssumption DEF Slots
  <2>2. buf'[i] = IF req.lba + i \in Run
                    THEN pages[Page0(req.lba + i)][Half(req.lba + i)] ELSE buf[i]
    BY <1>2, <2>1 DEF RunRead
  <2>3. CASE req.lba + i \in Run
    <3>0. req.lba + i <= lba + n - 1
      BY <2>1, <2>3, <1>0, <1>3
    <3>1. req.lba + i \in Blocks /\ i < req.count
      BY <2>1, <2>3, <3>0, <1>0, <1>1
    <3>2. Page0(req.lba + i) \in 0 .. Pages - 1 /\ Half(req.lba + i) \in 0 .. 1
      BY <3>1, Halves DEF Blocks
    <3>3. buf'[i] = disk[req.lba + i] /\ disk[req.lba + i] \in Value
      BY <2>2, <2>3, <3>1, <3>2, <1>5 DEF disk, Page
    <3>4. QED
      BY <2>1, <2>3, <3>1, <3>3
  <2>4. CASE req.lba + i \notin Run
    BY <2>1, <2>2, <2>4, <1>5
  <2>5. QED
    BY <2>3, <2>4
<1>7. buf' \in [Slots -> Value]
  BY <1>2, <1>6 DEF RunRead
<1>8. lba' \in Nat /\ dst' \in Nat /\ blocks' \in Nat /\ lba' - 1 = lba + n - 1
      /\ lba' = req'.lba + dst' /\ blocks' = req'.count - dst'
  BY <1>0, <1>2
<1>9. TypeOK'
  BY <1>2, <1>7, <1>8 DEF TypeOK
<1>10. Walk'
  <2>1. \A b \in req.lba .. (lba - 1) : disk[b] = buf[b - req.lba]
    BY <1>1 DEF Walk
  <2>2. ASSUME NEW b \in req.lba .. (lba + n - 1) PROVE disk[b] = buf'[b - req.lba]
    <3>1. b - req.lba \in Slots /\ req.lba + (b - req.lba) = b
      <4>1. b \in Nat /\ b - req.lba \in Nat /\ b <= lba + n - 1
        BY <1>0
      <4>2. b - req.lba < req.count
        BY <4>1, <1>0
      <4>3. QED
        BY <4>1, <4>2, <1>0, StorageAssumption DEF Slots
    <3>2. CASE b \in Run
      BY <3>1, <3>2, <1>6
    <3>3. CASE b \notin Run
      <4>1. b \in req.lba .. (lba - 1)
        BY <3>3, <1>0, <1>3
      <4>2. QED
        BY <3>1, <3>3, <4>1, <2>1, <1>6
    <3>4. QED
      BY <3>2, <3>3
  <2>3. \A b \in req'.lba .. (lba' - 1) : disk'[b] = buf'[b - req'.lba]
    BY <2>2, <1>2, <1>4, <1>8
  <2>4. QED
    BY <2>3, <1>2, <1>8 DEF Walk
<1>11. Store!ReadBlocks
  <2>1. \A i \in Slots : i >= req.count => buf'[i] = buf[i]
    <3>1. ASSUME NEW i \in Slots, i >= req.count PROVE req.lba + i \notin Run
      <4>1. i \in Nat /\ req.lba + i > lba + n - 1
        BY <3>1, <1>0, StorageAssumption DEF Slots
      <4>2. QED
        BY <4>1, <1>0, <1>3
    <3>2. QED
      BY <3>1, <1>6
  <2>2. Store!Goes
    BY <1>1, <1>2 DEF Store!Goes
  <2>3. QED
    BY <1>1, <1>2, <1>4, <1>7, <2>1, <2>2, SameDomain DEF Store!ReadBlocks
<1>12. QED
  BY <1>9, <1>10, <1>11

(***************************************************************************)
(* Writing some pages of the run changes their blocks, to the request's.   *)
(***************************************************************************)
LEMMA RunWrittenBlocks ==
  ASSUME TypeOK, Walk, Aligned, NEW S \in SUBSET RunPages, pages' = RunWritten(S)
  PROVE  /\ pages' \in [0 .. Pages - 1 -> Page] /\ disk' \in [Blocks -> Value]
         /\ \A b \in Blocks :
              disk'[b] = IF Page0(b) \in S THEN buf[b - req.lba] ELSE disk[b]
         /\ \A b \in Blocks : Page0(b) \in S => b \in Target(req)
<1>1. /\ lba \in Nat /\ dst \in Nat /\ req.lba \in Nat /\ lba = req.lba + dst
      /\ Run \subseteq Target(req) /\ RunPages \subseteq 0 .. Pages - 1
      /\ \A b \in Run : Slot(b) \in Slots /\ Slot(b) = b - req.lba
      /\ \A b \in Blocks : b \in Run <=> Page0(b) \in RunPages
  BY RunInside
<1>2. buf \in [Slots -> Value] /\ pages \in [0 .. Pages - 1 -> Page]
  BY DEF TypeOK
<1>3. \A p \in 0 .. Pages - 1 :
        pages'[p] = IF p \in S THEN [h \in 0 .. 1 |-> buf[Slot(2 * p + h)]] ELSE pages[p]
  BY DEF RunWritten
<1>4. ASSUME NEW p \in 0 .. Pages - 1, NEW h \in 0 .. 1
      PROVE  /\ 2 * p + h \in Blocks /\ Page0(2 * p + h) = p /\ Half(2 * p + h) = h
  <2>1. 2 * p + h \in Nat /\ 2 * p + h \in Blocks
    BY StorageAssumption DEF Blocks
  <2>2. Page0(2 * p + h) = p /\ Half(2 * p + h) = h
    BY <2>1 DEF Page0, Half
  <2>3. QED
    BY <2>1, <2>2
<1>5. ASSUME NEW p \in 0 .. Pages - 1 PROVE pages'[p] \in Page
  <2>1. CASE p \in S
    <3>1. \A h \in 0 .. 1 : 2 * p + h \in Run
      BY <2>1, <1>1, <1>4
    <3>2. \A h \in 0 .. 1 : buf[Slot(2 * p + h)] \in Value
      BY <3>1, <1>1, <1>2
    <3>3. QED
      BY <2>1, <3>2, <1>3 DEF Page
  <2>2. CASE p \notin S
    BY <2>2, <1>2, <1>3
  <2>3. QED
    BY <2>1, <2>2
<1>6. pages' \in [0 .. Pages - 1 -> Page]
  BY <1>5 DEF RunWritten
<1>7. ASSUME NEW b \in Blocks
      PROVE  /\ disk'[b] = IF Page0(b) \in S THEN buf[b - req.lba] ELSE disk[b]
             /\ disk'[b] \in Value
             /\ Page0(b) \in S => b \in Target(req)
  <2>1. /\ Page0(b) \in 0 .. Pages - 1 /\ Half(b) \in 0 .. 1
        /\ b = 2 * Page0(b) + Half(b)
    BY Halves DEF Blocks
  <2>2. disk'[b] = pages'[Page0(b)][Half(b)]
    BY DEF disk, Page0, Half
  <2>3. disk'[b] \in Value
    BY <2>1, <2>2, <1>6 DEF Page
  <2>4. CASE Page0(b) \in S
    <3>1. b \in Run
      BY <2>4, <1>1
    <3>2. disk'[b] = buf[Slot(b)]
      BY <2>1, <2>2, <2>4, <1>3
    <3>3. QED
      BY <2>3, <2>4, <3>1, <3>2, <1>1
  <2>5. CASE Page0(b) \notin S
    BY <2>1, <2>2, <2>3, <2>5, <1>3 DEF disk
  <2>6. QED
    BY <2>4, <2>5
<1>8. disk' \in [Blocks -> Value]
  <2>1. disk' = [b \in Blocks |-> pages'[Page0(b)][Half(b)]]
    BY DEF disk, Page0, Half
  <2>2. QED
    BY <2>1, <1>7
<1>9. QED
  BY <1>6, <1>7, <1>8

(* A whole run written is the store's Serve of all its blocks.            *)
LEMMA AlignedWriteStep ==
  ASSUME TypeOK, Walk, AlignedXfer, req.op # "read"
  PROVE  TypeOK' /\ Walk' /\ Store!WriteBlocks
<1> DEFINE n == 2 * (blocks \div 2)
<1>1. /\ n \in Nat /\ n <= blocks /\ lba \in Nat /\ dst \in Nat /\ blocks \in Nat
      /\ req.lba \in Nat /\ req.count \in Nat /\ req.lba + req.count <= 2 * Pages
      /\ lba = req.lba + dst /\ blocks = req.count - dst
  <2>1. Aligned
    BY DEF AlignedXfer
  <2>2. QED
    BY <2>1, RunInside
<1>2. /\ pages' = RunWritten(RunPages) /\ pc' = "loop" /\ lba' = lba + n /\ dst' = dst + n
      /\ blocks' = blocks - n /\ UNCHANGED <<req, buf, result, bio_scratch, faults>>
  BY DEF AlignedXfer, Continue
<1>3. Run = lba .. (lba + n - 1)
  BY DEF Run
<1> HIDE DEF n
<1>4. Aligned /\ pc = "loop" /\ req.whole /\ req.op = "write"
  BY StorageAssumption DEF AlignedXfer, Aligned, TypeOK, Request
<1>5. /\ pages' \in [0 .. Pages - 1 -> Page] /\ disk' \in [Blocks -> Value]
      /\ \A b \in Blocks :
           disk'[b] = IF Page0(b) \in RunPages THEN buf[b - req.lba] ELSE disk[b]
      /\ \A b \in Blocks : Page0(b) \in RunPages => b \in Target(req)
  BY <1>2, <1>4, RunWrittenBlocks
<1>6. \A b \in Blocks : b \in Run <=> Page0(b) \in RunPages
  BY <1>4, RunInside
<1>7. lba' \in Nat /\ dst' \in Nat /\ blocks' \in Nat /\ lba' - 1 = lba + n - 1
      /\ lba' = req'.lba + dst' /\ blocks' = req'.count - dst'
  BY <1>1, <1>2
<1>8. TypeOK'
  BY <1>2, <1>5, <1>7 DEF TypeOK
<1>9. Walk'
  <2>1. \A b \in req.lba .. (lba - 1) : disk[b] = buf[b - req.lba]
    BY <1>4 DEF Walk
  <2>2. ASSUME NEW b \in req.lba .. (lba + n - 1) PROVE disk'[b] = buf[b - req.lba]
    <3>1. b \in Blocks
      <4>1. b \in Nat /\ b <= lba + n - 1 /\ lba + n <= req.lba + req.count
        BY <1>1
      <4>2. QED
        BY <4>1, <1>1, StorageAssumption DEF Blocks
    <3>2. CASE b \in Run
      BY <3>1, <3>2, <1>5, <1>6
    <3>3. CASE b \notin Run
      <4>1. b \in req.lba .. (lba - 1)
        BY <3>3, <1>1, <1>3
      <4>2. QED
        BY <3>1, <3>3, <4>1, <2>1, <1>5, <1>6
    <3>4. QED
      BY <3>2, <3>3
  <2>3. \A b \in req'.lba .. (lba' - 1) : disk'[b] = buf'[b - req'.lba]
    BY <2>2, <1>2, <1>7
  <2>4. buf' = Payload(req)'
    BY <1>2, <1>4 DEF Walk, Payload
  <2>5. QED
    BY <2>3, <2>4, <1>2, <1>7 DEF Walk
<1>10. Store!WriteBlocks
  <2>1. Store!Goes
    BY <1>2, <1>4 DEF Store!Goes
  <2>2. \A b \in Blocks : \/ disk'[b] = disk[b]
                          \/ b \in Target(req) /\ disk'[b] = buf[b - req.lba]
    BY <1>5
  <2>3. QED
    BY <1>2, <1>4, <1>5, <2>1, <2>2, SameDomain DEF Store!WriteBlocks
<1>11. QED
  BY <1>8, <1>9, <1>10

(* A failed run may have written some of its pages, none outside.         *)
LEMMA AlignedFailsStep ==
  ASSUME TypeOK, Walk, AlignedXferFails
  PROVE  TypeOK' /\ Walk' /\ Store!Next
<1>1. /\ pc' = "idle" /\ lba' = 0 /\ dst' = 0 /\ blocks' = 0 /\ result' = "error"
      /\ Aligned /\ pc = "loop" /\ UNCHANGED <<req, bio_scratch>>
  BY DEF AlignedXferFails, Aligned, Return, Leave
<1>2. faults' \in 0 .. MaxFaults
  BY FaultAssumption DEF AlignedXferFails, Fault, TypeOK
<1>3. Walk'
  BY <1>1 DEF Walk
<1>4. Store!Goes
  BY <1>1 DEF Store!Goes, Store!Answer
<1>5. CASE req.op = "read" /\ pages' = pages
           /\ \E lost \in SUBSET {i \in Slots : lba + (i - dst) \in Run} :
                buf' = [i \in Slots |-> IF i \in lost THEN Junk ELSE buf[i]]
  <2>1. PICK lost \in SUBSET {i \in Slots : lba + (i - dst) \in Run} :
          buf' = [i \in Slots |-> IF i \in lost THEN Junk ELSE buf[i]]
    BY <1>5
  <2>2. buf' \in [Slots -> Value]
    BY <2>1 DEF TypeOK, Value
  <2>3. \A i \in Slots : i >= req.count => buf'[i] = buf[i]
    <3>1. /\ lba \in Nat /\ dst \in Nat /\ req.lba \in Nat /\ req.count \in Nat
          /\ lba = req.lba + dst
      BY <1>1, RunInside
    <3>2. \A b \in Run : b < req.lba + req.count
      BY <1>1, <3>1, RunInside DEF Target
    <3>3. ASSUME NEW i \in Slots, i >= req.count PROVE i \notin lost
      <4>1. i \in Nat /\ lba + (i - dst) >= req.lba + req.count
        BY <3>1, <3>3, StorageAssumption DEF Slots
      <4>2. lba + (i - dst) \notin Run
        BY <3>1, <3>2, <4>1
      <4>3. QED
        BY <4>2
    <3>4. QED
      BY <2>1, <3>3
  <2>4. disk' = disk
    BY <1>5 DEF disk
  <2>5. TypeOK'
    BY <1>1, <1>2, <1>5, <2>2 DEF TypeOK
  <2>6. Store!ReadBlocks
    BY <1>1, <1>4, <1>5, <2>2, <2>3, <2>4, SameDomain DEF Store!ReadBlocks
  <2>7. QED
    BY <1>3, <2>5, <2>6 DEF Store!Next
<1>6. CASE req.op = "write" /\ buf' = buf
           /\ \E S \in SUBSET RunPages : pages' = RunWritten(S)
  <2>1. PICK S \in SUBSET RunPages : pages' = RunWritten(S)
    BY <1>6
  <2>2. /\ pages' \in [0 .. Pages - 1 -> Page] /\ disk' \in [Blocks -> Value]
        /\ \A b \in Blocks :
             disk'[b] = IF Page0(b) \in S THEN buf[b - req.lba] ELSE disk[b]
        /\ \A b \in Blocks : Page0(b) \in S => b \in Target(req)
    BY <1>1, <2>1, RunWrittenBlocks
  <2>3. TypeOK'
    BY <1>1, <1>2, <1>6, <2>2 DEF TypeOK
  <2>4. \A b \in Blocks : \/ disk'[b] = disk[b]
                          \/ b \in Target(req) /\ disk'[b] = buf[b - req.lba]
    BY <2>2
  <2>5. Store!WriteBlocks
    BY <1>1, <1>4, <1>6, <2>2, <2>4, SameDomain DEF Store!WriteBlocks
  <2>6. QED
    BY <1>3, <2>3, <2>5 DEF Store!Next
<1>7. QED
  BY <1>5, <1>6 DEF AlignedXferFails

(***************************************************************************)
(* Every step keeps the walk on its way and is a step of the abstract      *)
(* device, or leaves that device as it is.                                 *)
(***************************************************************************)
LEMMA Step ==
  ASSUME TypeOK, Walk, [Next]_vars
  PROVE  TypeOK' /\ Walk' /\ [Store!Next]_Store!storeVars
<1>1. CASE \E r \in Requests : Submit(r)
  BY <1>1, SubmitStep, SameDomain DEF Store!Next
<1>2. CASE BadParameter \/ Done \/ PowerLoss
  BY <1>2, LeaveStep
<1>3. CASE AlignedXfer
  BY <1>3, AlignedReadStep, AlignedWriteStep DEF Store!Next
<1>4. CASE AlignedXferFails
  BY <1>4, AlignedFailsStep
<1>5. CASE PartialFetch
  <2>1. req.op \in {"read", "write"}
    BY StorageAssumption DEF TypeOK, Request
  <2>2. CASE req.op = "read"
    BY <1>5, <2>2, PartialReadStep DEF Store!Next
  <2>3. CASE req.op = "write"
    BY <1>5, <2>3, PartialSpliceStep
  <2>4. QED
    BY <2>1, <2>2, <2>3
<1>6. CASE PartialFetchFails
  BY <1>6, PartialFetchFailsStep DEF Store!Next
<1>7. CASE PartialStore
  BY <1>7, PartialStoreStep DEF Store!Next
<1>8. CASE PartialStoreFails
  BY <1>8, PartialStoreFailsStep
<1>9. CASE UNCHANGED vars
  <2>1. UNCHANGED Store!storeVars
    BY <1>9 DEF vars, disk, Store!storeVars
  <2>2. TypeOK'
    BY <1>9 DEF vars, TypeOK
  <2>3. Walk'
    BY <1>9 DEF vars, Walk, disk, Payload, Page0, Half
  <2>4. QED
    BY <2>1, <2>2, <2>3
<1>10. QED
  BY <1>1, <1>2, <1>3, <1>4, <1>5, <1>6, <1>7, <1>8, <1>9 DEF Next

(***************************************************************************)
(* The walk of tramp_efi_blockio_4k is where it says it is: what it has    *)
(* passed is served, and the bounce page it is about to store differs from *)
(* the page on flash in the block of the request alone.                    *)
(***************************************************************************)
THEOREM WalkCorrect == Spec => [](TypeOK /\ Walk)
<1>1. Init => TypeOK /\ Walk
  BY InitInv
<1>2. (TypeOK /\ Walk) /\ [Next]_vars => (TypeOK /\ Walk)'
  BY Step
<1>3. QED
  BY <1>1, <1>2, PTL DEF Spec

(***************************************************************************)
(* The 4 KiB device the EFI sees is a faithful one, for every number of    *)
(* pages, every request, every failure of a transfer and every power cut:  *)
(* neighbours survive, memory outside the buffer is left alone, and        *)
(* success means served.                                                   *)
(***************************************************************************)
THEOREM EfiImplementsStore == Spec => ImplementsStore
<1>1. Init => Store!Init
  <2>1. ASSUME Init PROVE disk \in [Blocks -> Value]
    <3>1. \A b \in Blocks : Page0(b) \in 0 .. Pages - 1 /\ Half(b) \in 0 .. 1
      BY Halves DEF Blocks
    <3>2. pages = [p \in 0 .. Pages - 1 |-> [h \in 0 .. 1 |-> Erased]] /\ Erased \in Value
      BY <2>1 DEF Init, Value
    <3>3. \A b \in Blocks : pages[Page0(b)][Half(b)] \in Value
      BY <3>1, <3>2
    <3>4. QED
      BY <3>3 DEF disk
  <2>2. ASSUME Init PROVE buf \in [Slots -> Value]
    BY <2>2, InitInv DEF TypeOK
  <2>3. QED
    BY <2>1, <2>2, SameDomain DEF Init, Store!Init
<1>2. (TypeOK /\ Walk) /\ [Next]_vars => [Store!Next]_Store!storeVars
  BY Step
<1>3. QED
  BY <1>1, <1>2, WalkCorrect, PTL DEF Spec, ImplementsStore, Store!Spec
=============================================================================
