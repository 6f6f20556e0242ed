----------------------------- MODULE EfiBlockIo -----------------------------
(***************************************************************************)
(* tramp_efi_blockio_4k (pkg/nand16gb/asm/efi_nand.S): the EFI's           *)
(* ReadBlocks and WriteBlocks in 4 KiB blocks over the FTL's 8 KiB pages.  *)
(*                                                                         *)
(* Every call of bio_xfer is a step; it may fail, and the power may go     *)
(* between two of them.  The FTL below is the stock one: it programs a     *)
(* fresh page and remaps it, so that a page holds either its old or its    *)
(* new contents.                                                           *)
(***************************************************************************)
EXTENDS StorageDomain

CONSTANT MaxFaults    \* bound: transfers that fail in one behaviour
ASSUME FaultAssumption == MaxFaults \in Nat

VARIABLES
  pages,             \* the FTL's logical pages, by half
  req, buf, result,  \* the request, the caller's memory, EFI_STATUS
  pc,
  lba, dst, blocks,  \* [sp+12], [sp+16] as a buffer index, [sp+20]
  bio_scratch,       \* the bounce page, by half
  faults

vars == <<pages, req, buf, result, pc, lba, dst, blocks, bio_scratch, faults>>

Page == [0 .. 1 -> Value]
Page0(b) == b \div 2
Half(b) == b % 2

Init ==
  /\ pages = [p \in 0 .. Pages - 1 |-> [h \in 0 .. 1 |-> Erased]]
  /\ req \in Requests /\ buf = [i \in Slots |-> Erased] /\ result = "none"
  /\ pc = "idle" /\ lba = 0 /\ dst = 0 /\ blocks = 0
  /\ bio_scratch = [h \in 0 .. 1 |-> Erased] /\ faults = 0

(* The two stock entry points, reduced to stubs that load the arguments.    *)
Submit(r) ==
  /\ pc = "idle"
  /\ pc' = "loop" /\ req' = r /\ buf' = Payload(r) /\ result' = "none"
  /\ lba' = r.lba /\ dst' = 0 /\ blocks' = r.count
  /\ UNCHANGED <<pages, bio_scratch, faults>>

(* The frame is popped. *)
Leave == pc' = "idle" /\ lba' = 0 /\ dst' = 0 /\ blocks' = 0 /\ UNCHANGED req
Return(status) == Leave /\ result' = status

Continue(l, n) ==
  /\ pc' = l /\ lba' = lba + n /\ dst' = dst + n /\ blocks' = blocks - n
  /\ UNCHANGED <<req, result>>

(* EFI_INVALID_PARAMETER; EFI_SUCCESS. *)
BadParameter ==
  /\ pc = "loop" /\ ~req.whole
  /\ Return("error") /\ UNCHANGED <<pages, buf, bio_scratch, faults>>

Done ==
  /\ pc = "loop" /\ req.whole /\ blocks = 0
  /\ Return("ok") /\ UNCHANGED <<pages, buf, bio_scratch, faults>>

-----------------------------------------------------------------------------
(* An even block with another behind it: whole pages, no copy.              *)
Aligned == pc = "loop" /\ req.whole /\ Half(lba) = 0 /\ blocks >= 2

(* The blocks of the run, and the buffer slot of one of them.               *)
Run == lba .. (lba + 2 * (blocks \div 2) - 1)
Slot(b) == dst + (b - lba)

RunRead ==
  [i \in Slots |-> IF lba + (i - dst) \in Run
                     THEN pages[Page0(lba + (i - dst))][Half(lba + (i - dst))] ELSE buf[i]]

(* The pages of S written from the buffer. *)
RunWritten(S) ==
  [p \in 0 .. Pages - 1 |->
     IF p \in S THEN [h \in 0 .. 1 |-> buf[Slot(2 * p + h)]] ELSE pages[p]]

RunPages == {Page0(b) : b \in Run}

AlignedXfer ==
  /\ Aligned
  /\ IF req.op = "read" THEN buf' = RunRead /\ UNCHANGED pages
                        ELSE pages' = RunWritten(RunPages) /\ UNCHANGED buf
  /\ Continue("loop", 2 * (blocks \div 2))
  /\ UNCHANGED <<bio_scratch, faults>>

Fault == faults < MaxFaults /\ faults' = faults + 1

AlignedXferFails ==
  /\ Aligned /\ Fault
  /\ \/ /\ req.op = "read" /\ UNCHANGED pages
        /\ \E lost \in SUBSET {i \in Slots : lba + (i - dst) \in Run} :
             buf' = [i \in Slots |-> IF i \in lost THEN Junk ELSE buf[i]]
     \/ /\ req.op = "write" /\ UNCHANGED buf
        /\ \E S \in SUBSET RunPages : pages' = RunWritten(S)
  /\ Return("error") /\ UNCHANGED bio_scratch

-----------------------------------------------------------------------------
(* A single block: through bio_scratch, which is always read first.         *)
Partial == pc = "loop" /\ req.whole /\ blocks > 0 /\ (Half(lba) = 1 \/ blocks < 2)

(* The block spliced into the lower half, whichever it belongs to.          *)
PartialFetchLow ==
  /\ Partial
  /\ bio_scratch' = [pages[Page0(lba)] EXCEPT ![0] = buf[dst]]
  /\ Continue("store", 0) /\ UNCHANGED <<buf, pages, faults>>

(* The fetch and the copy behind it, in the direction of the request.       *)
PartialFetch ==
  /\ Partial
  /\ IF req.op = "read"
       THEN /\ bio_scratch' = pages[Page0(lba)]
            /\ buf' = [buf EXCEPT ![dst] = bio_scratch'[Half(lba)]]
            /\ Continue("loop", 1)
       ELSE /\ bio_scratch' = [pages[Page0(lba)] EXCEPT ![Half(lba)] = buf[dst]]
            /\ Continue("store", 0) /\ UNCHANGED buf
  /\ UNCHANGED <<pages, faults>>

(* The page stored although it could not be read.                           *)
PartialFetchIgnored ==
  /\ Partial /\ Fault
  /\ bio_scratch' \in {[s EXCEPT ![Half(lba)] = buf[dst]] :
                         s \in {bio_scratch, [h \in 0 .. 1 |-> Junk]}}
  /\ Continue(IF req.op = "write" THEN "store" ELSE "loop", 0) /\ UNCHANGED <<pages, buf>>

PartialFetchFails ==
  /\ Partial /\ Fault
  /\ bio_scratch' \in {bio_scratch, [h \in 0 .. 1 |-> Junk]}
  /\ Return("error") /\ UNCHANGED <<pages, buf>>

PartialStore ==
  /\ pc = "store"
  /\ pages' = [pages EXCEPT ![Page0(lba)] = bio_scratch]
  /\ Continue("loop", 1) /\ UNCHANGED <<buf, bio_scratch, faults>>

PartialStoreFails ==
  /\ pc = "store" /\ Fault
  /\ pages' \in {pages, [pages EXCEPT ![Page0(lba)] = bio_scratch]}
  /\ Return("error") /\ UNCHANGED <<buf, bio_scratch>>

(* The boot services end with the power; flash keeps what it holds.         *)
PowerLoss ==
  /\ pc # "idle" /\ Leave
  /\ bio_scratch' = [h \in 0 .. 1 |-> Erased]
  /\ UNCHANGED <<pages, buf, result, faults>>

Next ==
  \/ \E r \in Requests : Submit(r)
  \/ BadParameter \/ Done \/ AlignedXfer \/ AlignedXferFails
  \/ PartialFetch \/ PartialFetchFails \/ PartialStore \/ PartialStoreFails
  \/ PowerLoss

Spec == Init /\ [][Next]_vars

-----------------------------------------------------------------------------
(* Properties.                                                              *)

TypeOK ==
  /\ pages \in [0 .. Pages - 1 -> Page] /\ req \in Requests /\ buf \in [Slots -> Value]
  /\ result \in {"none", "ok", "error"} /\ pc \in {"idle", "loop", "store"}
  /\ lba \in Nat /\ dst \in Nat /\ blocks \in Nat
  /\ bio_scratch \in Page /\ faults \in 0 .. MaxFaults

disk == [b \in Blocks |-> pages[Page0(b)][Half(b)]]

(* Each loop iteration leaves the walk where it belongs: what is behind it  *)
(* has been served, and the bounce page about to be stored is the current   *)
(* page with the one block of the request spliced in.                       *)
Walk ==
  pc # "idle" =>
    /\ lba = req.lba + dst /\ blocks = req.count - dst
    /\ req.whole => \A b \in req.lba .. (lba - 1) : disk[b] = buf[b - req.lba]
    /\ req.op = "write" => buf = Payload(req)
    /\ pc = "store" =>
         /\ req.whole /\ req.op = "write" /\ blocks > 0
         /\ bio_scratch = [pages[Page0(lba)] EXCEPT ![Half(lba)] = buf[dst]]

(* The 4 KiB device the EFI sees keeps the promises of BlockStore, failed   *)
(* transfers and power cuts included: the half page a write does not supply *)
(* survives, nothing outside the caller's buffer is written, and success    *)
(* means that every block was served.                                       *)
Store == INSTANCE BlockStore WITH
  phase <- IF pc = "idle" THEN "idle" ELSE "busy", wrong <- FALSE,
  MayHarm <- FALSE, MaySwallow <- FALSE
ImplementsStore == Store!Spec
=============================================================================
