----------------------------- MODULE OsosBridge -----------------------------
(***************************************************************************)
(* tramp_osos_read and tramp_osos_write (pkg/nand16gb/asm/                 *)
(* osos_blockbridge.S): RetailOS's executors in 4 KiB blocks over the      *)
(* FTL's 8 KiB pages, as a head, a run of whole pages and a tail.          *)
(*                                                                         *)
(* Every inner call of the FTL is a step.  A failed one returns a code and *)
(* the trampoline goes on: the code is remembered and returned at the end. *)
(***************************************************************************)
EXTENDS StorageDomain

CONSTANTS
  WordSize,   \* 2^32: registers wrap there
  Codes,      \* the error codes of the FTL
  MaxFaults   \* bound: inner calls that fail in one behaviour

VARIABLES
  pages,            \* the FTL's logical pages, by half
  req, buf, result,
  pc,
  lba, count, at,   \* r5, r6, and r4 as a buffer index
  scratch,          \* OSOS_SCRATCH, by half
  status,           \* r9
  faults

vars == <<pages, req, buf, result, pc, lba, count, at, scratch, status, faults>>

Page == [0 .. 1 -> Value]
Page0(b) == b \div 2
Half(b) == b % 2

(* accum_status: the first nonzero code is kept. *)
accum_status(rc) == status' = IF status = 0 THEN rc ELSE status

(* The inner call returned 0, or one of the FTL's codes. *)
Succeeds == accum_status(0) /\ UNCHANGED faults
FailsWith(rc) == faults < MaxFaults /\ faults' = faults + 1 /\ accum_status(rc)

Init ==
  /\ pages = [p \in 0 .. Pages - 1 |-> [h \in 0 .. 1 |-> Erased]]
  /\ req \in Requests /\ buf = [i \in Slots |-> Erased] /\ result = "none"
  /\ pc = "idle" /\ lba = 0 /\ count = 0 /\ at = 0
  /\ scratch = [h \in 0 .. 1 |-> Erased] /\ status = 0 /\ faults = 0

(* Where the trampoline is with n blocks to go, past the head. *)
BodyOrTail(n) == IF n >= 2 THEN "body" ELSE IF n = 1 THEN "tail" ELSE "end"

(* Without the test for a zero length.                                      *)
EntryUnguarded(r) == IF Half(r.lba) = 1 THEN "head" ELSE BodyOrTail(r.count)

(* Zero-length must do nothing; an odd lba has a head.                      *)
Entry(r) ==
  IF r.count = 0 THEN "end" ELSE IF Half(r.lba) = 1 THEN "head" ELSE BodyOrTail(r.count)

Submit(r) ==
  /\ pc = "idle"
  /\ pc' = Entry(r) /\ req' = r /\ buf' = Payload(r) /\ result' = "none"
  /\ lba' = r.lba /\ count' = r.count /\ at' = 0 /\ status' = 0
  /\ UNCHANGED <<pages, scratch, faults>>

Advance(n) ==
  LET left == (count - n) % WordSize
  IN  /\ lba' = lba + n /\ at' = at + n /\ count' = left
      /\ pc' = IF left = 0 THEN "end" ELSE BodyOrTail(left)
      /\ UNCHANGED <<req, result>>

-----------------------------------------------------------------------------
(* Head and tail: the page is read into the scratch, and one half copied.   *)

(* What the scratch may hold after the inner read. *)
Fetch(s) ==
  \/ Succeeds /\ s = pages[Page0(lba)]
  \/ /\ \E rc \in Codes : FailsWith(rc)
     /\ s \in {scratch, [h \in 0 .. 1 |-> Junk]}

PartialRead ==
  /\ pc \in {"head", "tail"} /\ req.op = "read"
  /\ \E s \in {pages[Page0(lba)], scratch, [h \in 0 .. 1 |-> Junk]} :
       /\ Fetch(s)
       /\ scratch' = s /\ buf' = [buf EXCEPT ![at] = s[Half(lba)]]
  /\ Advance(1) /\ UNCHANGED pages

PartialFetch ==
  /\ pc \in {"head", "tail"} /\ req.op = "write"
  /\ \E s \in {pages[Page0(lba)], scratch, [h \in 0 .. 1 |-> Junk]} :
       Fetch(s) /\ scratch' = [s EXCEPT ![Half(lba)] = buf[at]]
  /\ pc' = "store" /\ UNCHANGED <<pages, req, buf, result, lba, count, at>>

PartialStore ==
  /\ pc = "store"
  /\ \/ Succeeds /\ pages' = [pages EXCEPT ![Page0(lba)] = scratch]
     \/ /\ \E rc \in Codes : FailsWith(rc)
        /\ pages' \in {pages, [pages EXCEPT ![Page0(lba)] = scratch]}
  /\ Advance(1) /\ UNCHANGED <<buf, scratch>>

-----------------------------------------------------------------------------
(* Body: whole pages between the device and the caller's buffer.            *)

Run == lba .. (lba + 2 * (count \div 2) - 1)
RunPages == {Page0(b) : b \in Run \cap Blocks}

(* The block that belongs in buffer slot i. *)
BlockOf(i) == lba + (i - at)
RunSlots == {i \in Slots : BlockOf(i) \in Run \cap Blocks}

(* What slot i - or memory past the buffer - supplies. *)
Supplied(i) == IF i \in Slots THEN buf[i] ELSE Junk

RunWritten(S) ==
  [p \in 0 .. Pages - 1 |->
     IF p \in S THEN [h \in 0 .. 1 |-> Supplied(at + (2 * p + h - lba))] ELSE pages[p]]

BodyRead ==
  /\ pc = "body" /\ req.op = "read"
  /\ \/ /\ Succeeds
        /\ buf' = [i \in Slots |-> IF i \in RunSlots
                     THEN pages[Page0(BlockOf(i))][Half(BlockOf(i))] ELSE buf[i]]
     \/ /\ \E rc \in Codes : FailsWith(rc)
        /\ \E lost \in SUBSET RunSlots :
             buf' = [i \in Slots |-> IF i \in lost THEN Junk ELSE buf[i]]
  /\ Advance(2 * (count \div 2)) /\ UNCHANGED <<pages, scratch>>

BodyWrite ==
  /\ pc = "body" /\ req.op = "write"
  /\ \/ Succeeds /\ pages' = RunWritten(RunPages)
     \/ /\ \E rc \in Codes : FailsWith(rc)
        /\ \E S \in SUBSET RunPages : pages' = RunWritten(S)
  /\ Advance(2 * (count \div 2)) /\ UNCHANGED <<buf, scratch>>

Leave == pc' = "idle" /\ lba' = 0 /\ count' = 0 /\ at' = 0 /\ status' = 0 /\ UNCHANGED req

Return ==
  /\ pc = "end"
  /\ Leave /\ result' = IF status = 0 THEN "ok" ELSE "error"
  /\ UNCHANGED <<pages, buf, scratch, faults>>

PowerLoss ==
  /\ pc # "idle" /\ Leave
  /\ scratch' = [h \in 0 .. 1 |-> Erased]
  /\ UNCHANGED <<pages, buf, result, faults>>

Next ==
  \/ \E r \in Requests : Submit(r)
  \/ PartialRead \/ PartialFetch \/ PartialStore \/ BodyRead \/ BodyWrite
  \/ Return \/ PowerLoss

Spec == Init /\ [][Next]_vars

-----------------------------------------------------------------------------
(* Properties.                                                              *)

disk == [b \in Blocks |-> pages[Page0(b)][Half(b)]]

(* "a partial page must not destroy the half the caller did not supply":    *)
(* the comment on tramp_osos_write, with no exception for a failed read.    *)
NeighboursSurvive ==
  [][\A b \in Blocks \ Target(req) : disk'[b] = disk[b]]_vars
=============================================================================
