----------------------------- MODULE BlockStore -----------------------------
(***************************************************************************)
(* What a 4 KiB block device promises its callers, whatever page size the  *)
(* flash below has.  A request is served in any number of transfers; it    *)
(* touches the blocks it names and no others, on the device and in memory; *)
(* and "ok" means that all of it was done.                                 *)
(*                                                                         *)
(* Two constants take a part of the promise back.  With MayHarm a write    *)
(* that is going wrong may also change the other halves of the pages it    *)
(* writes; with MaySwallow a request that went wrong may be answered "ok". *)
(***************************************************************************)
EXTENDS StorageDomain

CONSTANTS MayHarm, MaySwallow

VARIABLES
  disk,     \* the blocks
  phase,    \* "idle", or "busy" serving req
  req,      \* the request now or last served
  buf,      \* memory from the caller's buffer on
  result,   \* how the last request ended: "none" while it has not
  wrong     \* a transfer of the request went wrong and was not answered yet

storeVars == <<disk, phase, req, buf, result, wrong>>

Init ==
  /\ disk \in [Blocks -> Value] /\ phase = "idle" /\ req \in Requests
  /\ buf \in [Slots -> Value] /\ result = "none" /\ wrong = FALSE

Submit(r) ==
  /\ phase = "idle"
  /\ phase' = "busy" /\ req' = r /\ buf' = Payload(r) /\ result' = "none" /\ wrong' = FALSE
  /\ UNCHANGED disk

(* The request was done in full: every block and its buffer slot agree.     *)
Served == \A b \in Target(req) : disk[b] = buf[b - req.lba]

Answer ==
  /\ phase' = "idle" /\ wrong' = FALSE
  /\ \/ result' = "error"
     \/ result' = "ok" /\ (IF wrong THEN MaySwallow ELSE Served')

(* A transfer leaves the request in service, or is the last one.            *)
Goes == Answer \/ (UNCHANGED <<phase, result>> /\ wrong' \in {wrong, TRUE})

(* The blocks of every page the request has a block in.                     *)
TargetPages(r) == {b \in Blocks : \E t \in Target(r) : b \div 2 = t \div 2}

WriteBlocks ==
  /\ phase = "busy" /\ req.op = "write" /\ Goes
  /\ disk' \in [Blocks -> Value]
  /\ \A b \in Blocks :
       \/ disk'[b] = disk[b]
       \/ b \in Target(req) /\ disk'[b] = buf[b - req.lba]
       \/ MayHarm /\ wrong' /\ b \in TargetPages(req)
  /\ UNCHANGED <<req, buf>>

ReadBlocks ==
  /\ phase = "busy" /\ req.op = "read" /\ Goes
  /\ buf' \in [Slots -> Value]
  /\ \A i \in Slots : i >= req.count => buf'[i] = buf[i]
  /\ UNCHANGED <<disk, req>>

Reply == phase = "busy" /\ Answer /\ UNCHANGED <<disk, req, buf>>

PowerLoss ==
  /\ phase = "busy" /\ phase' = "idle" /\ wrong' = FALSE
  /\ UNCHANGED <<disk, req, buf, result>>

Next ==
  \/ \E r \in Requests : Submit(r)
  \/ WriteBlocks \/ ReadBlocks \/ Reply \/ PowerLoss

Spec == Init /\ [][Next]_storeVars
=============================================================================
