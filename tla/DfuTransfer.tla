---------------------------- MODULE DfuTransfer -----------------------------
(***************************************************************************)
(* Sending an image to a device in DFU (pkg/dfu/dfu.go, SendImage): the    *)
(* chunks, a status poll after each, an empty chunk, and polls until the   *)
(* device manifests.  A control request is one step, in which the request  *)
(* or the reply may be lost; a failed attempt may be repeated.             *)
(*                                                                         *)
(* The device, the state machine of the DFU standard in Apple's boot ROM,  *)
(* is external: it appends what it is sent until it is reset, and works on *)
(* a chunk for as long as it likes.  Chunks are numbered; 0 is a chunk of  *)
(* some other image, left by another program.                              *)
(***************************************************************************)
EXTENDS Integers, Sequences

CONSTANTS
  Chunks,       \* chunks in the image, its checksum included
  MaxPolls,     \* status polls after the last chunk (100 in the code)
  MaxFaults     \* bound: lost messages and device failures in one behaviour

ASSUME TransferAssumption ==
  Chunks \in Nat \ {0} /\ MaxPolls \in Nat \ {0} /\ MaxFaults \in Nat

VARIABLES
  dstate, buf,  \* the device's DFU state, and the chunks it holds
  installed,    \* what it manifested
  pc, done,     \* the host, and the chunks it has sent
  polls, result,
  faults

device == <<dstate, buf, installed>>
host == <<pc, done, polls, result>>
vars == <<device, host, faults>>

Init ==
  /\ \/ dstate = "idle" /\ buf = <<>>
     \/ dstate \in {"dnloadIdle", "error"} /\ buf = <<0>>
  /\ installed = <<>> /\ pc = "idle" /\ done = 0 /\ polls = 0 /\ result = "none"
  /\ faults = 0

-----------------------------------------------------------------------------
(* The device's part in each request.                                       *)

(* Idle or failed, it starts afresh; at work, it may ignore the request.    *)
ClrStatus ==
  /\ UNCHANGED installed
  /\ \/ dstate' = "idle" /\ buf' = <<>>
     \/ dstate \in {"busy", "manifestSync", "manifestBusy", "manifest"} /\ UNCHANGED <<dstate, buf>>

Accepts(c) ==
  /\ dstate \in {"idle", "dnloadIdle"}
  /\ dstate' = "sync" /\ buf' = IF dstate = "idle" THEN <<c>> ELSE Append(buf, c)
  /\ UNCHANGED installed

AcceptsEnd == dstate = "dnloadIdle" /\ dstate' = "manifestSync" /\ UNCHANGED <<buf, installed>>

Stalls == dstate' = "error" /\ UNCHANGED <<buf, installed>>

(* A status request makes the device move on. *)
Answers ==
  /\ UNCHANGED buf
  /\ \/ dstate = "sync" /\ dstate' \in {"busy", "dnloadIdle"} /\ UNCHANGED installed
     \/ dstate = "manifestSync" /\ dstate' = "manifestBusy" /\ UNCHANGED installed
     \/ dstate = "manifestSync" /\ dstate' = "manifest" /\ installed' = buf
     \/ dstate \notin {"sync", "manifestSync"} /\ UNCHANGED <<dstate, installed>>

(* It finishes what it is busy with, leaves the bus once it has manifested, *)
(* may fail at its work and may be unplugged.                               *)
Finish ==
  /\ \/ dstate = "busy" /\ dstate' = "dnloadIdle"
     \/ dstate = "manifestBusy" /\ dstate' = "manifestSync"
     \/ dstate = "manifest" /\ dstate' = "gone"
  /\ UNCHANGED <<buf, installed, host, faults>>

Fault == faults < MaxFaults /\ faults' = faults + 1

DeviceFails ==
  /\ Fault
  /\ \/ dstate = "busy" /\ dstate' = "error"
     \/ dstate # "gone" /\ dstate' = "gone"
  /\ UNCHANGED <<buf, installed, host>>

(* A device that manifested nothing is put into DFU mode again.             *)
Reconnect ==
  /\ dstate = "gone" /\ installed = <<>> /\ pc = "idle"
  /\ dstate' = "idle" /\ buf' = <<>>
  /\ UNCHANGED <<installed, host, faults>>

-----------------------------------------------------------------------------
(* The host.                                                                *)

Present == dstate # "gone"
Reached == Present /\ UNCHANGED faults

Exit(r) == pc' = "idle" /\ result' = r /\ UNCHANGED <<done, polls>>

Goto(l) == pc' = l /\ UNCHANGED <<done, polls, result>>

Start ==
  /\ pc = "idle" /\ pc' = "clrStatus" /\ result' = "running" /\ done' = 0 /\ polls' = 0
  /\ UNCHANGED <<device, faults>>

(* The reset left out.                                                      *)
ClearStatusSkipped == pc = "clrStatus" /\ Goto("getState") /\ UNCHANGED <<device, faults>>

(* Clean: the device is reset, and must say that it is idle.                *)
ClearStatus == pc = "clrStatus" /\ Reached /\ ClrStatus /\ Goto("getState")

(* The state not looked at.                                                 *)
GetStateUnchecked == pc = "getState" /\ Reached /\ Goto("chunk") /\ UNCHANGED device

GetState ==
  /\ pc = "getState" /\ Reached /\ UNCHANGED device
  /\ \/ dstate = "idle" /\ Goto("chunk")
     \/ dstate # "idle" /\ Exit("error")

SendChunk ==
  /\ pc = "chunk" /\ Reached
  /\ \/ Accepts(done + 1) /\ done' = done + 1 /\ pc' = "status" /\ UNCHANGED <<polls, result>>
     \/ dstate \notin {"idle", "dnloadIdle"} /\ Stalls /\ Exit("error")

(* Polled, however often it takes, until the device is ready for more.      *)
ChunkStatus ==
  /\ pc = "status" /\ Reached /\ Answers
  /\ \/ dstate' = "error" /\ Exit("error")
     \/ dstate' = "dnloadIdle" /\ Goto(IF done < Chunks THEN "chunk" ELSE "end")
     \/ dstate' \notin {"error", "dnloadIdle"} /\ UNCHANGED host

SendEnd ==
  /\ pc = "end" /\ Reached
  /\ \/ AcceptsEnd /\ Goto("manifest")
     \/ dstate # "dnloadIdle" /\ Stalls /\ Exit("error")

(* The polls not counted.                                                   *)
ManifestStatusForever ==
  /\ pc = "manifest" /\ Reached /\ Answers
  /\ \/ dstate' = "idle" /\ Exit("error")
     \/ dstate' = "manifest" /\ Exit("ok")
     \/ dstate' \notin {"idle", "manifest"} /\ UNCHANGED host

(* The status itself is not looked at here, only the state.                 *)
ManifestStatus ==
  /\ pc = "manifest" /\ Reached /\ Answers
  /\ \/ dstate' = "idle" /\ Exit("error")
     \/ dstate' = "manifest" /\ Exit("ok")
     \/ /\ dstate' \notin {"idle", "manifest"} /\ polls' = polls + 1 /\ UNCHANGED done
        /\ \/ polls' < MaxPolls /\ UNCHANGED <<pc, result>>
           \/ polls' = MaxPolls /\ pc' = "idle" /\ result' = "error"

(* A request to a device that is gone, or one of which the request or the   *)
(* reply is lost.                                                           *)
RequestFails ==
  /\ pc # "idle" /\ Exit("error")
  /\ \/ ~Present /\ UNCHANGED <<device, faults>>
     \/ Present /\ Fault /\ UNCHANGED device
     \/ /\ Present /\ Fault
        /\ CASE pc = "clrStatus" -> ClrStatus
             [] pc = "chunk" -> Accepts(done + 1)
             [] pc = "end" -> AcceptsEnd
             [] pc \in {"status", "manifest"} -> Answers
             [] pc = "getState" -> UNCHANGED device

Host ==
  \/ ClearStatus \/ GetState \/ SendChunk \/ ChunkStatus \/ SendEnd \/ ManifestStatus
  \/ RequestFails

Next == Start \/ Host \/ Finish \/ DeviceFails \/ Reconnect

Spec == Init /\ [][Next]_vars

(* A control request returns, if only by its timeout, and a busy device     *)
(* finishes what it is doing.                                               *)
FairSpec == Spec /\ WF_vars(Host) /\ WF_vars(Finish)

-----------------------------------------------------------------------------
(* Properties.                                                              *)

TypeOK ==
  /\ dstate \in {"idle", "sync", "busy", "dnloadIdle", "manifestSync", "manifestBusy",
                 "manifest", "error", "gone"}
  /\ buf \in Seq(0 .. Chunks) /\ installed \in Seq(0 .. Chunks)
  /\ pc \in {"idle", "clrStatus", "getState", "chunk", "status", "end", "manifest"}
  /\ done \in 0 .. Chunks /\ polls \in 0 .. MaxPolls /\ faults \in 0 .. MaxFaults
  /\ result \in {"none", "running", "ok", "error"}

(* The first n chunks of the image. *)
Sent(n) == [i \in 1 .. n |-> i]

Downloading == {"sync", "busy", "dnloadIdle"}
Manifesting == {"manifestSync", "manifestBusy", "manifest"}

(* While an attempt is under way the device holds what the attempt has      *)
(* sent, nothing that an earlier one left; one that has the end of an image *)
(* has all of it.                                                           *)
Received ==
  /\ pc \in {"chunk", "status", "end"} /\ dstate \in Downloading => buf = Sent(done)
  /\ pc = "chunk" => done < Chunks /\ (dstate = "idle" => done = 0)
  /\ pc = "status" => done \in 1 .. Chunks /\ dstate \in Downloading \cup {"error", "gone"}
  /\ pc = "end" => done = Chunks /\ dstate # "idle"
  /\ dstate \in Manifesting => buf = Sent(Chunks)
  /\ pc \in {"chunk", "status", "end"} => polls = 0
  /\ pc = "manifest" => polls < MaxPolls
  /\ pc \in {"clrStatus", "getState"} => done = 0 /\ polls = 0
  /\ pc = "idle" <=> result # "running"
  /\ installed \in {<<>>, Sent(Chunks)}
  /\ dstate = "manifest" => installed = Sent(Chunks)

(* Whatever is lost, refused or repeated, the device manifests the whole    *)
(* image or none, and success means that it did.                            *)
Transfer == INSTANCE ImageTransfer WITH
  outcome <- result,
  installed <- IF installed = <<>> THEN "none"
               ELSE IF installed = Sent(Chunks) THEN "image" ELSE "wrong"
ImplementsTransfer == Transfer!Spec

(* Every attempt ends, once a busy device finishes what it is doing.        *)
Terminates == pc # "idle" ~> pc = "idle"

(* Whatever an interrupted attempt, or another program, left in a device    *)
(* that is not at work, an attempt that meets no fault delivers the image   *)
(* unless the device takes more polls than it is given.                     *)
RetryDelivers ==
  pc = "clrStatus" /\ dstate \in {"idle", "dnloadIdle", "error", "sync"} /\ faults = MaxFaults
    ~> result = "ok" \/ polls = MaxPolls
=============================================================================
