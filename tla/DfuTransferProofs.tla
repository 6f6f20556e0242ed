------------------------- MODULE DfuTransferProofs --------------------------
(***************************************************************************)
(* SendImage implements ImageTransfer for every length of image, number of *)
(* polls and number of faults.                                             *)
(***************************************************************************)
EXTENDS DfuTransfer, TLAPS

(* The image up to a chunk, and that chunk, are the image up to the next.   *)
LEMMA SentGrows ==
  /\ Sent(1) = <<1>>
  /\ \A n \in Nat : Append(Sent(n), n + 1) = Sent(n + 1) /\ Len(Sent(n)) = n
<1>1. Sent(1) = <<1>>
  BY DEF Sent
<1>2. ASSUME NEW n \in Nat
      PROVE  Append(Sent(n), n + 1) = Sent(n + 1) /\ Len(Sent(n)) = n
  <2>1. Sent(n) \in Seq(Nat) /\ Len(Sent(n)) = n /\ \A i \in 1 .. n : Sent(n)[i] = i
    BY DEF Sent
  <2>2. /\ Append(Sent(n), n + 1) \in Seq(Nat) /\ Len(Append(Sent(n), n + 1)) = n + 1
        /\ \A i \in 1 .. n + 1 : Append(Sent(n), n + 1)[i] = i
    BY <2>1
  <2>3. \A u \in Seq(Nat) : u = [i \in 1 .. Len(u) |-> u[i]]
    OBVIOUS
  <2>4. QED
    BY <2>1, <2>2, <2>3 DEF Sent
<1>3. QED
  BY <1>1, <1>2

(* An image that is there is not one that is missing.                       *)
LEMMA ImageNotEmpty == Chunks \in Nat /\ Chunks > 0 /\ Sent(Chunks) # <<>>
<1>1. Chunks \in Nat /\ Chunks > 0
  BY TransferAssumption
<1>2. Len(Sent(Chunks)) = Chunks /\ Len(<<>>) = 0
  BY <1>1, SentGrows
<1>3. QED
  BY <1>1, <1>2

(* The part of the type that the argument needs.                            *)
Counts ==
  /\ done \in Nat /\ polls \in Nat
  /\ pc \in {"idle", "clrStatus", "getState", "chunk", "status", "end", "manifest"}

IInv == Counts /\ Received

LEMMA InitInv == Init => IInv
BY TransferAssumption DEF Init, IInv, Counts, Received, Downloading, Manifesting

(* What the device does on its own.                                         *)
LEMMA DeviceStep ==
  ASSUME IInv, Finish \/ DeviceFails \/ Reconnect
  PROVE  IInv' /\ UNCHANGED <<installed, result>>
BY DEF IInv, Counts, Received, Downloading, Manifesting, Finish, DeviceFails, Reconnect, host

(* An attempt is begun, and the device reset for it.                        *)
LEMMA CleanStep ==
  ASSUME IInv, Start \/ ClearStatus \/ GetState
  PROVE  IInv' /\ [Transfer!Next]_Transfer!transferVars
<1> USE DEF IInv, Counts, Received, Downloading, Manifesting, device, Goto, Exit, Reached
<1>1. CASE Start
  <2>1. IInv'
    BY <1>1 DEF Start
  <2>2. Transfer!Begin
    BY <1>1 DEF Start, Transfer!Begin
  <2>3. QED
    BY <2>1, <2>2 DEF Transfer!Next
<1>2. CASE ClearStatus
  <2>1. IInv'
    BY <1>2 DEF ClearStatus, ClrStatus
  <2>2. UNCHANGED <<installed, result>>
    BY <1>2 DEF ClearStatus, ClrStatus
  <2>3. QED
    BY <2>1, <2>2 DEF Transfer!transferVars
<1>3. CASE GetState
  <2>1. IInv'
    BY <1>3, ImageNotEmpty DEF GetState
  <2>2. UNCHANGED <<installed, result>> \/ Transfer!Fail
    BY <1>3 DEF GetState, Transfer!Fail
  <2>3. QED
    BY <2>1, <2>2 DEF Transfer!transferVars, Transfer!Next
<1>4. QED
  BY <1>1, <1>2, <1>3

(* A chunk goes out, is worked on, and is followed by the end of the image. *)
LEMMA ChunkStep ==
  ASSUME IInv, SendChunk \/ ChunkStatus \/ SendEnd
  PROVE  IInv' /\ [Transfer!Next]_Transfer!transferVars
<1> USE DEF IInv, Counts, Received, Downloading, Manifesting, device, host, Goto, Exit, Reached
<1>1. CASE SendChunk
  <2>1. CASE /\ Accepts(done + 1) /\ done' = done + 1 /\ pc' = "status"
             /\ UNCHANGED <<polls, result>>
    <3>1. pc = "chunk" /\ done' \in Nat /\ done' > 0
      BY <1>1, <2>1 DEF SendChunk
    <3>2. buf' = Sent(done')
      <4>1. CASE dstate = "idle"
        BY <2>1, <3>1, <4>1, SentGrows DEF Accepts
      <4>2. CASE dstate = "dnloadIdle"
        <5>1. buf = Sent(done) /\ buf' = Append(buf, done + 1)
          BY <2>1, <3>1, <4>2 DEF Accepts
        <5>2. QED
          BY <2>1, <5>1, SentGrows
      <4>3. QED
        BY <2>1, <4>1, <4>2 DEF Accepts
    <3>3. done' \in 1 .. Chunks
      BY <2>1, <3>1, ImageNotEmpty
    <3>4. dstate' = "sync" /\ UNCHANGED <<installed, polls, result>>
      BY <2>1 DEF Accepts
    <3>5. IInv'
      BY <2>1, <3>1, <3>2, <3>3, <3>4
    <3>6. QED
      BY <3>4, <3>5 DEF Transfer!transferVars
  <2>2. CASE Stalls /\ Exit("error")
    <3>1. IInv'
      BY <1>1, <2>2 DEF SendChunk, Stalls
    <3>2. Transfer!Fail
      BY <1>1, <2>2 DEF SendChunk, Stalls, Transfer!Fail
    <3>3. QED
      BY <3>1, <3>2 DEF Transfer!Next
  <2>3. QED
    BY <1>1, <2>1, <2>2 DEF SendChunk
<1>2. CASE ChunkStatus
  <2>1. /\ pc = "status" /\ UNCHANGED <<buf, installed>>
        /\ dstate' \in Downloading \cup {"error", "gone"}
    BY <1>2 DEF ChunkStatus, Answers
  <2>2. CASE Exit("error")
    <3>1. IInv' /\ Transfer!Fail
      BY <2>1, <2>2 DEF Transfer!Fail
    <3>2. QED
      BY <3>1 DEF Transfer!Next
  <2>3. CASE dstate' = "dnloadIdle" /\ Goto(IF done < Chunks THEN "chunk" ELSE "end")
    <3>1. done \in Nat /\ Chunks \in Nat
      BY ImageNotEmpty
    <3>2. dstate \in Downloading
      BY <1>2, <2>1, <2>3 DEF ChunkStatus, Answers
    <3>3. done <= Chunks
      BY <2>1
    <3>4. IInv' /\ UNCHANGED <<installed, result>>
      BY <2>1, <2>3, <3>1, <3>2, <3>3
    <3>5. QED
      BY <3>4 DEF Transfer!transferVars
  <2>4. CASE UNCHANGED host
    <3>1. dstate \in Downloading \/ dstate' \notin Downloading
      BY <1>2, <2>1 DEF ChunkStatus, Answers
    <3>2. IInv' /\ UNCHANGED <<installed, result>>
      BY <2>1, <2>4, <3>1
    <3>3. QED
      BY <3>2 DEF Transfer!transferVars
  <2>5. QED
    BY <1>2, <2>2, <2>3, <2>4 DEF ChunkStatus
<1>3. CASE SendEnd
  <2>1. CASE AcceptsEnd /\ Goto("manifest")
    <3>1. pc = "end" /\ buf = Sent(Chunks)
      BY <1>3, <2>1 DEF SendEnd, AcceptsEnd
    <3>2. IInv' /\ UNCHANGED <<installed, result>>
      BY <2>1, <3>1, TransferAssumption DEF AcceptsEnd
    <3>3. QED
      BY <3>2 DEF Transfer!transferVars
  <2>2. CASE Stalls /\ Exit("error")
    <3>1. IInv' /\ Transfer!Fail
      BY <1>3, <2>2 DEF SendEnd, Stalls, Transfer!Fail
    <3>2. QED
      BY <3>1 DEF Transfer!Next
  <2>3. QED
    BY <1>3, <2>1, <2>2 DEF SendEnd
<1>4. QED
  BY <1>1, <1>2, <1>3

(* The device moves on as it is asked, and takes the image if it takes any. *)
LEMMA AnswersKeep ==
  ASSUME IInv, Answers
  PROVE  /\ installed' \in {installed, Sent(Chunks)} /\ UNCHANGED buf
         /\ dstate' \in Manifesting => dstate \in Manifesting
         /\ dstate' = "manifest" => installed' = Sent(Chunks)
BY DEF IInv, Received, Answers, Manifesting

(* The device is asked until it manifests.                                  *)
LEMMA ManifestStep ==
  ASSUME IInv, ManifestStatus
  PROVE  IInv' /\ [Transfer!Next]_Transfer!transferVars
<1> USE DEF IInv, Counts, Received, Manifesting
<1>1. /\ pc = "manifest" /\ result = "running" /\ Answers /\ done \in Nat /\ polls \in Nat
      /\ installed \in {<<>>, Sent(Chunks)}
  BY DEF ManifestStatus
<1>2. CASE dstate' = "idle" /\ Exit("error")
  <2>1. IInv' /\ Transfer!Fail
    BY <1>1, <1>2, AnswersKeep, ImageNotEmpty DEF Exit, Transfer!Fail
  <2>2. QED
    BY <2>1 DEF Transfer!Next
<1>3. CASE dstate' = "manifest" /\ Exit("ok")
  <2>1. IInv' /\ Transfer!Succeed
    BY <1>1, <1>3, AnswersKeep, ImageNotEmpty DEF Exit, Transfer!Succeed
  <2>2. QED
    BY <2>1 DEF Transfer!Next
<1>4. CASE /\ dstate' \notin {"idle", "manifest"} /\ polls' = polls + 1 /\ UNCHANGED done
           /\ \/ polls' < MaxPolls /\ UNCHANGED <<pc, result>>
              \/ polls' = MaxPolls /\ pc' = "idle" /\ result' = "error"
  <2>1. polls' \in Nat
    BY <1>1, <1>4
  <2>2. UNCHANGED installed
    BY <1>1, <1>4 DEF Answers
  <2>3. IInv'
    BY <1>1, <1>4, <2>1, <2>2, AnswersKeep
  <2>4. UNCHANGED <<installed, result>> \/ Transfer!Fail
    BY <1>1, <1>4, <2>2 DEF Transfer!Fail
  <2>5. QED
    BY <2>3, <2>4 DEF Transfer!Next, Transfer!transferVars
<1>5. QED
  BY <1>2, <1>3, <1>4 DEF ManifestStatus

(* A request may come to nothing, or to all it was meant to do.             *)
LEMMA FailedStep ==
  ASSUME IInv, RequestFails
  PROVE  IInv' /\ [Transfer!Next]_Transfer!transferVars
<1> USE DEF IInv, Counts, Received, Downloading, Manifesting, device
<1>1. /\ pc # "idle" /\ result = "running" /\ pc' = "idle" /\ result' = "error"
      /\ UNCHANGED <<done, polls>> /\ installed \in {<<>>, Sent(Chunks)}
  BY DEF RequestFails, Exit
<1>2. /\ installed' \in {installed, Sent(Chunks)}
      /\ dstate' \in Manifesting => buf' = Sent(Chunks)
      /\ dstate' = "manifest" => installed' = Sent(Chunks)
  <2>1. CASE UNCHANGED device
    BY <2>1
  <2>2. CASE pc = "clrStatus" /\ ClrStatus
    BY <2>2 DEF ClrStatus
  <2>3. CASE pc = "chunk" /\ Accepts(done + 1)
    BY <2>3 DEF Accepts
  <2>4. CASE pc = "end" /\ AcceptsEnd
    BY <2>4 DEF AcceptsEnd
  <2>5. CASE Answers
    BY <2>5, AnswersKeep
  <2>6. CASE pc \in {"clrStatus", "getState", "chunk"}
    BY <2>1, <2>2, <2>3, <2>6 DEF RequestFails
  <2>7. CASE pc \in {"status", "end", "manifest"}
    BY <2>1, <2>4, <2>5, <2>7 DEF RequestFails
  <2>8. QED
    BY <1>1, <2>6, <2>7
<1>3. IInv'
  BY <1>1, <1>2
<1>4. Transfer!Fail
  BY <1>1, <1>2, ImageNotEmpty DEF Transfer!Fail
<1>5. QED
  BY <1>3, <1>4 DEF Transfer!Next

(* Every step of host and device keeps the invariant, and is a step of the  *)
(* promise or leaves it as it is.                                           *)
LEMMA Step == IInv /\ [Next]_vars => IInv' /\ [Transfer!Next]_Transfer!transferVars
<1> SUFFICES ASSUME IInv, [Next]_vars
             PROVE  IInv' /\ [Transfer!Next]_Transfer!transferVars
  OBVIOUS
<1>1. CASE Start \/ Host
  BY <1>1, CleanStep, ChunkStep, ManifestStep, FailedStep DEF Host
<1>2. CASE Finish \/ DeviceFails \/ Reconnect
  BY <1>2, DeviceStep DEF Transfer!transferVars
<1>3. CASE UNCHANGED vars
  <2>1. UNCHANGED <<installed, result>>
    BY <1>3 DEF vars, device, host
  <2>2. IInv'
    BY <1>3 DEF vars, device, host, IInv, Counts, Received, Downloading, Manifesting
  <2>3. QED
    BY <2>1, <2>2 DEF Transfer!transferVars
<1>4. QED
  BY <1>1, <1>2, <1>3 DEF Next

(* Whatever is lost or repeated, the device holds during an attempt what    *)
(* that attempt has sent it, and nothing else.                              *)
THEOREM ReceivedCorrect == Spec => []Received
<1>1. Init => IInv
  BY InitInv
<1>2. IInv /\ [Next]_vars => IInv'
  BY Step
<1>3. IInv => Received
  BY DEF IInv
<1>4. QED
  BY <1>1, <1>2, <1>3, PTL DEF Spec

(* SendImage implements the abstract transfer: the whole image or nothing,  *)
(* and success only for the whole image.                                    *)
THEOREM SendImageImplementsTransfer == Spec => ImplementsTransfer
<1>1. Init => Transfer!Init /\ IInv
  BY InitInv DEF Init, Transfer!Init
<1>2. QED
  BY <1>1, Step, PTL DEF Spec, ImplementsTransfer, Transfer!Spec
=============================================================================
