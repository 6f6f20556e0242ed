---------------------------- MODULE FlashSession ----------------------------
(***************************************************************************)
(* wInd3x cfw 16gb: one host program flashing one iPod nano 3G             *)
(* (cmd/wInd3x/cmd_cfw.go, app.go, haxeddfu.Trigger).                      *)
(*                                                                         *)
(* The host runs either the full restore (DFU -> WTF -> Disk mode, then a  *)
(* forced repartition and the firmware) or --firmware-only (Disk mode, the *)
(* table repaired only if it is bad).  Every USB command of the host is a  *)
(* step.  The iPod and its owner are the environment: the device may be    *)
(* reset, a command may fail before or after it took effect, a write may   *)
(* be acknowledged and lost, a call may never return, the program may be   *)
(* killed, and between runs the owner may re-create the partition table    *)
(* and sync music to it.                                                   *)
(*                                                                         *)
(* UsbMs has the transfers of a Disk mode command, and what a failed one   *)
(* leaves in the bulk pipes; here the pipes are clean or have been used.   *)
(***************************************************************************)
EXTENDS N3GLayout

CONSTANTS
  Tables,       \* the contents the table block may have when it parses
  BadMBR,       \* a block 0 that ParseMBR rejects
  Authored,     \* the table disk mode writes when asked to repartition
  FwBytes,      \* N3GFirmwarePartitionSize
  BlockSizes,   \* the block sizes a device may report
  Chunks,       \* IPodUpdateSendFull's chunks; the first holds the directory
  MaxTries,     \* attempts to send the recovery image (10 in the code)
  MaxFaults     \* bound: faults the environment injects in one behaviour

ASSUME SessionAssumption ==
  /\ BadMBR \notin Tables /\ Authored \in Tables
  /\ FwBytes \in Nat /\ BlockSizes \subseteq Nat
  /\ Chunks \in Nat \ {0} /\ MaxTries \in Nat \ {0} /\ MaxFaults \in Nat

VARIABLES
  \* the device
  mode, boot,   \* what it enumerates as, and the image it was told to boot
  haxed,        \* DFU runs the exploit payload, so unsigned images boot
  table,        \* block 0
  data,         \* what the data partition holds
  vol,          \* the firmware volume, by chunk
  blockSize,
  \* the host process
  pc, cmd, noRepart,
  live,         \* its USB handle refers to the device as now enumerated
  fwFits,       \* the firmware image is no larger than its partition
  tries, chunk, verifyErr, result,
  verified,     \* history: this run read the directory back
  stuck,        \* it waits in a USB call that does not return
  \* the environment
  used,         \* the bulk pipes may hold what a failed or killed command left
  faults

device == <<mode, boot, haxed, table, data, vol, blockSize>>
host == <<pc, cmd, noRepart, live, fwFits, tries, chunk, verifyErr, result, verified, stuck>>
usb == <<used, faults>>
vars == <<device, host, usb>>

-----------------------------------------------------------------------------
FwBlocks == FwBytes \div blockSize

(* blockSize is nonzero and divides the firmware partition. *)
GeometryOK == blockSize # 0 /\ FwBytes % blockSize = 0

(* The verdict on a table: the geometry is one the command works with, the  *)
(* block parses, and it passes the check.                                   *)
LayoutOK(t) == GeometryOK /\ t # BadMBR /\ CheckN3GLayout(t, FwBlocks)

(* Chunk c of the firmware occupies one block of the volume. *)
ChunkLBA(c) == VolumeLBA + c - 1

(* verifyN3GFirmwareVolume looks at the header and the directory only, both *)
(* inside the first chunk; an older firmware's directory satisfies it too.  *)
DirectoryValid == vol[1] # "junk"

Init ==
  /\ mode \in {"Off", "DFU", "Disk", "OS"} /\ boot = "none" /\ haxed = FALSE
  /\ table \in Tables \cup {BadMBR} /\ data = "user"
  /\ vol \in {[c \in 1 .. Chunks |-> k] : k \in {"junk", "old"}}
  /\ blockSize \in BlockSizes
  /\ pc = "idle" /\ cmd = "full" /\ noRepart = FALSE /\ live = FALSE
  /\ fwFits \in BOOLEAN /\ tries = 0 /\ chunk = 1
  /\ verifyErr = FALSE /\ result = "none" /\ verified = FALSE
  /\ stuck = FALSE /\ used = FALSE /\ faults = 0

(* The commands of Disk mode go through the bulk pipes.                     *)
Bulk == {"size", "capacity", "readTable", "repartition", "readBack", "updateStart",
  "chunk", "updateEnd", "capacityAgain", "verify", "finalize"}

(* A command on a live handle may work; it may fail if the environment     *)
(* spends a fault on it or it finds the remains of others in the pipes,    *)
(* where a failed one leaves its own; it always fails on a dead handle.     *)
Fault == faults < MaxFaults /\ faults' = faults + 1
Accident == Fault /\ UNCHANGED used
Works == live /\ ~stuck /\ UNCHANGED usb
Disturbed == Fault \/ (used /\ pc \in Bulk /\ UNCHANGED faults)
Fails == \/ ~live /\ UNCHANGED usb
         \/ live /\ ~stuck /\ Disturbed /\ used' = (used \/ pc \in Bulk)

(* A command that reports success and did something else: what a Disk mode  *)
(* command takes for its answer may be that to another.                     *)
Misled == live /\ ~stuck /\ Disturbed /\ UNCHANGED used

(* What a failed command may have done to a device it reached. *)
Boots(img) == boot' \in {boot} \cup (IF live THEN {img} ELSE {})

Goto(l) ==
  /\ pc' = l
  /\ UNCHANGED <<cmd, noRepart, live, fwFits, tries, chunk, verifyErr, result, verified, stuck>>

(* The command returns r: the process ends and its handles are closed. *)
Exit(r) ==
  /\ pc' = "idle" /\ result' = r /\ live' = FALSE /\ stuck' = FALSE
  /\ UNCHANGED <<cmd, noRepart, fwFits, tries, chunk, verifyErr, verified>>

(* The handle is opened (or re-opened) on the device as it enumerates now.  *)
Attach(l) ==
  /\ pc' = l /\ live' = TRUE
  /\ UNCHANGED <<cmd, noRepart, fwFits, tries, chunk, verifyErr, result, verified, stuck>>

Ready(m) == mode = m /\ boot = "none"

-----------------------------------------------------------------------------
(* Reaching Disk mode.                                                      *)

Start(c, nr) ==
  /\ pc = "idle"
  /\ pc' = "open" /\ cmd' = c /\ noRepart' = nr /\ live' = FALSE
  /\ tries' = 0 /\ chunk' = 1 /\ verifyErr' = FALSE /\ verified' = FALSE
  /\ result' = "running"
  /\ UNCHANGED <<device, fwFits, stuck, usb>>

(* newDFU sees a device in DFU only; --firmware-only takes what newAny      *)
(* finds but insists on Disk mode.                                          *)
Wanted == IF cmd = "full" THEN "DFU" ELSE "Disk"

Open ==
  /\ pc = "open" /\ Ready(Wanted)
  /\ Attach(IF cmd = "full" THEN "trigger" ELSE "get")
  /\ UNCHANGED <<device, usb>>

OpenFails ==
  /\ pc = "open" /\ (Ready(Wanted) => Accident) /\ (~Ready(Wanted) => UNCHANGED usb)
  /\ Exit("error") /\ UNCHANGED device

(* haxeddfu.Trigger: nothing is sent to a device that already runs it. *)
Trigger ==
  /\ pc = "trigger" /\ Works
  /\ haxed' = TRUE /\ Goto("get")
  /\ UNCHANGED <<mode, boot, table, data, vol, blockSize>>

TriggerFails ==
  /\ pc = "trigger" /\ Fails
  /\ \/ UNCHANGED haxed
     \/ live /\ haxed' = TRUE
  /\ Exit("error")
  /\ UNCHANGED <<mode, boot, table, data, vol, blockSize>>

(* The images come from the cache, the network or the device. *)
GetImages ==
  /\ pc = "get" /\ Goto(IF cmd = "full" THEN "sendWTF" ELSE "size")
  /\ UNCHANGED <<device, usb>>

GetImagesFails ==
  /\ pc = "get" /\ Accident /\ Exit("error") /\ UNCHANGED device

(* One attempt; DFU boots the unsigned image because it runs the payload.   *)
SendWTF ==
  /\ pc = "sendWTF" /\ Works /\ Ready("DFU") /\ haxed
  /\ boot' = "WTF" /\ Goto("waitWTF")
  /\ UNCHANGED <<mode, haxed, table, data, vol, blockSize>>

SendWTFFails ==
  /\ pc = "sendWTF" /\ Fails
  /\ Boots("WTF") /\ Exit("error")
  /\ UNCHANGED <<mode, haxed, table, data, vol, blockSize>>

(* waitSwitch(m): polled until the device enumerates as m. *)
Switched(at, m, next) ==
  /\ pc = at /\ Ready(m) /\ Attach(next)
  /\ UNCHANGED <<device, usb>>

(* It gives up when the deadline passes, or when an open or PrepareUSB      *)
(* returns an error; a device that is there or on its way needs a fault.    *)
SwitchFails(at, m) ==
  /\ pc = at
  /\ \/ (Ready(m) \/ boot = m) /\ Accident
     \/ ~Ready(m) /\ boot # m /\ UNCHANGED usb
  /\ Exit("error") /\ UNCHANGED device

SendRecovery ==
  /\ pc = "sendRecovery" /\ Works /\ Ready("WTF")
  /\ boot' = "Disk" /\ Goto("waitDisk")
  /\ UNCHANGED <<mode, haxed, table, data, vol, blockSize>>

(* The attempts not counted.                                                *)
SendRecoveryFailsForever ==
  /\ pc = "sendRecovery" /\ ~stuck
  /\ (boot = "none" => Fails) /\ (boot # "none" => UNCHANGED usb)
  /\ UNCHANGED <<device, host>>

(* A failed attempt is logged and repeated; when the attempts run out the   *)
(* error is dropped and the command waits for Disk mode all the same.       *)
(* After a lost reply the device boots, and no later attempt reaches it.    *)
SendRecoveryFails ==
  /\ pc = "sendRecovery" /\ ~stuck
  /\ \/ boot # "none" /\ UNCHANGED <<boot, usb>>
     \/ boot = "none" /\ Fails /\ Boots("Disk")
  /\ tries' = tries + 1
  /\ pc' = IF tries' = MaxTries THEN "waitDisk" ELSE "sendRecovery"
  /\ UNCHANGED <<mode, haxed, table, data, vol, blockSize>>
  /\ UNCHANGED <<cmd, noRepart, live, fwFits, chunk, verifyErr, result, verified, stuck>>

-----------------------------------------------------------------------------
(* writeN3GFirmware.                                                        *)

(* IPodDeviceInformation is informative, so its failure only leaves         *)
(* messages; an image that cannot fit is not written.                       *)
CheckSize ==
  /\ pc = "size" /\ (Works \/ Fails)
  /\ \/ fwFits /\ Goto("capacity")
     \/ ~fwFits /\ Exit("error")
  /\ UNCHANGED device

Capacity ==
  /\ pc = "capacity"
  /\ \/ Works /\ GeometryOK /\ Goto("readTable")
     \/ Works /\ ~GeometryOK /\ Exit("error")
     \/ Fails /\ Exit("error")
  /\ UNCHANGED device

(* The decision taken wrongly: a table that cannot be read passes, the      *)
(* option is ignored, a safe table is repartitioned all the same.           *)
Decides(trusts, obeys, force) ==
  /\ pc = "readTable"
  /\ \E layoutOK \in BOOLEAN :
       /\ \/ Works /\ layoutOK = LayoutOK(table)
          \/ Fails /\ layoutOK = trusts
       /\ \/ layoutOK /\ ~force /\ Goto("updateStart")
          \/ layoutOK /\ force /\ Goto("repartition")
          \/ ~layoutOK /\ noRepart /\ obeys /\ Exit("error")
          \/ ~layoutOK /\ ~(noRepart /\ obeys) /\ Goto("repartition")
  /\ UNCHANGED device
ReadTableTrusting == Decides(TRUE, TRUE, cmd = "full")
ReadTableDisobeying == Decides(FALSE, FALSE, cmd = "full")
ReadTableForcing == Decides(FALSE, TRUE, TRUE)

(* A table that cannot be read counts as an unsafe one. *)
ReadTable ==
  /\ pc = "readTable"
  /\ \E layoutOK \in BOOLEAN :
       /\ \/ Works /\ layoutOK = LayoutOK(table)
          \/ Fails /\ layoutOK = FALSE
       /\ \/ layoutOK /\ cmd # "full" /\ Goto("updateStart")
          \/ layoutOK /\ cmd = "full" /\ Goto("repartition")
          \/ ~layoutOK /\ noRepart /\ Exit("error")
          \/ ~layoutOK /\ ~noRepart /\ Goto("repartition")
  /\ UNCHANGED device

Repartition ==
  /\ pc = "repartition"
  /\ \/ Works /\ table' = Authored /\ data' = "erased"
     \/ Misled /\ table' \in Tables \cup {BadMBR} /\ data' = "erased"
     \/ Misled /\ UNCHANGED <<table, data>>
  /\ Goto("readBack")
  /\ UNCHANGED <<mode, boot, haxed, vol, blockSize>>

RepartitionFails ==
  /\ pc = "repartition" /\ Fails
  /\ \/ UNCHANGED <<table, data>>
     \/ live /\ data' = "erased" /\ table' \in Tables \cup {BadMBR}
  /\ Exit("error")
  /\ UNCHANGED <<mode, boot, haxed, vol, blockSize>>

ReadBack ==
  /\ pc = "readBack"
  /\ \/ Works /\ LayoutOK(table) /\ Goto("updateStart")
     \/ Works /\ ~LayoutOK(table) /\ Exit("error")
     \/ Fails /\ Exit("error")
  /\ UNCHANGED device

UpdateStart ==
  /\ pc = "updateStart"
  /\ \/ Works /\ Goto("chunk")
     \/ Fails /\ Exit("error")
  /\ UNCHANGED device

(* IPodUpdateSendFull's loop one chunk short.                               *)
SendChunkShort ==
  /\ pc = "chunk"
  /\ Works /\ vol' = [vol EXCEPT ![chunk] = "new"]
  /\ chunk' = chunk + 1
  /\ pc' = IF chunk + 1 < Chunks THEN "chunk" ELSE "updateEnd"
  /\ UNCHANGED <<mode, boot, haxed, table, data, blockSize>>
  /\ UNCHANGED <<cmd, noRepart, live, fwFits, tries, verifyErr, result, verified, stuck>>

(* The device acknowledged the chunk, which it may nevertheless have lost:  *)
(* disk mode's partial-page path reports success whatever the flash said.   *)
SendChunk ==
  /\ pc = "chunk"
  /\ \/ Works /\ vol' = [vol EXCEPT ![chunk] = "new"]
     \/ Misled /\ vol' \in {vol, [vol EXCEPT ![chunk] = "junk"]}
  /\ \/ chunk < Chunks /\ chunk' = chunk + 1 /\ pc' = pc
     \/ chunk = Chunks /\ chunk' = chunk /\ pc' = "updateEnd"
  /\ UNCHANGED <<mode, boot, haxed, table, data, blockSize>>
  /\ UNCHANGED <<cmd, noRepart, live, fwFits, tries, verifyErr, result, verified, stuck>>

SendChunkFails ==
  /\ pc = "chunk" /\ Fails
  /\ \/ UNCHANGED vol
     \/ live /\ vol' \in {[vol EXCEPT ![chunk] = k] : k \in {"new", "junk"}}
  /\ Exit("error")
  /\ UNCHANGED <<mode, boot, haxed, table, data, blockSize>>

UpdateEnd ==
  /\ pc = "updateEnd"
  /\ \/ Works /\ Goto("capacityAgain")
     \/ Fails /\ Exit("error")
  /\ UNCHANGED device

(* Without a block size the verification is skipped with a warning. *)
CapacityAgain ==
  /\ pc = "capacityAgain"
  /\ \/ Works /\ Goto("verify")
     \/ Fails /\ Goto("finalize")
  /\ UNCHANGED device

Verify ==
  /\ pc = "verify"
  /\ \/ Works /\ verifyErr' = ~DirectoryValid
     \/ Fails /\ verifyErr' = TRUE
  /\ verified' = TRUE /\ pc' = "finalize"
  /\ UNCHANGED <<device, cmd, noRepart, live, fwFits, tries, chunk, result, stuck>>

(* The verification's error lost behind the reset's success.                *)
FinalizeForgetful ==
  /\ pc = "finalize" /\ Works
  /\ boot' = "OS" /\ Exit("ok")
  /\ UNCHANGED <<mode, haxed, table, data, vol, blockSize>>

(* The reset precedes the report of a failed verification. *)
Finalize ==
  /\ pc = "finalize"
  /\ \/ Works /\ boot' = "OS"
     \/ Misled /\ UNCHANGED boot
  /\ Exit(IF verifyErr THEN "error" ELSE "ok")
  /\ UNCHANGED <<mode, haxed, table, data, vol, blockSize>>

FinalizeFails ==
  /\ pc = "finalize" /\ Fails
  /\ Boots("OS") /\ Exit("error")
  /\ UNCHANGED <<mode, haxed, table, data, vol, blockSize>>

-----------------------------------------------------------------------------
(* The environment.                                                         *)

(* The device leaves the bus, which ends the call that waits for it, and    *)
(* comes back with clean pipes as the image it was sent, or not at all.     *)
Reboot ==
  /\ boot # "none"
  /\ \/ mode' = boot /\ UNCHANGED faults
     \/ mode' = "Off" /\ Fault
  /\ boot' = "none" /\ haxed' = FALSE /\ live' = FALSE /\ stuck' = FALSE /\ used' = FALSE
  /\ UNCHANGED <<table, data, vol, blockSize>>
  /\ UNCHANGED <<pc, cmd, noRepart, fwFits, tries, chunk, verifyErr, result, verified>>

(* The owner resets the device or pulls the cable, in a run or between runs. *)
OwnerResets ==
  /\ IF pc = "idle" \/ stuck THEN UNCHANGED faults ELSE Fault
  /\ mode' \in {"Off", "DFU", "Disk", "OS"} /\ boot' = "none" /\ haxed' = FALSE
  /\ live' = FALSE /\ stuck' = FALSE /\ used' = FALSE
  /\ UNCHANGED <<table, data, vol, blockSize>>
  /\ UNCHANGED <<pc, cmd, noRepart, fwFits, tries, chunk, verifyErr, result, verified>>

(* A kill between two transfers leaves a command in the pipes.              *)
Killed ==
  /\ pc # "idle" /\ (IF stuck THEN UNCHANGED faults ELSE Fault)
  /\ used' = (used \/ (live /\ pc \in Bulk))
  /\ Exit("killed") /\ UNCHANGED device

(* The device or a hub leaves a call without an answer, or the answer that  *)
(* a bulk transfer waits for has been taken for another.  Only the handle   *)
(* an exploit has worked with has a timeout.  A command that takes effect   *)
(* and hangs is one that returned, before one that hangs.                   *)
Hangs ==
  /\ pc \in Bulk \cup {"trigger", "sendWTF", "sendRecovery"} /\ live /\ ~stuck
  /\ Disturbed /\ used' = (used \/ pc \in Bulk) /\ stuck' = TRUE
  /\ UNCHANGED <<device, pc, cmd, noRepart, live, fwFits, tries, chunk, verifyErr, result, verified>>

OwnerPartitions ==
  /\ pc = "idle" /\ Ready("Disk")
  /\ table' \in Tables \cup {BadMBR} /\ data' = "user"
  /\ UNCHANGED <<mode, boot, haxed, vol, blockSize, host, usb>>

(* A sync fills the filesystem: it may overwrite whatever lies in a data    *)
(* partition.  Type 0 marks the firmware's own partition.                   *)
Sync ==
  /\ pc = "idle" /\ mode \in {"Disk", "OS"} /\ table # BadMBR
  /\ \E i \in Used(table), hit \in SUBSET (1 .. Chunks) :
       /\ table[i].type # 0
       /\ \A c \in hit : ChunkLBA(c) \in Extent(table[i])
       /\ vol' = [c \in 1 .. Chunks |-> IF c \in hit THEN "junk" ELSE vol[c]]
  /\ data' = "user"
  /\ UNCHANGED <<mode, boot, haxed, table, blockSize, host, usb>>

-----------------------------------------------------------------------------
Owner ==
  \/ \E c \in {"full", "firmwareOnly"}, nr \in BOOLEAN : Start(c, nr)
  \/ OwnerResets \/ Killed \/ Hangs \/ OwnerPartitions \/ Sync

Host ==
  \/ Open \/ OpenFails \/ Trigger \/ TriggerFails \/ GetImages \/ GetImagesFails
  \/ SendWTF \/ SendWTFFails
  \/ Switched("waitWTF", "WTF", "sendRecovery") \/ SwitchFails("waitWTF", "WTF")
  \/ SendRecovery \/ SendRecoveryFails
  \/ Switched("waitDisk", "Disk", "size") \/ SwitchFails("waitDisk", "Disk")
  \/ CheckSize \/ Capacity \/ ReadTable
  \/ Repartition \/ RepartitionFails \/ ReadBack
  \/ UpdateStart \/ SendChunk \/ SendChunkFails \/ UpdateEnd
  \/ CapacityAgain \/ Verify \/ Finalize \/ FinalizeFails

Next == Host \/ Reboot \/ Owner

Spec == Init /\ [][Next]_vars

(* A USB call that does not hang returns, by an answer or an error,         *)
(* waitSwitch has a deadline, and a device told to boot leaves the bus.     *)
FairSpec == Spec /\ WF_vars(Host) /\ WF_vars(Reboot)

-----------------------------------------------------------------------------
(* Properties.                                                              *)

Locations == {"idle", "open", "trigger", "get", "sendWTF", "waitWTF", "sendRecovery",
  "waitDisk", "size", "capacity", "readTable", "repartition", "readBack", "updateStart",
  "chunk", "updateEnd", "capacityAgain", "verify", "finalize"}

DeviceTypeOK ==
  /\ mode \in {"Off", "DFU", "WTF", "Disk", "OS"}
  /\ boot \in {"none", "WTF", "Disk", "OS"} /\ haxed \in BOOLEAN
  /\ table \in Tables \cup {BadMBR} /\ data \in {"user", "erased"}
  /\ vol \in [1 .. Chunks -> {"junk", "old", "new"}] /\ blockSize \in BlockSizes

HostTypeOK ==
  /\ pc \in Locations /\ stuck \in BOOLEAN /\ cmd \in {"full", "firmwareOnly"} /\ noRepart \in BOOLEAN
  /\ live \in BOOLEAN /\ fwFits \in BOOLEAN /\ tries \in 0 .. MaxTries
  /\ chunk \in 1 .. Chunks /\ verifyErr \in BOOLEAN /\ verified \in BOOLEAN
  /\ result \in {"none", "running", "error", "ok", "killed"}

(* Every variable keeps its type in every step of program, device and owner. *)
TypeOK == DeviceTypeOK /\ HostTypeOK /\ used \in BOOLEAN /\ faults \in 0 .. MaxFaults

(* What the locations of the program carry from one step to the next:       *)
(* the attempts left to SendRecovery; past the check, and before a          *)
(* repartition that --no-repartition should have prevented, a table that    *)
(* passes; a verification that has not happened, or what its success means. *)
TriesInv ==
  /\ pc \in {"open", "trigger", "get", "sendWTF", "waitWTF"} => tries = 0
  /\ pc = "sendRecovery" => tries < MaxTries

Writing == {"updateStart", "chunk", "updateEnd", "capacityAgain", "verify", "finalize"}

CheckedInv ==
  /\ pc \in Writing => LayoutOK(table)
  /\ pc = "repartition" /\ noRepart => LayoutOK(table)

VerifiedInv ==
  /\ pc \notin {"idle", "finalize"} => ~verified
  /\ pc = "finalize" /\ verified /\ ~verifyErr => DirectoryValid
  /\ pc # "idle" => result = "running"

(* Every state the session reaches is one from which each later step keeps  *)
(* the promises below: the inductive invariant of the program.              *)
IInv == TypeOK /\ TriesInv /\ CheckedInv /\ VerifiedInv

(* writeN3GFirmware touches the firmware volume only while block 0 of the   *)
(* device holds a table that passes the check, whatever was reset, lost or  *)
(* re-partitioned between the check and the write.                          *)
WritesOnlyOnCheckedLayout ==
  [][pc # "idle" /\ vol' # vol => LayoutOK(table)]_vars

(* --no-repartition: the data partition of a device whose table is unsafe   *)
(* or unreadable is never erased by the program.                            *)
NoRepartitionNeverRepairs ==
  [][pc # "idle" /\ noRepart /\ data' # data => LayoutOK(table)]_vars

(* --firmware-only erases the data behind a correct table only if a command *)
(* has failed on the way.                                                   *)
FirmwareOnlyKeepsData ==
  [][pc # "idle" /\ cmd = "firmwareOnly" /\ data' # data
       => ~LayoutOK(table) \/ faults > 0]_vars

(* "Done." is reported only on a safe layout, and, unless the verification  *)
(* was skipped, with a directory the EFI can find on the device.            *)
DoneMeansVerified ==
  [][result # "ok" /\ result' = "ok"
       => LayoutOK(table) /\ (verified => DirectoryValid)]_vars

(* A table that passes the check protects the firmware from the owner's     *)
(* syncs, unless the partition at the volume is itself a data partition.    *)
SyncSparesCheckedVolume ==
  [][pc = "idle" /\ vol' # vol
       => ~LayoutOK(table) \/ \E i \in AtVolume(table) : table[i].type # 0]_vars

(* Every invocation of the command ends or waits in a call that hangs, its  *)
(* retries bounded and waitSwitch by a deadline.  Once accidents stop it    *)
(* ends: a full restore whatever earlier runs left in the pipes, as the     *)
(* device that it takes through DFU comes back with clean ones, and         *)
(* --firmware-only, which begins and stays in Disk mode, on clean pipes.    *)
Terminates ==
  /\ pc # "idle" ~> pc = "idle" \/ stuck
  /\ (pc # "idle" /\ faults = MaxFaults /\ ~stuck /\ (used => cmd = "full" /\ pc \notin Bulk))
       ~> pc = "idle"

(* Whatever earlier failed, killed or reset runs left on the device, a full *)
(* restore that starts in DFU and meets no further fault installs the       *)
(* whole firmware and says so.                                              *)
CleanRunFlashes ==
  pc = "trigger" /\ live /\ ~stuck /\ faults = MaxFaults /\ GeometryOK /\ fwFits /\ ~noRepart
    ~> result = "ok" /\ \A c \in 1 .. Chunks : vol[c] = "new"
=============================================================================
