--------------------------- MODULE DeviceCommands ---------------------------
(***************************************************************************)
(* The commands that bring images to an iPod: restore, cfw run, cfw        *)
(* superdiags, run and haxdfu (cmd/wInd3x).  Their owner runs one after    *)
(* another, in any order, and resets, re-plugs and kills in between.       *)
(*                                                                         *)
(* A command is the sequence of steps it has to do; every step is one call *)
(* that may fail.  The device boots signed images, and unsigned ones only  *)
(* from a DFU that runs the payload or a WTF that was patched.             *)
(*                                                                         *)
(* UsbMs has the transfers of a Disk mode command.  A run that takes an    *)
(* answer to another command for its own ends in an error there, which     *)
(* here is the command's own.                                              *)
(***************************************************************************)
EXTENDS Integers, Sequences

CONSTANTS
  Kinds,      \* the kinds of iPods
  Commands,   \* what the owner runs
  MaxTries,   \* attempts to send the second image (10 in the code)
  MaxFaults   \* bound: failures, resets and kills in one behaviour

Names == {"restore", "superdiags", "cfwrun", "run", "haxdfu"}
FileKinds == {"signed", "unsigned", "bad", "missing"}
Releases == {"current", "older"}

ASSUME CommandsAssumption ==
  /\ Kinds \subseteq {"n3g", "n4g", "n5g", "n6g", "n7g", "n7g-late"}
  /\ Commands \subseteq [name : Names, full : BOOLEAN, version : Releases \cup {"list", "bogus"},
                         file : FileKinds]
  /\ MaxTries \in Nat \ {0} /\ MaxFaults \in Nat

VARIABLES
  kind,           \* what the iPod is
  mode, boot,     \* what it enumerates as, and the image it was told to boot
  trusting,       \* it boots unsigned images
  part, bl, fw,   \* the release its partition was made for, its bootloader, its firmware
  refused, took,  \* history: it refused an image; the image this command made it boot
  cmd, todo,      \* the command, and the steps it has left
  desc,           \* app.Desc
  live,           \* its handle refers to the device as now enumerated
  tries, result,
  stuck,          \* it waits in a USB call that does not return
  override,       \* FirmwareVersionOverrides
  used,           \* the bulk pipes may hold what a failed or killed command left
  faults

flash == <<part, bl, fw>>
device == <<kind, mode, boot, trusting, flash, refused, took>>
host == <<cmd, todo, desc, live, tries, result, stuck, override>>
usb == <<used, faults>>
vars == <<device, host, usb>>

-----------------------------------------------------------------------------
(* The device table.  A late nano 7G is a nano 7G in DFU and Disk mode, and *)
(* has a product ID of its own in WTF only.                                 *)
SeenAs(k, m) == IF k = "n7g-late" /\ m # "WTF" THEN "n7g" ELSE k
Supports(d, m) == d # "n7g-late" \/ m = "WTF"

HasBootloader(d) == d # "n3g"

Ready(m) == mode = m /\ boot = "none"

(* newDFU, and newAny for restore. *)
Opens(m) == Ready(m) /\ m \in (IF cmd.name = "restore" THEN {"DFU", "WTF", "Disk"} ELSE {"DFU"})

(* The loop over app.InterfaceKind unrolled, on a device found in m.        *)
RestoreSteps(m) ==
  (IF cmd.version = "list" THEN <<>> ELSE
    <<"version", "get">>
    \o (IF m = "DFU" THEN <<"getWTF", "sendFirst", "waitWTF">> ELSE <<>>)
    \o (IF m # "Disk" THEN <<"getRecovery", "sendNext", "waitDisk">> ELSE <<>>)
    \o <<"information">>
    \o (IF cmd.full THEN <<"repartition">> ELSE <<>>)
    \o (IF cmd.full /\ HasBootloader(SeenAs(kind, m)) THEN <<"bootloader">> ELSE <<>>)
    \o <<"firmware", "finalize">>)

Steps(m) ==
  CASE cmd.name = "restore" -> RestoreSteps(m)
    [] cmd.name = "superdiags" ->
         <<"build", "getWTF", "trigger", "sendFirst", "waitWTF", "sendNext">>
    [] cmd.name = "cfwrun" ->
         <<"read", "getWTF", "trigger", "sendFirst", "pack", "waitWTF", "sendNext">>
    [] cmd.name = "run" -> <<"trigger", "read", "pack", "clean", "sendFirst">>
    [] cmd.name = "haxdfu" -> <<"trigger">>

Step == IF result = "running" /\ todo # <<>> THEN Head(todo) ELSE "none"

Init ==
  /\ kind \in Kinds /\ mode \in {"Off", "DFU", "Disk", "OS"} /\ boot = "none"
  /\ trusting = FALSE /\ part = "other" /\ bl = "other" /\ fw = "other" /\ refused = FALSE /\ took = "none"
  /\ cmd \in Commands /\ todo = <<>> /\ desc = kind /\ live = FALSE /\ tries = 0
  /\ result = "none" /\ override = "current" /\ stuck = FALSE /\ used = FALSE /\ faults = 0

(* The steps through the bulk pipes, where a failed command leaves messages *)
(* and the next one may fail, or wait for ever, because of them.            *)
OnBulk == Step \in {"information", "repartition", "bootloader", "firmware", "finalize"}

Fault == faults < MaxFaults /\ faults' = faults + 1
Accident == Fault /\ UNCHANGED used
Works == live /\ ~stuck /\ UNCHANGED usb
Disturbed ==
  /\ live /\ ~stuck /\ used' = (used \/ OnBulk)
  /\ Fault \/ (used /\ OnBulk /\ UNCHANGED faults)
Fails == (~live /\ UNCHANGED usb) \/ Disturbed

Continue == todo' = Tail(todo) /\ UNCHANGED <<cmd, desc, live, tries, result, stuck>>
Exit(r) ==
  todo' = <<>> /\ live' = FALSE /\ result' = r /\ stuck' = FALSE /\ UNCHANGED <<cmd, desc, tries>>
GoesOn == Continue /\ UNCHANGED override
Aborts == Exit("error") /\ UNCHANGED override

-----------------------------------------------------------------------------
(* Opening the device, and what needs none.                                 *)

(* A new process: the override of an earlier restore is gone.               *)
Start(c) ==
  /\ result # "running"
  /\ cmd' = c /\ todo' = <<"open">> /\ live' = FALSE /\ tries' = 0 /\ result' = "running"
  /\ took' = "none"
  /\ override' = "current"
  /\ UNCHANGED <<kind, mode, boot, trusting, flash, refused, desc, stuck, usb>>

Open ==
  /\ Step = "open" /\ Opens(mode)
  /\ todo' = Steps(mode) /\ desc' = SeenAs(kind, mode) /\ live' = TRUE
  /\ UNCHANGED <<device, cmd, tries, result, stuck, override, usb>>

(* No such device, or it cannot be opened or prepared. *)
OpenFails ==
  /\ Step = "open" /\ (Opens(mode) => Accident) /\ (~Opens(mode) => UNCHANGED usb)
  /\ Aborts /\ UNCHANGED device

(* The last step is done. *)
Return ==
  /\ result = "running" /\ todo = <<>> /\ Exit("ok")
  /\ UNCHANGED <<device, override, usb>>

Version ==
  /\ Step = "version" /\ Continue
  /\ override' = cmd.version /\ UNCHANGED <<device, usb>>

(* FirmwareURL rejects an override it does not know.                        *)
GetFirmware ==
  /\ Step = "get"
  /\ \/ override # "bogus" /\ GoesOn /\ UNCHANGED usb
     \/ override = "bogus" /\ Aborts /\ UNCHANGED usb
     \/ Accident /\ Aborts
  /\ UNCHANGED device

(* What superdiags sends is put together of payloads in the same way.       *)
GetImage ==
  /\ Step \in {"getWTF", "getRecovery", "build"}
  /\ (UNCHANGED usb /\ GoesOn) \/ (Accident /\ Aborts)
  /\ UNCHANGED device

ReadFile ==
  /\ Step = "read" /\ UNCHANGED <<device, usb>>
  /\ IF cmd.file = "missing" THEN Aborts ELSE GoesOn

(* image.Read: what is no image, or too short for one, is wrapped into one. *)
Pack ==
  /\ Step = "pack" /\ UNCHANGED <<device, usb>>
  /\ IF cmd.file = "bad" THEN Aborts ELSE GoesOn

-----------------------------------------------------------------------------
(* Sending images.                                                          *)

(* haxeddfu.Trigger with the result of the exploit taken for granted.       *)
TriggerUnchecked ==
  /\ Step = "trigger"
  /\ \/ Works /\ trusting' = TRUE /\ GoesOn
     \/ ~live /\ UNCHANGED <<trusting, usb>> /\ Aborts
     \/ Disturbed /\ trusting' \in {trusting, TRUE} /\ GoesOn
  /\ UNCHANGED <<kind, mode, boot, flash, refused, took>>

(* haxeddfu.Trigger: nothing is sent to a device that already runs the      *)
(* payload, and the descriptor is read again afterwards.                    *)
Trigger ==
  /\ Step = "trigger"
  /\ \/ Works /\ trusting' = TRUE /\ GoesOn
     \/ Fails /\ trusting' \in {trusting, trusting \/ live} /\ Aborts
  /\ UNCHANGED <<kind, mode, boot, flash, refused, took>>

Clean ==
  /\ Step = "clean"
  /\ (Works /\ GoesOn) \/ (Fails /\ Aborts)
  /\ UNCHANGED device

(* The image of a step, and whether it is signed. *)
Image ==
  IF Step = "sendFirst"
    THEN CASE cmd.name = "restore" -> "WTF"
           [] cmd.name = "run" -> "App"
           [] OTHER -> "patchedWTF"
    ELSE IF cmd.name = "restore" THEN "Disk" ELSE "App"
IsSigned == cmd.name = "restore" \/ (Image = "App" /\ cmd.name # "superdiags" /\ cmd.file = "signed")

Boots == IsSigned \/ trusting

(* dfu.SendImage on the live device: it boots the image, or refuses it, or  *)
(* the transfer fails, perhaps after the device took the image.             *)
Taken == boot = "none" /\ live /\ Boots /\ boot' = Image /\ took' = Image
Succeeds == Taken /\ ~stuck /\ UNCHANGED <<refused, usb>>
Misses ==
  \/ (~live \/ boot # "none") /\ ~stuck /\ UNCHANGED <<boot, took, refused, usb>>
  \/ Works /\ boot = "none" /\ ~Boots /\ refused' = TRUE /\ UNCHANGED <<boot, took>>
  \/ Disturbed /\ UNCHANGED refused /\ (Taken \/ UNCHANGED <<boot, took>>)

SendFirst ==
  /\ Step = "sendFirst"
  /\ (Succeeds /\ GoesOn) \/ (Misses /\ Aborts)
  /\ UNCHANGED <<kind, mode, trusting, flash>>

(* The error of the last attempt dropped, as cfw 16gb does.                 *)
SendNextDropping ==
  /\ Step = "sendNext"
  /\ \/ Succeeds /\ GoesOn
     \/ Misses /\ tries' = tries + 1
        /\ todo' = (IF tries' < MaxTries THEN todo ELSE Tail(todo))
        /\ UNCHANGED <<cmd, desc, live, result, stuck, override>>
  /\ UNCHANGED <<kind, mode, trusting, flash>>

(* Up to MaxTries attempts; the error of the last one is returned.          *)
SendNext ==
  /\ Step = "sendNext"
  /\ \/ Succeeds /\ GoesOn
     \/ Misses /\ tries < MaxTries - 1 /\ tries' = tries + 1
        /\ UNCHANGED <<cmd, todo, desc, live, result, stuck, override>>
     \/ Misses /\ tries = MaxTries - 1 /\ Aborts
  /\ UNCHANGED <<kind, mode, trusting, flash>>

(* waitSwitch: the product ID is that of the kind that was opened, or of    *)
(* the late nano 7G's WTF if it may be one.                                 *)
Awaited == IF Step = "waitWTF" THEN "WTF" ELSE "Disk"

(* Without the special case.                                                *)
VisibleOwn == Ready(Awaited) /\ SeenAs(kind, Awaited) = desc

(* Seen on the bus by waitSwitch.                                           *)
Visible ==
  /\ Ready(Awaited)
  /\ \/ SeenAs(kind, Awaited) = desc
     \/ desc = "n7g" /\ Awaited = "WTF" /\ kind = "n7g-late"

Switched ==
  /\ Step \in {"waitWTF", "waitDisk"} /\ Supports(desc, Awaited) /\ Visible
  /\ todo' = Tail(todo) /\ live' = TRUE
  /\ UNCHANGED <<device, cmd, desc, tries, result, stuck, override, usb>>

(* Only a fault makes the deadline pass before a device that is on its way  *)
(* is seen.  A kind without the mode fails at once.                         *)
OnItsWay == boot = Awaited \/ (boot = "patchedWTF" /\ Awaited = "WTF")
Coming == Supports(desc, Awaited) /\ (Visible \/ OnItsWay)
SwitchFails ==
  /\ Step \in {"waitWTF", "waitDisk"}
  /\ (Coming => Accident) /\ (~Coming => UNCHANGED usb)
  /\ Aborts /\ UNCHANGED device

-----------------------------------------------------------------------------
(* restore in Disk mode.                                                    *)

(* An error is printed, and the restore goes on. *)
Information ==
  /\ Step = "information" /\ (Works \/ Fails)
  /\ GoesOn /\ UNCHANGED device

Flash(p, b, f) == part' = p /\ bl' = b /\ fw' = f

(* A write of the flash: done, or given up somewhere on the way.            *)
Writes(s, done, torn) ==
  /\ Step = s
  /\ \/ Works /\ done /\ GoesOn
     \/ Fails /\ Aborts /\ (UNCHANGED flash \/ (live /\ (done \/ torn)))
  /\ UNCHANGED <<kind, mode, boot, trusting, refused, took>>

Repartition ==
  Writes("repartition", Flash(override, bl, "torn"), Flash("other", bl, "torn"))
WriteBootloader ==
  Writes("bootloader", Flash(part, override, fw), Flash(part, "torn", fw))
WriteFirmware ==
  Writes("firmware", Flash(part, bl, override), Flash(part, bl, "torn"))

(* The device reboots, but after a full restore, which leaves that to the   *)
(* owner.                                                                   *)
Finalized == IF cmd.full THEN boot ELSE "OS"
Finalize ==
  /\ Step = "finalize"
  /\ \/ Works /\ boot' = Finalized /\ GoesOn
     \/ Fails /\ boot' \in {boot} \cup (IF live THEN {Finalized} ELSE {}) /\ Aborts
  /\ UNCHANGED <<kind, mode, trusting, flash, refused, took>>

-----------------------------------------------------------------------------
(* The device boots what it was told to, and is a new device on the bus: a  *)
(* call that waits for the old one ends.                                    *)
Enumerate ==
  /\ boot # "none" /\ boot' = "none"
  /\ mode' = (IF boot = "patchedWTF" THEN "WTF" ELSE boot)
  /\ trusting' = (boot = "patchedWTF") /\ live' = FALSE /\ stuck' = FALSE /\ used' = FALSE
  /\ UNCHANGED <<kind, flash, refused, took, faults>>
  /\ UNCHANGED <<cmd, todo, desc, tries, result, override>>

(* The owner resets it, and holds the buttons for DFU or Disk mode.         *)
Reset(m) ==
  /\ m # mode \/ boot # "none" \/ trusting \/ used
  /\ IF result = "running" /\ ~stuck THEN Fault ELSE UNCHANGED faults
  /\ mode' = m /\ boot' = "none" /\ trusting' = FALSE
  /\ live' = FALSE /\ stuck' = FALSE /\ used' = FALSE
  /\ UNCHANGED <<kind, flash, refused, took, cmd, todo, desc, tries, result, override>>

(* A kill between two transfers leaves a command in the pipes.              *)
Killed ==
  /\ result = "running" /\ (IF stuck THEN UNCHANGED faults ELSE Fault) /\ Exit("killed")
  /\ used' = (used \/ (live /\ OnBulk))
  /\ UNCHANGED <<device, override>>

(* The device or a hub leaves a call without an answer, or the answer a     *)
(* bulk transfer waits for has been taken for another.                      *)
Hangs ==
  /\ OnBulk \/ Step \in {"trigger", "clean", "sendFirst", "sendNext"}
  /\ Disturbed /\ stuck' = TRUE
  /\ UNCHANGED <<device, cmd, todo, desc, live, tries, result, override>>

Work ==
  \/ Open \/ OpenFails \/ Return \/ Version \/ GetFirmware \/ GetImage
  \/ ReadFile \/ Pack \/ Trigger \/ Clean \/ SendFirst \/ SendNext
  \/ Switched \/ SwitchFails
  \/ Information \/ Repartition \/ WriteBootloader \/ WriteFirmware \/ Finalize

Next ==
  \/ \E c \in Commands : Start(c)
  \/ Work \/ Enumerate \/ Killed \/ Hangs
  \/ \E m \in {"Off", "DFU", "Disk", "OS"} : Reset(m)

Spec == Init /\ [][Next]_vars

(* A program that waits in no call that hangs runs on, and the device boots *)
(* the image it has taken.                                                  *)
FairSpec == Spec /\ WF_vars(Work) /\ WF_vars(Enumerate)
-----------------------------------------------------------------------------
(* Properties.                                                              *)

(* An unsigned image is only ever sent to a device that boots it: one whose *)
(* descriptor showed the payload, or the WTF that it made boot - also when  *)
(* the device was reset, or left in some mode by a command before.          *)
NothingRefused == ~refused

(* A command that reports success has done what it is for.  The partition   *)
(* of a full restore is made for the release that is written into it, and   *)
(* the bootloader comes from the same release.                              *)
OkMeansDone ==
  result = "ok" =>
    /\ cmd.name = "restore" /\ cmd.version # "list" =>
         /\ fw = cmd.version /\ cmd.version \in Releases
         /\ cmd.full => part = fw /\ (HasBootloader(desc) => bl = fw)
    /\ cmd.name \in {"superdiags", "cfwrun", "run"} => took = "App"
    /\ cmd.name \in {"cfwrun", "run"} => cmd.file \notin {"bad", "missing"}

(* The device may be left in any of the modes a failed command goes through *)
(* on its way; restore is the one that takes it from there, if nothing that *)
(* was left in the pipes of Disk mode is in its way.  With nothing more     *)
(* going wrong it succeeds, but for a late nano 7G found in WTF, whose Disk *)
(* mode it does not know; that device is in Disk mode afterwards, and       *)
(* restore can be run again.                                                *)
Restorable == mode \in {"DFU", "WTF", "Disk"} /\ boot = "none" /\ ~used
RestoreRecovers ==
  (Step = "open" /\ cmd.name = "restore" /\ cmd.version # "bogus"
     /\ Restorable /\ faults = MaxFaults)
    ~> \/ result = "ok"
       \/ result # "running" /\ desc = "n7g-late" /\ "Disk" \in {mode, boot}
=============================================================================
