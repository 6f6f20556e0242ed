-------------------------------- MODULE UsbMs --------------------------------
(***************************************************************************)
(* The mass storage client (pkg/usbms): RawCommand, one step per bulk      *)
(* transfer, under the operations that cfw 16gb and restore perform with   *)
(* it.  Every run of the program makes a new Host, whose tags start over,  *)
(* and nothing resets the pipes: what an interrupted run left in them is   *)
(* there for the next one.                                                 *)
(*                                                                         *)
(* The device is external.  It takes a command when the answer to the one  *)
(* before has been read, and what comes first when it waits for data; its  *)
(* OUT pipe holds a few messages.  A message carries the command it        *)
(* belongs to, as the run and the tag.                                     *)
(***************************************************************************)
EXTENDS Integers, Sequences

CONSTANTS
  Scripts,      \* the sequences of operations that programs perform
  Chunks,       \* chunks in the firmware (IPodUpdateSendFull)
  FullPages,    \* full VPD pages of device information, before a short one
  OutDepth,     \* messages the OUT pipe holds
  MaxRuns,      \* bound: runs of a program
  MaxFaults     \* bound: failed transfers, failed commands, unpluggings

Operations ==
  {"information", "capacity", "table", "read", "repartition", "update", "verify", "finalize", "eject"}

ASSUME UsbMsAssumption ==
  /\ Scripts \subseteq Seq(Operations) \ {<<>>}
  /\ Chunks \in Nat \ {0} /\ FullPages \in Nat /\ OutDepth \in Nat \ {0}
  /\ MaxRuns \in Nat /\ MaxFaults \in Nat

(* Every program that talks to the disk is there to store the firmware.     *)
ASSUME UpdateAssumption == \A s \in Scripts : \E j \in 1 .. Len(s) : s[j] = "update"

VARIABLES
  pc, script,   \* the host: the transfer it is at, what it performs,
  op, n,        \* the operation, and the command within it
  run, tag,     \* the run, and h.Tag
  got,          \* cbd.Data, as the message it came in
  bad,          \* verifyErr
  result,
  out, in,      \* the pipes
  dev,          \* the device: ready, waiting for the data of a command, halted, gone
  image,        \* the chunks it has stored since the update was started
  foreign,      \* history: answers to other commands this run has accepted,
  cut,          \* history: runs in a row, with this one, that began on pipes in use,
  faults

position == <<script, op, n, run, got, bad, cut>>
program == <<pc, position, tag, result, foreign>>
device == <<out, in, dev, image>>
vars == <<program, device, faults>>

-----------------------------------------------------------------------------
(* Commands.                                                                *)

(* The whole of the vendor commands given the limit of the shortest.        *)
CDBShort(code, sub, len) ==
  CASE code < 32 /\ len = 4 -> 6 [] code \in 32 .. 95 /\ len = 8 -> 10
    [] code = 198 /\ len <= 5 -> 6 [] OTHER -> 0

(* CommandDataBuffer.Bytes: the bytes of the descriptor for an operation    *)
(* code, a vendor subcommand and a request of len bytes; 0 if it has none.  *)
CDB(code, sub, len) ==
  CASE code < 32 /\ len = 4 -> 6
    [] code \in 32 .. 95 /\ len = 8 -> 10
    [] code \in 128 .. 159 /\ len = 14 -> 16
    [] code \in 160 .. 191 /\ len = 10 -> 12
    [] code = 198 /\ sub \in {144, 146, 49, 148} /\ len <= 15 -> 16
    [] code = 198 /\ sub = 145 /\ len <= 9 -> 10
    [] OTHER -> 0

Command(name, code, sub, len, dir, size) ==
  [name |-> name, code |-> code, sub |-> sub, len |-> len, dir |-> dir, size |-> size]

Vendor(name, sub, len) == Command(name, 198, sub, len, "none", 0)

InquiryVPD == Command("inquiry", 18, 0, 4, "in", 252)
ReadCapacity == Command("capacity", 37, 0, 8, "in", 8)
ReadBlocks == Command("read", 40, 0, 8, "in", 4096)
IPodRepartition == Vendor("repartition", 148, 5)
IPodUpdateStart == Vendor("start", 144, 6)
IPodUpdateSendChunk == Command("chunk", 198, 145, 3, "out", 32768)
IPodUpdateEnd == Vendor("end", 146, 1)
IPodUpdateSendFull(k) ==
  IF k = 0 THEN IPodUpdateStart ELSE IF k <= Chunks THEN IPodUpdateSendChunk ELSE IPodUpdateEnd
IPodFinalize(k) ==
  IF k = 0 THEN Vendor("finalize", 49, 1)
  ELSE Command("scsi", IF k = 1 THEN 30 ELSE 27, 0, 4, "none", 0)
VerifyVolume(k) == IF k = 0 THEN ReadCapacity ELSE ReadBlocks

(* The command an operation has reached. *)
CommandAt(o, k) ==
  CASE o = "information" -> InquiryVPD
    [] o = "capacity" -> ReadCapacity
    [] o \in {"table", "read"} -> ReadBlocks
    [] o = "repartition" -> IPodRepartition
    [] o = "update" -> IPodUpdateSendFull(k)
    [] o = "verify" -> VerifyVolume(k)
    [] o \in {"finalize", "eject"} -> IPodFinalize(k)

Now == CommandAt(script[op], n)

(* The page an inquiry asks for: 0xc0, then 0xc2 and up.                    *)
VPDPage(k) == IF k = 0 THEN 192 ELSE (193 + k) % 256

(* The last command of an operation; information ends with a short page.    *)
LastOf(o, k) ==
  CASE o = "information" -> k > 0 /\ ~got.full
    [] o = "update" -> k = Chunks + 1
    [] o \in {"eject", "verify"} -> k = 2
    [] OTHER -> TRUE

-----------------------------------------------------------------------------
(* Messages and the device.                                                 *)

Self == [run |-> run, tag |-> tag]
Ready == [kind |-> "ready"]
Halted == [kind |-> "halted"]
Gone == [kind |-> "gone"]

Message(kind, c, size) ==
  [kind |-> kind, of |-> c.of, size |-> size, page |-> c.page, full |-> FALSE,
   residue |-> 0, status |-> 0]

CSW(c, residue, status) ==
  [Message("csw", c, 13) EXCEPT !.residue = residue, !.status = status]

(* A short page comes with a residue.                                       *)
Answer(c) ==
  LET full == c.name = "inquiry" /\ c.page > 193 /\ c.page <= 193 + FullPages
      size == IF c.name = "inquiry" /\ ~full THEN 100 ELSE c.size
  IN <<[Message(c.name, c, size) EXCEPT !.full = full], CSW(c, c.size - size, 0)>>

Stall(c) == Message("stall", c, 0)

Effect(c) ==
  image' = CASE c.name = "start" -> <<>>
             [] c.name = "chunk" -> Append(image, c.page)
             [] OTHER -> image

Init ==
  /\ pc = "idle" /\ script = <<>> /\ op = 1 /\ n = 0 /\ run = 0 /\ tag = 0
  /\ got = Message("none", [of |-> Self, page |-> 0], 0) /\ bad = FALSE
  /\ result = "none" /\ out = <<>> /\ in = <<>> /\ dev = Ready /\ image = <<>>
  /\ foreign = 0 /\ cut = 0 /\ faults = 0

Fault == faults < MaxFaults /\ faults' = faults + 1

Connected == dev \notin {Gone, Halted}

(* A command is performed, or refused; one with data to come is kept until  *)
(* they are there.  What is no command halts the device.                    *)
TakeCommand ==
  /\ dev = Ready /\ out # <<>> /\ in = <<>> /\ out' = Tail(out) /\ UNCHANGED program
  /\ LET c == Head(out) IN
     \/ /\ c.kind # "cbw" /\ dev' = Halted /\ UNCHANGED <<in, image, faults>>
     \/ /\ c.kind = "cbw" /\ c.dir = "out" /\ dev' = c /\ UNCHANGED <<in, image, faults>>
     \/ /\ c.kind = "cbw" /\ c.dir # "out" /\ Effect(c) /\ UNCHANGED <<dev, faults>>
        /\ in' = IF c.dir = "in" THEN Answer(c) ELSE <<CSW(c, 0, 0)>>
     \/ /\ c.kind = "cbw" /\ c.dir # "out" /\ Fault /\ UNCHANGED <<dev, image>>
        /\ in' = IF c.dir = "in" THEN <<Stall(c), CSW(c, c.size, 1)>> ELSE <<CSW(c, 0, 1)>>

(* Anything that comes where data are expected is taken for them; a message *)
(* of another size, or an error of the device's, makes the command fail.    *)
TakeData ==
  /\ dev.kind = "cbw" /\ out # <<>>
  /\ out' = Tail(out) /\ dev' = Ready /\ UNCHANGED program
  /\ \/ /\ Head(out).kind = "payload" /\ Effect([dev EXCEPT !.page = Head(out).page])
        /\ in' = Append(in, CSW(dev, 0, 0)) /\ UNCHANGED faults
     \/ /\ Head(out).kind # "payload" /\ UNCHANGED <<image, faults>>
        /\ in' = Append(in, CSW(dev, dev.size, 1))
     \/ /\ Head(out).kind = "payload" /\ Fault /\ UNCHANGED image
        /\ in' = Append(in, CSW(dev, 0, 1))

(* The cable, while a program runs; and a fresh device between two runs.    *)
Unplug ==
  /\ pc # "idle" /\ dev # Gone /\ Fault /\ dev' = Gone
  /\ out' = <<>> /\ in' = <<>> /\ UNCHANGED <<program, image>>

Reset ==
  /\ pc = "idle" /\ dev' = Ready /\ out' = <<>> /\ in' = <<>>
  /\ UNCHANGED <<program, image, faults>>

-----------------------------------------------------------------------------
(* The host.                                                                *)

Clean == out = <<>> /\ in = <<>> /\ dev = Ready

Exit(r) == pc' = "idle" /\ result' = r /\ UNCHANGED position

Start ==
  /\ pc = "idle" /\ dev # Gone /\ run < MaxRuns /\ script' \in Scripts
  /\ pc' = "cbw" /\ op' = 1 /\ n' = 0 /\ run' = run + 1 /\ result' = "running"
  /\ tag' = 0 /\ bad' = FALSE /\ foreign' = 0 /\ cut' = (IF Clean THEN 0 ELSE cut + 1)
  /\ UNCHANGED <<got, device, faults>>

(* Past the last operation, the run is over.                                *)
NextOperation(failed) ==
  /\ bad' = (bad \/ failed)
  /\ \/ /\ op < Len(script) /\ op' = op + 1 /\ n' = 0 /\ pc' = "cbw" /\ UNCHANGED result
     \/ /\ op = Len(script) /\ pc' = "idle" /\ result' = (IF bad' THEN "error" ELSE "ok")
        /\ UNCHANGED <<op, n>>
  /\ UNCHANGED <<script, run, got, cut>>

(* A failed inquiry is logged, a table that cannot be read is repartitioned *)
(* like an unsafe one, a failed verification is deferred and one that       *)
(* cannot begin left out; everything else ends the run.                     *)
Tolerated == {"information", "table", "verify"}
Fails ==
  \/ script[op] \notin Tolerated /\ Exit("error")
  \/ script[op] \in Tolerated /\ NextOperation(script[op] = "verify" /\ n > 0)

(* A table that is safe is left alone, and the update begins.               *)
LeavesTable ==
  /\ script[op] = "table"
  /\ \E j \in op + 1 .. Len(script) :
       /\ script[j] = "update" /\ \A i \in op + 1 .. j - 1 : script[i] # "update"
       /\ op' = j
  /\ n' = 0 /\ pc' = "cbw" /\ UNCHANGED <<script, run, got, bad, result, cut>>

(* buildCBW asks for the descriptor first.                                  *)
Descriptor == CDB(Now.code, Now.sub, Now.len)

(* The same chunk again and again.                                          *)
PacketUnsliced ==
  IF pc = "cbw"
  THEN [kind |-> "cbw", of |-> [run |-> run, tag |-> tag + 1], name |-> Now.name,
        dir |-> Now.dir, size |-> Now.size, page |-> VPDPage(n)]
  ELSE [kind |-> "payload", of |-> Self, page |-> 1]

(* What is written next.                                                    *)
Packet ==
  IF pc = "cbw"
  THEN [kind |-> "cbw", of |-> [run |-> run, tag |-> tag + 1], name |-> Now.name,
        dir |-> Now.dir, size |-> Now.size, page |-> VPDPage(n)]
  ELSE [kind |-> "payload", of |-> Self, page |-> n]

(* The tag counts whether the write succeeds or not.                        *)
SendCommand ==
  /\ pc = "cbw" /\ Connected /\ UNCHANGED <<in, dev, image, faults, foreign>>
  /\ \/ Descriptor \notin 1 .. 16 /\ UNCHANGED <<out, tag>> /\ Fails
     \/ /\ Descriptor \in 1 .. 16 /\ Len(out) < OutDepth
        /\ tag' = tag + 1 /\ out' = Append(out, Packet)
        /\ pc' = IF Now.dir = "none" THEN "status" ELSE "data"
        /\ UNCHANGED <<position, result>>

(* More than the buffer holds is an error of the transfer.                  *)
DataIn ==
  /\ pc = "data" /\ Now.dir = "in" /\ Connected /\ in # <<>>
  /\ in' = Tail(in) /\ UNCHANGED <<out, dev, image, faults, tag, foreign>>
  /\ \/ (Head(in).kind = "stall" \/ Head(in).size > Now.size) /\ Fails
     \/ /\ Head(in).kind # "stall" /\ Head(in).size <= Now.size
        /\ got' = Head(in) /\ pc' = "status"
        /\ UNCHANGED <<script, op, n, run, bad, cut, result>>

DataOut ==
  /\ pc = "data" /\ Now.dir = "out" /\ Connected /\ Len(out) < OutDepth
  /\ out' = Append(out, Packet) /\ pc' = "status"
  /\ UNCHANGED <<position, tag, result, foreign, in, dev, image, faults>>

(* What each operation asks of the data of a command that succeeded, whose  *)
(* length the residue may have cut.                                         *)
Length == IF Head(in).residue = 0 THEN got.size ELSE Now.size - Head(in).residue
Acceptable ==
  CASE Now.name = "inquiry" -> got.kind = "inquiry" /\ got.page = VPDPage(n)
    [] Now.name = "capacity" -> Length >= 8
    [] Now.name = "read" -> Length = 4096
    [] OTHER -> TRUE

(* The tag not compared.                                                    *)
AcceptedUntagged == Head(in).kind = "csw"

(* A status block with the command's tag.                                   *)
Accepted == Head(in).kind = "csw" /\ Head(in).of.tag = tag

Advance ==
  /\ \/ LastOf(script[op], n) /\ NextOperation(FALSE)
     \/ LeavesTable
     \/ /\ ~LastOf(script[op], n) /\ n' = n + 1 /\ pc' = "cbw"
        /\ UNCHANGED <<script, op, run, got, bad, result, cut>>

(* A residue larger than the buffer makes the slice panic.                  *)
Status ==
  /\ pc = "status" /\ Connected /\ in # <<>>
  /\ in' = Tail(in) /\ UNCHANGED <<out, dev, image, faults, tag>>
  /\ foreign' = foreign + (IF Accepted /\ Head(in).of # Self THEN 1 ELSE 0)
  /\ \/ ~Accepted /\ Fails
     \/ Accepted /\ Head(in).residue > Now.size /\ Exit("panic")
     \/ /\ Accepted /\ Head(in).residue <= Now.size
        /\ \/ (Head(in).status # 0 \/ ~Acceptable) /\ Fails
           \/ Head(in).status = 0 /\ Acceptable /\ Advance

(* A transfer to a device that is gone or halted, or one that fails with    *)
(* its message delivered or not.  No transfer has a timeout.                *)
TransferFails ==
  /\ pc # "idle" /\ UNCHANGED <<dev, image, foreign>>
  /\ tag' = IF pc = "cbw" THEN tag + 1 ELSE tag
  /\ \/ ~Connected /\ UNCHANGED <<out, in, faults>>
     \/ Connected /\ Fault /\ UNCHANGED <<out, in>>
     \/ /\ Connected /\ Fault
        /\ IF pc = "status" \/ (pc = "data" /\ Now.dir = "in")
           THEN in # <<>> /\ in' = Tail(in) /\ UNCHANGED out
           ELSE Len(out) < OutDepth /\ out' = Append(out, Packet) /\ UNCHANGED in
  /\ Fails

Killed == pc # "idle" /\ UNCHANGED <<device, faults, tag, foreign>> /\ Exit("killed")

Host == SendCommand \/ DataIn \/ DataOut \/ Status \/ TransferFails
Device == TakeCommand \/ TakeData

Next == Start \/ Host \/ Device \/ Unplug \/ Reset \/ Killed

Spec == Init /\ [][Next]_vars

(* A transfer the device can take part in ends, and the device works.       *)
FairSpec == Spec /\ WF_vars(Host) /\ WF_vars(Device)

-----------------------------------------------------------------------------
(* Properties.                                                              *)

(* A run on clean pipes believes only the answers to its own commands and   *)
(* never panics, whatever fails in it - though a failure that it tolerates, *)
(* of an inquiry, of the table or of the verification, leaves messages in   *)
(* its own pipes, and nothing but the tag tells them from the answers to    *)
(* what it sends next.  A residue larger than the buffer is one of another  *)
(* command, so a panic would take an answer wrongly believed.               *)
CleanRunBelievesItsOwn == cut = 0 => foreign = 0 /\ result # "panic"

(* A run that says it is done has believed only its own answers, whatever   *)
(* others it found in the pipes: one that takes the answer to another       *)
(* command for its own stays behind by an answer, and at the latest its     *)
(* last command gets a status that it does not accept.                      *)
DoneBelievesItsOwn == result = "ok" => foreign = 0

(* A run that says it is done, believing only its own answers, has left the *)
(* whole firmware on the device, each chunk once and in order.              *)
OkMeansStored ==
  result = "ok" /\ foreign = 0 => image = [i \in 1 .. Chunks |-> i]

(* A run that begins with clean pipes, when faults have stopped, succeeds   *)
(* unless it is killed: nothing an earlier run has done to the device but   *)
(* leave transfers in the pipes can make it fail.                           *)
CleanRunSucceeds ==
  (pc = "cbw" /\ tag = 0 /\ op = 1 /\ Clean /\ faults = MaxFaults) ~> result \in {"ok", "killed"}
=============================================================================
