------------------------------ MODULE Decrypt -------------------------------
(***************************************************************************)
(* Decrypting an image on the device, one 0x30-byte block at a time, with  *)
(* a recovery file that lets a later run go on where an earlier one        *)
(* stopped (pkg/exploit/decrypt/decrypt.go, Decrypt).                      *)
(*                                                                         *)
(* A file or buffer of plaintext is the sequence of the numbers of its     *)
(* blocks; the last block of the image is padded, and the block numbered   *)
(* one past it is what the device makes of padding alone.  A recovery file *)
(* may end in a torn block.  The device, the disk, the user and the power  *)
(* are the environment.                                                    *)
(***************************************************************************)
EXTENDS Integers, Sequences

CONSTANTS
  Block,        \* bytes in a block (0x30 in the code)
  InLen,        \* bytes in the encrypted image
  MaxTries,     \* tries := 10, so one attempt more than that
  MaxFaults     \* bound: kills, power cuts and failed writes in one behaviour

ASSUME DecryptAssumption ==
  /\ Block \in Nat \ {0} /\ InLen \in Nat /\ MaxTries \in Nat /\ MaxFaults \in Nat

VARIABLES
  recovery,     \* the recovery file: its whole blocks
  torn,         \* and the bytes after them
  w,            \* the plaintext this run has, and returns if it succeeds
  ix, pc, tries, result,
  recording,    \* recovery # nil
  work,         \* history: blocks the device decrypted in recorded runs
  lost,         \* history: recorded blocks a power cut took from the file
  faults

vars == <<recovery, torn, w, ix, pc, tries, result, recording, work, lost, faults>>
file == <<recovery, torn>>
history == <<work, lost>>

(* The size of a file or buffer, and which block the one at an index is.    *)
Bytes(s) == Len(s) * Block
Number(i) == i \div Block

Init ==
  /\ recovery = <<>> /\ torn = 0 /\ w = <<>> /\ ix = 0 /\ pc = "idle" /\ tries = 0
  /\ result = "none" /\ recording = FALSE /\ work = 0 /\ lost = 0 /\ faults = 0

Fault == faults < MaxFaults /\ faults' = faults + 1

Exit(r) == pc' = "idle" /\ result' = r /\ UNCHANGED <<w, ix, tries, recording>>

Start ==
  /\ pc = "idle" /\ pc' = "open" /\ result' = "running"
  /\ w' = <<>> /\ ix' = 0 /\ recording' = FALSE
  /\ UNCHANGED <<file, tries, history, faults>>

(* The recovery file is read if it is there, and opened to append to.       *)
OpenRecovery ==
  /\ pc = "open" /\ torn = 0
  /\ w' = recovery /\ ix' = Bytes(recovery) /\ recording' = TRUE /\ pc' = "slice"
  /\ UNCHANGED <<file, tries, result, history, faults>>

InvalidSize ==
  /\ pc = "open" /\ torn # 0 /\ Exit("invalid size") /\ UNCHANGED <<file, history, faults>>

OpenFails ==
  /\ pc = "open" /\ Exit("error") /\ UNCHANGED <<file, history, faults>>

(* No path was given, or it cannot be examined: nothing is kept.            *)
NoRecovery ==
  /\ pc = "open" /\ pc' = "slice"
  /\ UNCHANGED <<file, w, ix, tries, result, recording, history, faults>>

(* in[ix:ixe] of the next block; beyond the image the program panics.       *)
Slice ==
  /\ pc = "slice"
  /\ \/ ix <= InLen /\ pc' = "trigger" /\ tries' = MaxTries
        /\ UNCHANGED <<w, ix, result, recording>>
     \/ ix > InLen /\ Exit("panic")
  /\ UNCHANGED <<file, history, faults>>

Trigger ==
  /\ pc = "trigger" /\ pc' = "record"
  /\ work' = IF recording THEN work + 1 ELSE work
  /\ UNCHANGED <<file, w, ix, tries, result, recording, lost, faults>>

(* The retries not counted.                                                 *)
TriggerFailsForever ==
  /\ pc = "trigger"
  /\ \/ tries < 1 /\ Exit("error")
     \/ tries >= 1 /\ pc' = "slice" /\ UNCHANGED <<result, w, ix, tries, recording>>
  /\ UNCHANGED <<file, history, faults>>

(* The device may be gone for good: its failures are not bounded.           *)
TriggerFails ==
  /\ pc = "trigger"
  /\ \/ tries < 1 /\ Exit("error")
     \/ tries >= 1 /\ tries' = tries - 1 /\ UNCHANGED <<pc, result, w, ix, recording>>
  /\ UNCHANGED <<file, history, faults>>

(* The block put in front of the others; the block not recorded at all.     *)
RecordAtStart ==
  /\ pc = "record" /\ pc' = "append"
  /\ recovery' = IF recording THEN <<Number(ix)>> \o recovery ELSE recovery
  /\ UNCHANGED <<torn, w, ix, tries, result, recording, history, faults>>
RecordNothing ==
  /\ pc = "record" /\ pc' = "append"
  /\ UNCHANGED <<file, w, ix, tries, result, recording, history, faults>>

Record ==
  /\ pc = "record" /\ pc' = "append"
  /\ recovery' = IF recording THEN Append(recovery, Number(ix)) ELSE recovery
  /\ UNCHANGED <<torn, w, ix, tries, result, recording, history, faults>>

(* A failed write may have put a part of the block into the file.           *)
RecordFails ==
  /\ pc = "record" /\ recording /\ Fault
  /\ torn' \in 0 .. Block - 1 /\ Exit("error")
  /\ UNCHANGED <<recovery, history>>

(* A loop that ends one block early.                                        *)
AppendShort ==
  /\ pc = "append"
  /\ w' = Append(w, Number(ix)) /\ ix' = ix + Block
  /\ \/ ix' + Block >= InLen /\ pc' = "idle" /\ result' = "ok"
     \/ ix' + Block < InLen /\ pc' = "slice" /\ UNCHANGED result
  /\ UNCHANGED <<file, tries, recording, history, faults>>

AppendBlock ==
  /\ pc = "append"
  /\ w' = Append(w, Number(ix)) /\ ix' = ix + Block
  /\ \/ ix' >= InLen /\ pc' = "idle" /\ result' = "ok"
     \/ ix' < InLen /\ pc' = "slice" /\ UNCHANGED result
  /\ UNCHANGED <<file, tries, recording, history, faults>>

Killed ==
  /\ pc # "idle" /\ Fault /\ Exit("killed") /\ UNCHANGED <<file, history>>

(* Nothing is synced: a power cut may take any number of bytes from the end *)
(* of the file, and the program with it.                                    *)
PowerCut ==
  /\ Fault /\ Exit("killed")
  /\ \E n \in 0 .. Len(recovery) :
       /\ recovery' = SubSeq(recovery, 1, n)
       /\ torn' \in IF n < Len(recovery) THEN 0 .. Block - 1 ELSE 0 .. torn
       /\ lost' = lost + (Len(recovery) - n)
  /\ UNCHANGED work

Host ==
  \/ OpenRecovery \/ InvalidSize \/ OpenFails \/ NoRecovery
  \/ Slice \/ Trigger \/ TriggerFails \/ Record \/ RecordFails \/ AppendBlock

Next == Start \/ Host \/ Killed \/ PowerCut

Spec == Init /\ [][Next]_vars

(* Each exchange with the device returns, with an answer or a timeout.      *)
FairSpec == Spec /\ WF_vars(Host)

-----------------------------------------------------------------------------
(* Properties.                                                              *)

TypeOK ==
  /\ recovery \in Seq(Nat) /\ torn \in 0 .. Block - 1 /\ w \in Seq(Nat) /\ ix \in Nat
  /\ pc \in {"idle", "open", "slice", "trigger", "record", "append"}
  /\ tries \in 0 .. MaxTries /\ recording \in BOOLEAN
  /\ result \in {"none", "running", "ok", "error", "invalid size", "panic", "killed"}
  /\ work \in Nat /\ lost \in Nat /\ faults \in 0 .. MaxFaults

(* The first n blocks of the plaintext, in order.                           *)
Plaintext(n) == [i \in 1 .. n |-> i - 1]

(* Whatever was killed, torn or resumed, the recovery file and the buffer   *)
(* hold the plaintext from its first block on, no block twice or left out,  *)
(* and no more than one block beyond the image.                             *)
OnlyPlaintext ==
  /\ recovery = Plaintext(Len(recovery)) /\ w = Plaintext(Len(w))
  /\ Bytes(recovery) < InLen + 2 * Block /\ Bytes(w) < InLen + 2 * Block

(* Where the run is: its index is the end of its buffer, and the recovery   *)
(* file is ahead of the buffer only between the two writes.                 *)
Position ==
  /\ pc # "idle" => result = "running"
  /\ pc \notin {"idle", "open"} => ix = Bytes(w)
  /\ pc \in {"open", "idle"} \/ (recording => torn = 0)
  /\ pc \in {"slice", "trigger", "record"} /\ recording => recovery = w
  /\ pc = "append" /\ recording => recovery = Append(w, Len(w))
  /\ pc = "open" => w = <<>> /\ ix = 0 /\ ~recording
  /\ pc \in {"trigger", "record", "append"} => ix <= InLen
  /\ pc = "slice" => ix < InLen + 2 * Block

(* The device never decrypts a recorded block again: its work is what the   *)
(* file holds, what a power cut took from it, and one block for each        *)
(* interruption.                                                            *)
WorkIsKept ==
  work <= Len(recovery) + lost + faults + (IF pc = "record" /\ recording THEN 1 ELSE 0)

(* A run that succeeds returns every block of the image.                    *)
OkMeansWhole == result = "ok" => Bytes(w) >= InLen

(* "a temporary file that we can use to continue decryption from after      *)
(* restarting the program": a restart neither crashes on the file an        *)
(* earlier run left nor adds to the plaintext.                              *)
ContinuesAfterRestart ==
  result # "panic" /\ (result = "ok" => Bytes(w) < InLen + Block)

(* Every run ends, even on a device that never answers again.               *)
Terminates == pc # "idle" ~> pc = "idle"
=============================================================================
