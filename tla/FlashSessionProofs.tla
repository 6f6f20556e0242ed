------------------------- MODULE FlashSessionProofs -------------------------
(***************************************************************************)
(* Theorems about FlashSession, for every set of tables, every geometry    *)
(* and every bound.                                                        *)
(***************************************************************************)
EXTENDS FlashSession, TLAPS

(***************************************************************************)
(* The invariant holds of a device in any state and a program not running. *)
(***************************************************************************)
LEMMA InitInv == Init => IInv
<1> SUFFICES ASSUME Init PROVE IInv
  OBVIOUS
<1>1. TypeOK
  <2>1. vol \in [1 .. Chunks -> {"junk", "old", "new"}] /\ chunk \in 1 .. Chunks
    BY SessionAssumption DEF Init
  <2>2. tries \in 0 .. MaxTries /\ faults \in 0 .. MaxFaults
    BY SessionAssumption DEF Init
  <2>3. QED
    BY <2>1, <2>2 DEF Init, TypeOK, DeviceTypeOK, HostTypeOK, Locations
<1>2. TriesInv /\ CheckedInv /\ VerifiedInv
  BY DEF Init, TriesInv, CheckedInv, VerifiedInv, Writing
<1>3. QED
  BY <1>1, <1>2 DEF IInv

(***************************************************************************)
(* No step puts the device in a state outside its type: a repartition      *)
(* leaves a table of the device, a chunk leaves a chunk.                   *)
(***************************************************************************)
LEMMA DeviceTypeStep ==
  ASSUME DeviceTypeOK, [Next]_vars
  PROVE  DeviceTypeOK'
<1> USE SessionAssumption DEF DeviceTypeOK, device, host, usb, Boots
<1>1. CASE \E c \in {"full", "firmwareOnly"}, nr \in BOOLEAN : Start(c, nr)
  BY <1>1 DEF Start
<1>2. CASE Open \/ OpenFails \/ GetImages \/ GetImagesFails \/ CheckSize
  BY <1>2 DEF Open, OpenFails, GetImages, GetImagesFails, CheckSize, Wanted
<1>3. CASE Trigger \/ TriggerFails
  BY <1>3 DEF Trigger, TriggerFails
<1>4. CASE SendWTF \/ SendWTFFails
  BY <1>4 DEF SendWTF, SendWTFFails
<1>5. CASE Switched("waitWTF", "WTF", "sendRecovery") \/ 
             SwitchFails("waitWTF", "WTF")
  BY <1>5 DEF Switched, SwitchFails
<1>6. CASE Switched("waitDisk", "Disk", "size") \/ SwitchFails("waitDisk", "Disk")
  BY <1>6 DEF Switched, SwitchFails
<1>7. CASE SendRecovery
  BY <1>7 DEF SendRecovery
<1>8. CASE SendRecoveryFails
  BY <1>8 DEF SendRecoveryFails
<1>9. CASE Capacity \/ CapacityAgain
  BY <1>9 DEF Capacity, CapacityAgain
<1>10. CASE ReadTable
  BY <1>10 DEF ReadTable
<1>11. CASE Repartition
  BY <1>11 DEF Repartition
<1>12. CASE RepartitionFails
  BY <1>12 DEF RepartitionFails
<1>13. CASE ReadBack
  BY <1>13 DEF ReadBack
<1>14. CASE UpdateStart \/ UpdateEnd
  BY <1>14 DEF UpdateStart, UpdateEnd
<1>15. CASE SendChunk
  BY <1>15 DEF SendChunk
<1>16. CASE SendChunkFails
  BY <1>16 DEF SendChunkFails
<1>17. CASE Verify
  BY <1>17 DEF Verify
<1>18. CASE Finalize \/ FinalizeFails
  BY <1>18 DEF Finalize, FinalizeFails
<1>19. CASE Reboot \/ OwnerResets
  BY <1>19 DEF Reboot, OwnerResets
<1>20. CASE Killed \/ Hangs
  BY <1>20 DEF Killed, Hangs
<1>21. CASE OwnerPartitions \/ Sync
  BY <1>21 DEF OwnerPartitions, Sync
<1>22. CASE UNCHANGED vars
  BY <1>22 DEF vars
<1>23. QED
  BY <1>1, <1>2, <1>3, <1>4, <1>5, <1>6, <1>7, <1>8, <1>9, <1>10, <1>11, <1>12,
     <1>13, <1>14, <1>15, <1>16, <1>17, <1>18, <1>19, <1>20, <1>21, <1>22 DEF Next,
     Host, Owner

(* A Disk mode command leads to another, or ends the run.                  *)
OnDisk ==
  /\ pc' \in Bulk \cup {"idle"} /\ live' \in {live, FALSE} /\ stuck' \in {stuck, FALSE}
  /\ result' \in {result, "error", "ok"}
  /\ UNCHANGED <<cmd, noRepart, fwFits, tries, chunk, verifyErr, verified>>

LEMMA OnDiskType ==
  ASSUME HostTypeOK, TriesInv, OnDisk
  PROVE  HostTypeOK' /\ TriesInv'
<1>1. /\ pc' \in Locations /\ pc' # "sendRecovery"
      /\ pc' \notin {"open", "trigger", "get", "sendWTF", "waitWTF"}
  BY DEF OnDisk, Bulk, Locations
<1>2. stuck' \in BOOLEAN /\ live' \in BOOLEAN
      /\ result' \in {"none", "running", "error", "ok", "killed"}
  BY DEF HostTypeOK, OnDisk
<1>3. UNCHANGED <<cmd, noRepart, fwFits, tries, chunk, verifyErr, verified>>
  BY DEF OnDisk
<1>4. QED
  BY <1>1, <1>2, <1>3 DEF HostTypeOK, TriesInv

(***************************************************************************)
(* The program stays at a location of the command, and the attempts to     *)
(* send the recovery image stay within their bound: the loop leaves        *)
(* sendRecovery exactly when they run out, and starts from zero.           *)
(***************************************************************************)
LEMMA HostTypeStep ==
  ASSUME HostTypeOK, TriesInv, [Next]_vars
  PROVE  HostTypeOK' /\ TriesInv'
<1> USE SessionAssumption DEF HostTypeOK, TriesInv, Locations, host, Goto, Exit, Attach, OnDisk, Bulk
<1>1. CASE \E c \in {"full", "firmwareOnly"}, nr \in BOOLEAN : Start(c, nr)
  <2>1. PICK c \in {"full", "firmwareOnly"}, nr \in BOOLEAN : Start(c, nr)
    BY <1>1
  <2>2. cmd' \in {"full", "firmwareOnly"} /\ noRepart' \in BOOLEAN /\ fwFits' \in BOOLEAN
    BY <2>1 DEF Start
  <2>3. tries' = 0 /\ 0 \in 0 .. MaxTries /\ chunk' = 1 /\ 1 \in 1 .. Chunks
    BY <2>1 DEF Start
  <2>4. pc' = "open" /\ live' = FALSE /\ verifyErr' = FALSE /\ verified' = FALSE
        /\ result' = "running" /\ stuck' = stuck
    BY <2>1 DEF Start
  <2>5. HostTypeOK'
    BY <2>2, <2>3, <2>4
  <2>6. TriesInv'
    BY <2>3, <2>4
  <2>7. QED
    BY <2>5, <2>6
<1>2. CASE Open \/ OpenFails \/ GetImages \/ GetImagesFails \/ CheckSize
  <2>1. CASE Open
    BY <2>1 DEF Open, Wanted
  <2>2. CASE OpenFails \/ GetImagesFails
    BY <2>2 DEF OpenFails, GetImagesFails
  <2>3. CASE GetImages \/ CheckSize
    BY <2>3 DEF GetImages, CheckSize
  <2>4. QED
    BY <1>2, <2>1, <2>2, <2>3
<1>3. CASE Trigger \/ TriggerFails
  BY <1>3 DEF Trigger, TriggerFails
<1>4. CASE SendWTF \/ SendWTFFails
  BY <1>4 DEF SendWTF, SendWTFFails
<1>5. CASE Switched("waitWTF", "WTF", "sendRecovery") \/ 
             SwitchFails("waitWTF", "WTF")
  <2>1. CASE Switched("waitWTF", "WTF", "sendRecovery")
    BY <2>1, SessionAssumption DEF Switched
  <2>2. CASE SwitchFails("waitWTF", "WTF")
    BY <2>2 DEF SwitchFails
  <2>3. QED
    BY <1>5, <2>1, <2>2
<1>6. CASE Switched("waitDisk", "Disk", "size") \/ SwitchFails("waitDisk", "Disk")
  BY <1>6 DEF Switched, SwitchFails
<1>7. CASE SendRecovery
  BY <1>7 DEF SendRecovery
<1>8. CASE SendRecoveryFails
  <2>1. /\ pc = "sendRecovery" /\ tries' = tries + 1
        /\ pc' = IF tries' = MaxTries THEN "waitDisk" ELSE "sendRecovery"
        /\ UNCHANGED <<cmd, noRepart, live, fwFits, chunk, verifyErr, result, verified, stuck>>
    BY <1>8 DEF SendRecoveryFails
  <2>2. tries \in Nat /\ tries < MaxTries /\ tries' \in 0 .. MaxTries
    BY <2>1
  <2>3. tries' = MaxTries \/ tries' < MaxTries
    BY <2>2
  <2>4. HostTypeOK'
    <3>1. pc' \in {"waitDisk", "sendRecovery"}
      BY <2>1
    <3>2. QED
      BY <2>1, <2>2, <3>1
  <2>5. TriesInv'
    BY <2>1, <2>3
  <2>6. QED
    BY <2>4, <2>5
<1>9. CASE Capacity \/ CapacityAgain
  <2>1. OnDisk
    BY <1>9 DEF Capacity, CapacityAgain
  <2>2. QED
    BY <2>1, OnDiskType
<1>10. CASE ReadTable
  <2>1. OnDisk
    BY <1>10 DEF ReadTable
  <2>2. QED
    BY <2>1, OnDiskType
<1>11. CASE Repartition
  <2>1. OnDisk
    BY <1>11 DEF Repartition
  <2>2. QED
    BY <2>1, OnDiskType
<1>12. CASE RepartitionFails
  <2>1. OnDisk
    BY <1>12 DEF RepartitionFails
  <2>2. QED
    BY <2>1, OnDiskType
<1>13. CASE ReadBack
  <2>1. OnDisk
    BY <1>13 DEF ReadBack
  <2>2. QED
    BY <2>1, OnDiskType
<1>14. CASE UpdateStart \/ UpdateEnd
  <2>1. OnDisk
    BY <1>14 DEF UpdateStart, UpdateEnd
  <2>2. QED
    BY <2>1, OnDiskType
<1>15. CASE SendChunk
  BY <1>15 DEF SendChunk
<1>16. CASE SendChunkFails
  BY <1>16 DEF SendChunkFails
<1>17. CASE Verify
  BY <1>17 DEF Verify
<1>18. CASE Finalize \/ FinalizeFails
  <2>1. OnDisk
    BY <1>18 DEF Finalize, FinalizeFails
  <2>2. QED
    BY <2>1, OnDiskType
<1>19. CASE Reboot \/ OwnerResets
  <2>1. live' = FALSE
        /\ UNCHANGED <<pc, cmd, noRepart, fwFits, tries, chunk, verifyErr, result, verified>>
        /\ stuck' = FALSE
    BY <1>19 DEF Reboot, OwnerResets
  <2>2. HostTypeOK'
    BY <2>1
  <2>3. TriesInv'
    BY <2>1
  <2>4. QED
    BY <2>2, <2>3
<1>20. CASE Killed \/ Hangs
  <2>1. CASE Killed
    BY <2>1 DEF Killed
  <2>2. CASE Hangs
    <3>1. /\ stuck' = TRUE
          /\ UNCHANGED <<pc, cmd, noRepart, live, fwFits, tries, chunk, verifyErr, result, verified>>
      BY <2>2 DEF Hangs
    <3>2. QED
      BY <3>1
  <2>3. QED
    BY <1>20, <2>1, <2>2
<1>21. CASE OwnerPartitions \/ Sync
  BY <1>21 DEF OwnerPartitions, Sync
<1>22. CASE UNCHANGED vars
  BY <1>22 DEF vars, vars
<1>23. QED
  BY <1>1, <1>2, <1>3, <1>4, <1>5, <1>6, <1>7, <1>8, <1>9, <1>10, <1>11, <1>12,
     <1>13, <1>14, <1>15, <1>16, <1>17, <1>18, <1>19, <1>20, <1>21, <1>22 DEF Next,
     Host, Owner

(***************************************************************************)
(* A step is charged one fault or none.                                    *)
(***************************************************************************)
LEMMA FaultsStep ==
  ASSUME [Next]_vars
  PROVE  Fault \/ faults' = faults
<1> USE DEF Works, Fails, Accident, Disturbed, Misled, usb
<1>1. CASE \E c \in {"full", "firmwareOnly"}, nr \in BOOLEAN : Start(c, nr)
  BY <1>1 DEF Start
<1>2. CASE Open \/ OpenFails \/ GetImages \/ GetImagesFails \/ CheckSize
  BY <1>2 DEF Open, OpenFails, GetImages, GetImagesFails, CheckSize, Wanted
<1>3. CASE Trigger \/ TriggerFails
  BY <1>3 DEF Trigger, TriggerFails
<1>4. CASE SendWTF \/ SendWTFFails
  BY <1>4 DEF SendWTF, SendWTFFails
<1>5. CASE Switched("waitWTF", "WTF", "sendRecovery") \/ 
             SwitchFails("waitWTF", "WTF")
  BY <1>5 DEF Switched, SwitchFails
<1>6. CASE Switched("waitDisk", "Disk", "size") \/ SwitchFails("waitDisk", "Disk")
  BY <1>6 DEF Switched, SwitchFails
<1>7. CASE SendRecovery
  BY <1>7 DEF SendRecovery
<1>8. CASE SendRecoveryFails
  BY <1>8 DEF SendRecoveryFails
<1>9. CASE Capacity \/ CapacityAgain
  BY <1>9 DEF Capacity, CapacityAgain
<1>10. CASE ReadTable
  BY <1>10 DEF ReadTable
<1>11. CASE Repartition
  BY <1>11 DEF Repartition
<1>12. CASE RepartitionFails
  BY <1>12 DEF RepartitionFails
<1>13. CASE ReadBack
  BY <1>13 DEF ReadBack
<1>14. CASE UpdateStart \/ UpdateEnd
  BY <1>14 DEF UpdateStart, UpdateEnd
<1>15. CASE SendChunk
  BY <1>15 DEF SendChunk
<1>16. CASE SendChunkFails
  BY <1>16 DEF SendChunkFails
<1>17. CASE Verify
  BY <1>17 DEF Verify
<1>18. CASE Finalize \/ FinalizeFails
  BY <1>18 DEF Finalize, FinalizeFails
<1>19. CASE Reboot \/ OwnerResets
  BY <1>19 DEF Reboot, OwnerResets, Fault
<1>20. CASE Killed \/ Hangs
  BY <1>20 DEF Killed, Hangs
<1>21. CASE OwnerPartitions \/ Sync
  BY <1>21 DEF OwnerPartitions, Sync
<1>22. CASE UNCHANGED vars
  BY <1>22 DEF vars
<1>23. QED
  BY <1>1, <1>2, <1>3, <1>4, <1>5, <1>6, <1>7, <1>8, <1>9, <1>10, <1>11, <1>12,
     <1>13, <1>14, <1>15, <1>16, <1>17, <1>18, <1>19, <1>20, <1>21, <1>22 DEF Next,
     Host, Owner

(***************************************************************************)
(* The pipes are clean or used.                                            *)
(***************************************************************************)
LEMMA UsedStep ==
  ASSUME used \in BOOLEAN, [Next]_vars
  PROVE  used' \in BOOLEAN
<1> USE DEF Works, Fails, Accident, Disturbed, Misled, usb
<1>1. CASE \E c \in {"full", "firmwareOnly"}, nr \in BOOLEAN : Start(c, nr)
  BY <1>1 DEF Start
<1>2. CASE Open \/ OpenFails \/ GetImages \/ GetImagesFails \/ CheckSize
  BY <1>2 DEF Open, OpenFails, GetImages, GetImagesFails, CheckSize, Wanted
<1>3. CASE Trigger \/ TriggerFails
  BY <1>3 DEF Trigger, TriggerFails
<1>4. CASE SendWTF \/ SendWTFFails
  BY <1>4 DEF SendWTF, SendWTFFails
<1>5. CASE Switched("waitWTF", "WTF", "sendRecovery") \/ 
             SwitchFails("waitWTF", "WTF")
  BY <1>5 DEF Switched, SwitchFails
<1>6. CASE Switched("waitDisk", "Disk", "size") \/ SwitchFails("waitDisk", "Disk")
  BY <1>6 DEF Switched, SwitchFails
<1>7. CASE SendRecovery
  BY <1>7 DEF SendRecovery
<1>8. CASE SendRecoveryFails
  BY <1>8 DEF SendRecoveryFails
<1>9. CASE Capacity \/ CapacityAgain
  BY <1>9 DEF Capacity, CapacityAgain
<1>10. CASE ReadTable
  BY <1>10 DEF ReadTable
<1>11. CASE Repartition
  BY <1>11 DEF Repartition
<1>12. CASE RepartitionFails
  BY <1>12 DEF RepartitionFails
<1>13. CASE ReadBack
  BY <1>13 DEF ReadBack
<1>14. CASE UpdateStart \/ UpdateEnd
  BY <1>14 DEF UpdateStart, UpdateEnd
<1>15. CASE SendChunk
  BY <1>15 DEF SendChunk
<1>16. CASE SendChunkFails
  BY <1>16 DEF SendChunkFails
<1>17. CASE Verify
  BY <1>17 DEF Verify
<1>18. CASE Finalize \/ FinalizeFails
  BY <1>18 DEF Finalize, FinalizeFails
<1>19. CASE Reboot \/ OwnerResets
  BY <1>19 DEF Reboot, OwnerResets, Fault
<1>20. CASE Killed \/ Hangs
  BY <1>20 DEF Killed, Hangs
<1>21. CASE OwnerPartitions \/ Sync
  BY <1>21 DEF OwnerPartitions, Sync
<1>22. CASE UNCHANGED vars
  BY <1>22 DEF vars
<1>23. QED
  BY <1>1, <1>2, <1>3, <1>4, <1>5, <1>6, <1>7, <1>8, <1>9, <1>10, <1>11, <1>12,
     <1>13, <1>14, <1>15, <1>16, <1>17, <1>18, <1>19, <1>20, <1>21, <1>22 DEF Next,
     Host, Owner

(***************************************************************************)
(* The verdict on the table survives to the last write: the locations past *)
(* the check are reached only from a successful check, and while the       *)
(* program is there only its own repartition changes block 0.              *)
(***************************************************************************)
LEMMA CheckedStep ==
  ASSUME TypeOK, CheckedInv, [Next]_vars
  PROVE  CheckedInv'
<1> USE DEF CheckedInv, Writing, LayoutOK, GeometryOK, FwBlocks, device, host, usb, Works, Fails,
      Accident, Disturbed, Misled, Fault, Boots, Goto, Exit, Attach, Ready
<1>1. CASE \E c \in {"full", "firmwareOnly"}, nr \in BOOLEAN : Start(c, nr)
  BY <1>1 DEF Start
<1>2. CASE Open \/ OpenFails \/ GetImages \/ GetImagesFails \/ CheckSize
  BY <1>2 DEF Open, OpenFails, GetImages, GetImagesFails, CheckSize, Wanted
<1>3. CASE Trigger \/ TriggerFails
  BY <1>3 DEF Trigger, TriggerFails
<1>4. CASE SendWTF \/ SendWTFFails
  BY <1>4 DEF SendWTF, SendWTFFails
<1>5. CASE Switched("waitWTF", "WTF", "sendRecovery") \/ 
             SwitchFails("waitWTF", "WTF")
  BY <1>5 DEF Switched, SwitchFails
<1>6. CASE Switched("waitDisk", "Disk", "size") \/ SwitchFails("waitDisk", "Disk")
  BY <1>6 DEF Switched, SwitchFails
<1>7. CASE SendRecovery
  BY <1>7 DEF SendRecovery
<1>8. CASE SendRecoveryFails
  BY <1>8 DEF SendRecoveryFails
<1>9. CASE Capacity \/ CapacityAgain
  BY <1>9 DEF Capacity, CapacityAgain
<1>10. CASE ReadTable
  BY <1>10 DEF ReadTable
<1>11. CASE Repartition
  BY <1>11 DEF Repartition
<1>12. CASE RepartitionFails
  BY <1>12 DEF RepartitionFails
<1>13. CASE ReadBack
  BY <1>13 DEF ReadBack
<1>14. CASE UpdateStart \/ UpdateEnd
  BY <1>14 DEF UpdateStart, UpdateEnd
<1>15. CASE SendChunk
  BY <1>15 DEF SendChunk
<1>16. CASE SendChunkFails
  BY <1>16 DEF SendChunkFails
<1>17. CASE Verify
  BY <1>17 DEF Verify
<1>18. CASE Finalize \/ FinalizeFails
  BY <1>18 DEF Finalize, FinalizeFails
<1>19. CASE Reboot \/ OwnerResets
  BY <1>19 DEF Reboot, OwnerResets
<1>20. CASE Killed \/ Hangs
  BY <1>20 DEF Killed, Hangs
<1>21. CASE OwnerPartitions \/ Sync
  BY <1>21 DEF OwnerPartitions, Sync
<1>22. CASE UNCHANGED vars
  BY <1>22 DEF vars
<1>23. QED
  BY <1>1, <1>2, <1>3, <1>4, <1>5, <1>6, <1>7, <1>8, <1>9, <1>10, <1>11, <1>12,
     <1>13, <1>14, <1>15, <1>16, <1>17, <1>18, <1>19, <1>20, <1>21, <1>22 DEF Next,
     Host, Owner

(***************************************************************************)
(* No success is pending on a directory nobody found.                      *)
(***************************************************************************)
LEMMA VerifiedStep ==
  ASSUME TypeOK, VerifiedInv, [Next]_vars
  PROVE  VerifiedInv'
<1> USE DEF VerifiedInv, DirectoryValid, device, host, usb, Works, Fails, Accident, Disturbed,
      Misled, Fault, Boots, Goto,
      Exit, Attach, Ready
<1>1. CASE \E c \in {"full", "firmwareOnly"}, nr \in BOOLEAN : Start(c, nr)
  BY <1>1 DEF Start
<1>2. CASE Open \/ OpenFails \/ GetImages \/ GetImagesFails \/ CheckSize
  BY <1>2 DEF Open, OpenFails, GetImages, GetImagesFails, CheckSize, Wanted
<1>3. CASE Trigger \/ TriggerFails
  BY <1>3 DEF Trigger, TriggerFails
<1>4. CASE SendWTF \/ SendWTFFails
  BY <1>4 DEF SendWTF, SendWTFFails
<1>5. CASE Switched("waitWTF", "WTF", "sendRecovery") \/ 
             SwitchFails("waitWTF", "WTF")
  BY <1>5 DEF Switched, SwitchFails
<1>6. CASE Switched("waitDisk", "Disk", "size") \/ SwitchFails("waitDisk", "Disk")
  BY <1>6 DEF Switched, SwitchFails
<1>7. CASE SendRecovery
  BY <1>7 DEF SendRecovery
<1>8. CASE SendRecoveryFails
  BY <1>8 DEF SendRecoveryFails
<1>9. CASE Capacity \/ CapacityAgain
  BY <1>9 DEF Capacity, CapacityAgain
<1>10. CASE ReadTable
  BY <1>10 DEF ReadTable
<1>11. CASE Repartition
  BY <1>11 DEF Repartition
<1>12. CASE RepartitionFails
  BY <1>12 DEF RepartitionFails
<1>13. CASE ReadBack
  BY <1>13 DEF ReadBack
<1>14. CASE UpdateStart \/ UpdateEnd
  BY <1>14 DEF UpdateStart, UpdateEnd
<1>15. CASE SendChunk
  BY <1>15 DEF SendChunk
<1>16. CASE SendChunkFails
  BY <1>16 DEF SendChunkFails
<1>17. CASE Verify
  BY <1>17 DEF Verify
<1>18. CASE Finalize \/ FinalizeFails
  BY <1>18 DEF Finalize, FinalizeFails
<1>19. CASE Reboot \/ OwnerResets
  BY <1>19 DEF Reboot, OwnerResets
<1>20. CASE Killed \/ Hangs
  BY <1>20 DEF Killed, Hangs
<1>21. CASE OwnerPartitions \/ Sync
  BY <1>21 DEF OwnerPartitions, Sync
<1>22. CASE UNCHANGED vars
  BY <1>22 DEF vars
<1>23. QED
  BY <1>1, <1>2, <1>3, <1>4, <1>5, <1>6, <1>7, <1>8, <1>9, <1>10, <1>11, <1>12,
     <1>13, <1>14, <1>15, <1>16, <1>17, <1>18, <1>19, <1>20, <1>21, <1>22 DEF Next,
     Host, Owner

(***************************************************************************)
(* The invariant is inductive.                                             *)
(***************************************************************************)
LEMMA StepInv == IInv /\ [Next]_vars => IInv'
<1> SUFFICES ASSUME IInv, [Next]_vars PROVE IInv'
  OBVIOUS
<1>1. DeviceTypeOK'
  BY DeviceTypeStep DEF IInv, TypeOK
<1>2. HostTypeOK' /\ TriesInv'
  BY HostTypeStep DEF IInv, TypeOK
<1>3. (faults \in 0 .. MaxFaults)'
  <2>1. CASE Fault
    BY <2>1, SessionAssumption DEF Fault, IInv, TypeOK
  <2>2. CASE faults' = faults
    BY <2>2 DEF IInv, TypeOK
  <2>3. QED
    BY <2>1, <2>2, FaultsStep
<1>4. (used \in BOOLEAN)'
  BY UsedStep DEF IInv, TypeOK
<1>5. CheckedInv'
  BY CheckedStep DEF IInv
<1>6. VerifiedInv'
  BY VerifiedStep DEF IInv
<1>7. QED
  BY <1>1, <1>2, <1>3, <1>4, <1>5, <1>6 DEF IInv, TypeOK

(***************************************************************************)
(* IInv holds in every reachable state, for every set of tables, every     *)
(* geometry, every number of chunks and attempts, and every number of      *)
(* faults.                                                                 *)
(***************************************************************************)
THEOREM Invariance == Spec => []IInv
<1>1. Init => IInv
  BY InitInv
<1>2. IInv /\ [Next]_vars => IInv'
  BY StepInv
<1>3. QED
  BY <1>1, <1>2, PTL DEF Spec

(***************************************************************************)
(* Type correctness of the session.                                        *)
(***************************************************************************)
THEOREM TypeCorrect == Spec => []TypeOK
<1>1. IInv => TypeOK
  BY DEF IInv
<1>2. QED
  BY <1>1, Invariance, PTL

(***************************************************************************)
(* The firmware volume is written only by SendChunk and its failures,      *)
(* where CheckedInv holds the verdict: no reset, loss or repartition       *)
(* between the check and the write makes the program write onto an         *)
(* unchecked layout.                                                       *)
(***************************************************************************)
THEOREM WritesChecked == Spec => WritesOnlyOnCheckedLayout
<1>1. ASSUME IInv, [Next]_vars, pc # "idle", vol' # vol
      PROVE  LayoutOK(table)
  <2>1. SendChunk \/ SendChunkFails
    <3> USE <1>1 DEF device, host, usb
    <3>1. \A c \in {"full", "firmwareOnly"}, nr \in BOOLEAN : ~Start(c, nr)
      BY DEF Start
    <3>2. ~Open /\ ~OpenFails /\ ~Trigger /\ ~TriggerFails /\ ~GetImages /\ ~GetImagesFails
          /\ ~SendWTF /\ ~SendWTFFails /\ ~SendRecovery /\ ~SendRecoveryFails
      BY DEF Open, OpenFails, Trigger, TriggerFails, GetImages, GetImagesFails, SendWTF,
             SendWTFFails, SendRecovery, SendRecoveryFails
    <3>3. ~Switched("waitWTF", "WTF", "sendRecovery") /\ ~SwitchFails("waitWTF", "WTF")
          /\ ~Switched("waitDisk", "Disk", "size") /\ ~SwitchFails("waitDisk", "Disk")
      BY DEF Switched, SwitchFails
    <3>4. ~CheckSize /\ ~Capacity /\ ~ReadTable /\ ~Repartition /\ ~RepartitionFails
          /\ ~ReadBack /\ ~UpdateStart /\ ~UpdateEnd /\ ~CapacityAgain /\ ~Verify
          /\ ~Finalize /\ ~FinalizeFails
      BY DEF CheckSize, Capacity, ReadTable, Repartition, RepartitionFails, ReadBack,
             UpdateStart, UpdateEnd, CapacityAgain, Verify, Finalize, FinalizeFails
    <3>5. ~Reboot /\ ~OwnerResets /\ ~Killed /\ ~Hangs /\ ~OwnerPartitions /\ ~Sync /\ ~UNCHANGED vars
      BY DEF Reboot, OwnerResets, Killed, Hangs, OwnerPartitions, Sync, vars
    <3>6. QED
      BY <3>1, <3>2, <3>3, <3>4, <3>5 DEF Next, Host, Owner
  <2>2. pc = "chunk"
    BY <2>1 DEF SendChunk, SendChunkFails
  <2>3. QED
    BY <1>1, <2>2 DEF IInv, CheckedInv, Writing
<1>2. IInv /\ [Next]_vars => [pc # "idle" /\ vol' # vol => LayoutOK(table)]_vars
  BY <1>1
<1>3. QED
  BY <1>2, Invariance, PTL DEF Spec, WritesOnlyOnCheckedLayout

(***************************************************************************)
(* With --no-repartition the program erases data only behind a table that  *)
(* passes the check: the repartition of the full restore, which is forced, *)
(* is reached without the check's verdict only when the option is absent.  *)
(***************************************************************************)
THEOREM NoRepartitionRespected == Spec => NoRepartitionNeverRepairs
<1>1. ASSUME IInv, [Next]_vars, pc # "idle", noRepart, data' # data
      PROVE  LayoutOK(table)
  <2>1. Repartition \/ RepartitionFails
    <3> USE <1>1 DEF device, host, usb
    <3>1. \A c \in {"full", "firmwareOnly"}, nr \in BOOLEAN : ~Start(c, nr)
      BY DEF Start
    <3>2. ~Open /\ ~OpenFails /\ ~Trigger /\ ~TriggerFails /\ ~GetImages /\ ~GetImagesFails
          /\ ~SendWTF /\ ~SendWTFFails /\ ~SendRecovery /\ ~SendRecoveryFails
      BY DEF Open, OpenFails, Trigger, TriggerFails, GetImages, GetImagesFails, SendWTF,
             SendWTFFails, SendRecovery, SendRecoveryFails
    <3>3. ~Switched("waitWTF", "WTF", "sendRecovery") /\ ~SwitchFails("waitWTF", "WTF")
          /\ ~Switched("waitDisk", "Disk", "size") /\ ~SwitchFails("waitDisk", "Disk")
      BY DEF Switched, SwitchFails
    <3>4. ~CheckSize /\ ~Capacity /\ ~ReadTable /\ ~ReadBack /\ ~UpdateStart /\ ~SendChunk
          /\ ~SendChunkFails /\ ~UpdateEnd /\ ~CapacityAgain /\ ~Verify /\ ~Finalize
          /\ ~FinalizeFails
      BY DEF CheckSize, Capacity, ReadTable, ReadBack, UpdateStart, SendChunk,
             SendChunkFails, UpdateEnd, CapacityAgain, Verify, Finalize, FinalizeFails
    <3>5. ~Reboot /\ ~OwnerResets /\ ~Killed /\ ~Hangs /\ ~OwnerPartitions /\ ~Sync /\ ~UNCHANGED vars
      BY DEF Reboot, OwnerResets, Killed, Hangs, OwnerPartitions, Sync, vars
    <3>6. QED
      BY <3>1, <3>2, <3>3, <3>4, <3>5 DEF Next, Host, Owner
  <2>2. pc = "repartition"
    BY <2>1 DEF Repartition, RepartitionFails
  <2>3. QED
    BY <1>1, <2>2 DEF IInv, CheckedInv
<1>2. IInv /\ [Next]_vars
        => [pc # "idle" /\ noRepart /\ data' # data => LayoutOK(table)]_vars
  BY <1>1
<1>3. QED
  BY <1>2, Invariance, PTL DEF Spec, NoRepartitionNeverRepairs

(***************************************************************************)
(* Done. is reported by Finalize alone: the table the check accepted is    *)
(* still there, and a verification that ran found the directory.           *)
(***************************************************************************)
THEOREM DoneIsVerified == Spec => DoneMeansVerified
<1>1. ASSUME IInv, [Next]_vars, result # "ok", result' = "ok"
      PROVE  LayoutOK(table) /\ (verified => DirectoryValid)
  <2>1. Finalize
    <3> USE <1>1 DEF host, usb, Goto, Exit, Attach
    <3>1. \A c \in {"full", "firmwareOnly"}, nr \in BOOLEAN : ~Start(c, nr)
      BY DEF Start
    <3>2. ~Open /\ ~OpenFails /\ ~Trigger /\ ~TriggerFails /\ ~GetImages /\ ~GetImagesFails
          /\ ~SendWTF /\ ~SendWTFFails /\ ~SendRecovery /\ ~SendRecoveryFails
      BY DEF Open, OpenFails, Trigger, TriggerFails, GetImages, GetImagesFails, SendWTF,
             SendWTFFails, SendRecovery, SendRecoveryFails
    <3>3. ~Switched("waitWTF", "WTF", "sendRecovery") /\ ~SwitchFails("waitWTF", "WTF")
          /\ ~Switched("waitDisk", "Disk", "size") /\ ~SwitchFails("waitDisk", "Disk")
      BY DEF Switched, SwitchFails
    <3>4. ~CheckSize /\ ~Capacity /\ ~ReadTable /\ ~Repartition /\ ~RepartitionFails
      BY DEF CheckSize, Capacity, ReadTable, Repartition, RepartitionFails
    <3>5. ~ReadBack /\ ~UpdateStart /\ ~SendChunk /\ ~SendChunkFails /\ ~UpdateEnd
          /\ ~CapacityAgain /\ ~Verify /\ ~FinalizeFails
      BY DEF ReadBack, UpdateStart, SendChunk, SendChunkFails, UpdateEnd, CapacityAgain,
             Verify, FinalizeFails
    <3>6. ~Reboot /\ ~OwnerResets /\ ~Killed /\ ~Hangs /\ ~OwnerPartitions /\ ~Sync /\ ~UNCHANGED vars
      BY DEF Reboot, OwnerResets, Killed, Hangs, OwnerPartitions, Sync, vars
    <3>7. QED
      BY <3>1, <3>2, <3>3, <3>4, <3>5, <3>6 DEF Next, Host, Owner
  <2>2. pc = "finalize" /\ ~verifyErr
    BY <1>1, <2>1 DEF Finalize, Exit
  <2>3. QED
    BY <1>1, <2>2 DEF IInv, CheckedInv, VerifiedInv, Writing
<1>2. IInv /\ [Next]_vars
        => [result # "ok" /\ result' = "ok"
              => LayoutOK(table) /\ (verified => DirectoryValid)]_vars
  BY <1>1
<1>3. QED
  BY <1>2, Invariance, PTL DEF Spec, DoneMeansVerified

-----------------------------------------------------------------------------
(* --firmware-only goes from Disk mode to Disk mode: while no command has   *)
(* failed the pipes are clean and no call hangs, its handle is the one it   *)
(* opened, no reboot is under way, and what it is about to erase is the     *)
(* data behind a table that is not safe.                                    *)
KeepsInv ==
  /\ used \/ stuck => faults > 0
  /\ cmd = "firmwareOnly" =>
       /\ pc \notin {"trigger", "sendWTF", "waitWTF", "sendRecovery", "waitDisk"}
       /\ pc \in {"get", "size", "capacity", "readTable"}
            => (live /\ boot = "none") \/ faults > 0
       /\ pc = "repartition" => ~LayoutOK(table) \/ faults > 0

LEMMA KeepsStep ==
  ASSUME TypeOK, KeepsInv, [Next]_vars
  PROVE  KeepsInv'
<1> USE DEF KeepsInv, LayoutOK, GeometryOK, FwBlocks, device, host, usb, Works, Fails,
      Accident, Disturbed, Misled, Fault, Boots, Goto, Exit, Attach, Ready, TypeOK
<1>1. CASE \E c \in {"full", "firmwareOnly"}, nr \in BOOLEAN : Start(c, nr)
  BY <1>1 DEF Start
<1>2. CASE Open \/ OpenFails \/ GetImages \/ GetImagesFails \/ CheckSize
  BY <1>2 DEF Open, OpenFails, GetImages, GetImagesFails, CheckSize, Wanted
<1>3. CASE Trigger \/ TriggerFails
  BY <1>3 DEF Trigger, TriggerFails
<1>4. CASE SendWTF \/ SendWTFFails
  BY <1>4 DEF SendWTF, SendWTFFails
<1>5. CASE Switched("waitWTF", "WTF", "sendRecovery") \/ 
             SwitchFails("waitWTF", "WTF")
  BY <1>5 DEF Switched, SwitchFails
<1>6. CASE Switched("waitDisk", "Disk", "size") \/ SwitchFails("waitDisk", "Disk")
  BY <1>6 DEF Switched, SwitchFails
<1>7. CASE SendRecovery
  BY <1>7 DEF SendRecovery
<1>8. CASE SendRecoveryFails
  BY <1>8 DEF SendRecoveryFails
<1>9. CASE Capacity \/ CapacityAgain
  BY <1>9 DEF Capacity, CapacityAgain
<1>10. CASE ReadTable
  BY <1>10 DEF ReadTable
<1>11. CASE Repartition
  BY <1>11 DEF Repartition
<1>12. CASE RepartitionFails
  BY <1>12 DEF RepartitionFails
<1>13. CASE ReadBack
  BY <1>13 DEF ReadBack
<1>14. CASE UpdateStart \/ UpdateEnd
  BY <1>14 DEF UpdateStart, UpdateEnd
<1>15. CASE SendChunk
  BY <1>15 DEF SendChunk
<1>16. CASE SendChunkFails
  BY <1>16 DEF SendChunkFails
<1>17. CASE Verify
  BY <1>17 DEF Verify
<1>18. CASE Finalize \/ FinalizeFails
  BY <1>18 DEF Finalize, FinalizeFails
<1>19. CASE Reboot \/ OwnerResets
  BY <1>19 DEF Reboot, OwnerResets
<1>20. CASE Killed \/ Hangs
  BY <1>20 DEF Killed, Hangs
<1>21. CASE OwnerPartitions \/ Sync
  BY <1>21 DEF OwnerPartitions, Sync
<1>22. CASE UNCHANGED vars
  BY <1>22 DEF vars
<1>23. QED
  BY <1>1, <1>2, <1>3, <1>4, <1>5, <1>6, <1>7, <1>8, <1>9, <1>10, <1>11, <1>12,
     <1>13, <1>14, <1>15, <1>16, <1>17, <1>18, <1>19, <1>20, <1>21, <1>22 DEF Next,
     Host, Owner

(***************************************************************************)
(* A --firmware-only run that meets no failure does not erase the data     *)
(* behind a safe table: it reaches its repartition only from a read of the *)
(* table that the check rejects.                                           *)
(***************************************************************************)
THEOREM FirmwareOnlyKeeps == Spec => FirmwareOnlyKeepsData
<1>1. Init => KeepsInv
  BY DEF Init, KeepsInv
<1>2. IInv /\ KeepsInv /\ [Next]_vars => KeepsInv'
  BY KeepsStep DEF IInv
<1>3. ASSUME IInv, KeepsInv, [Next]_vars, pc # "idle", cmd = "firmwareOnly", data' # data
      PROVE  ~LayoutOK(table) \/ faults > 0
  <2>1. Repartition \/ RepartitionFails
    <3> USE <1>3 DEF device, host, usb
    <3>1. \A c \in {"full", "firmwareOnly"}, nr \in BOOLEAN : ~Start(c, nr)
      BY DEF Start
    <3>2. ~Open /\ ~OpenFails /\ ~Trigger /\ ~TriggerFails /\ ~GetImages /\ ~GetImagesFails
          /\ ~SendWTF /\ ~SendWTFFails /\ ~SendRecovery /\ ~SendRecoveryFails
      BY DEF Open, OpenFails, Trigger, TriggerFails, GetImages, GetImagesFails, SendWTF,
             SendWTFFails, SendRecovery, SendRecoveryFails
    <3>3. ~Switched("waitWTF", "WTF", "sendRecovery") /\ ~SwitchFails("waitWTF", "WTF")
          /\ ~Switched("waitDisk", "Disk", "size") /\ ~SwitchFails("waitDisk", "Disk")
      BY DEF Switched, SwitchFails
    <3>4. ~CheckSize /\ ~Capacity /\ ~ReadTable /\ ~ReadBack /\ ~UpdateStart /\ ~SendChunk
          /\ ~SendChunkFails /\ ~UpdateEnd /\ ~CapacityAgain /\ ~Verify /\ ~Finalize
          /\ ~FinalizeFails
      BY DEF CheckSize, Capacity, ReadTable, ReadBack, UpdateStart, SendChunk,
             SendChunkFails, UpdateEnd, CapacityAgain, Verify, Finalize, FinalizeFails
    <3>5. ~Reboot /\ ~OwnerResets /\ ~Killed /\ ~Hangs /\ ~OwnerPartitions /\ ~Sync /\ ~UNCHANGED vars
      BY DEF Reboot, OwnerResets, Killed, Hangs, OwnerPartitions, Sync, vars
    <3>6. QED
      BY <3>1, <3>2, <3>3, <3>4, <3>5 DEF Next, Host, Owner
  <2>2. pc = "repartition"
    BY <2>1 DEF Repartition, RepartitionFails
  <2>3. QED
    BY <1>3, <2>2 DEF KeepsInv
<1>4. IInv /\ KeepsInv /\ [Next]_vars
        => [pc # "idle" /\ cmd = "firmwareOnly" /\ data' # data
              => ~LayoutOK(table) \/ faults > 0]_vars
  BY <1>3
<1>5. QED
  BY <1>1, <1>2, <1>4, Invariance, PTL DEF Spec, FirmwareOnlyKeepsData

(***************************************************************************)
(* On a table that passes the check a sync of any other partition leaves   *)
(* the firmware alone, if entries are entries of an MBR, the region fits   *)
(* in a word and the chunks in the region.                                 *)
(***************************************************************************)
THEOREM SyncSparesVolume ==
  ASSUME \A t \in Tables : \E S \in SUBSET Int : t \in [S -> MBRPartition],
         \A b \in BlockSizes : b # 0 /\ FwBytes % b = 0 =>
           VolumeLBA + FwBytes \div b < WordSize /\ Chunks <= FwBytes \div b
  PROVE  Spec => SyncSparesCheckedVolume
<1>1. ASSUME IInv, [Next]_vars, pc = "idle", vol' # vol, LayoutOK(table)
      PROVE  \E i \in AtVolume(table) : table[i].type # 0
  <2>1. Sync
    <3> USE <1>1 DEF device, host, usb
    <3>1. \A c \in {"full", "firmwareOnly"}, nr \in BOOLEAN : ~Start(c, nr)
      BY DEF Start
    <3>2. ~Host
      BY DEF Host, Open, OpenFails, Trigger, TriggerFails, GetImages, GetImagesFails, SendWTF,
             SendWTFFails, SendRecovery, SendRecoveryFails, Switched, SwitchFails, CheckSize,
             Capacity, ReadTable, Repartition, RepartitionFails, ReadBack, UpdateStart,
             SendChunk, SendChunkFails, UpdateEnd, CapacityAgain, Verify, Finalize, FinalizeFails
    <3>3. ~Reboot /\ ~OwnerResets /\ ~Killed /\ ~Hangs /\ ~OwnerPartitions /\ ~UNCHANGED vars
      BY DEF Reboot, OwnerResets, Killed, Hangs, OwnerPartitions, vars
    <3>4. QED
      BY <3>1, <3>2, <3>3 DEF Next, Owner
  <2>2. PICK i \in Used(table), hit \in SUBSET (1 .. Chunks) :
          /\ table[i].type # 0
          /\ \A c \in hit : ChunkLBA(c) \in Extent(table[i])
          /\ vol' = [c \in 1 .. Chunks |-> IF c \in hit THEN "junk" ELSE vol[c]]
    BY <2>1 DEF Sync
  <2>3. PICK c \in hit : TRUE
    <3>1. vol = [c \in 1 .. Chunks |-> vol[c]]
      BY <1>1 DEF IInv, TypeOK, DeviceTypeOK
    <3>2. hit # {}
      BY <1>1, <2>2, <3>1
    <3>3. QED
      BY <3>2
  <2>4. /\ blockSize # 0 /\ FwBytes % blockSize = 0 /\ blockSize \in Nat
        /\ VolumeLBA + FwBlocks < WordSize /\ Chunks <= FwBlocks /\ CheckN3GLayout(table, FwBlocks)
    BY <1>1, SessionAssumption DEF LayoutOK, GeometryOK, FwBlocks, IInv, TypeOK, DeviceTypeOK
  <2>5. FwBlocks \in Nat
    BY <2>4, SessionAssumption DEF FwBlocks
  <2>6. (VolumeLBA + FwBlocks) % WordSize = VolumeLBA + FwBlocks
    BY <2>4, <2>5, WordAssumption
  <2>7. table[i].start \in Nat /\ table[i].size \in Nat
    <3>1. table \in Tables
      BY <1>1 DEF LayoutOK, IInv, TypeOK, DeviceTypeOK
    <3>2. PICK S \in SUBSET Int : table \in [S -> MBRPartition]
      BY <3>1
    <3>3. QED
      BY <3>2, WordAssumption DEF Used, MBRPartition, Word
  <2>8. c \in 1 .. Chunks /\ VolumeLBA + c - 1 \in Extent(table[i])
    BY <2>2, <2>3 DEF ChunkLBA
  <2>9. table[i].start < VolumeLBA + FwBlocks
    BY <2>4, <2>5, <2>7, <2>8, SessionAssumption, WordAssumption DEF Extent
  <2>10. i \in AtVolume(table)
    BY <2>4, <2>5, <2>6, <2>7, <2>9, WordAssumption DEF CheckN3GLayout
  <2>11. QED
    BY <2>2, <2>10
<1>2. IInv /\ [Next]_vars
        => [pc = "idle" /\ vol' # vol
              => ~LayoutOK(table) \/ \E i \in AtVolume(table) : table[i].type # 0]_vars
  BY <1>1
<1>3. QED
  BY <1>2, Invariance, PTL DEF Spec, SyncSparesCheckedVolume
=============================================================================
