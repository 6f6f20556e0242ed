---------------------------- MODULE PayloadCache ----------------------------
(***************************************************************************)
(* The files wInd3x keeps between runs: the update catalogue, the images   *)
(* downloaded by it, their decrypted forms and what is patched into them   *)
(* (pkg/cache/cache.go and phobos.go, Get).                                *)
(*                                                                         *)
(* A file is made from others, is trusted as soon as it exists, and is not *)
(* written atomically: a kill, a power cut or a full disk may leave a part *)
(* of it.  A file that is not what it should be is "broken" if whoever     *)
(* reads it next rejects it, and "garbled" if nobody notices.  Decryption  *)
(* is Decrypt.tla's; here it is the state it leaves the recovery file in.  *)
(***************************************************************************)
EXTENDS Integers, Sequences

CONSTANTS
  Whole,        \* payloads decrypted in one go, with a recovery file
  Firmware,     \* the nano 3G's firmware, decrypted in parts
  Parts,        \* the parts, in the order they are decrypted in
  MaxFaults     \* bound: failures in one behaviour

Payloads == Whole \cup {Firmware}
PartSet == {Parts[i] : i \in DOMAIN Parts}

ASSUME CacheAssumption ==
  /\ Parts \in Seq(PartSet) /\ MaxFaults \in Nat
  /\ Firmware \notin Whole /\ Payloads \cap PartSet = {}

Jingle == <<"jingle">>
Upstream(p) == <<"upstream", p>>
Decrypted(p) == <<"decrypted", p>>
Defanged(p) == <<"defanged", p>>
Part(q) == <<"part", q>>
Recovery(p) == <<"recovery", p>>

Files ==
  {Jingle} \cup {Part(q) : q \in PartSet}
    \cup UNION {{Upstream(p), Decrypted(p), Defanged(p)} : p \in Payloads}

VARIABLES
  file,         \* what the store holds
  recovery,     \* Decrypt's recovery files, which are not in the store
  pc, want, part,
  data, result, \* what Get returns
  damaged,      \* history: files left incomplete or saved bad, recovery
                \*   files overrun
  work,         \* history: how often the device decrypted what
  got,          \* history: payloads that Get has returned
  faults

process == <<pc, want, part, data, result>>
vars == <<file, recovery, process, damaged, work, got, faults>>

Init ==
  /\ file = [k \in Files |-> "absent"] /\ recovery = [p \in Whole |-> "absent"]
  /\ pc = "idle" /\ want \in Payloads /\ part = 1 /\ data = "none" /\ result = "none"
  /\ damaged = {} /\ work = [u \in Whole \cup PartSet |-> 0] /\ got = {} /\ faults = 0

Fault == faults < MaxFaults /\ faults' = faults + 1
Exists(k) == file[k] # "absent"

(* What an incomplete file is taken for.  A catalogue that is cut off does  *)
(* not parse, while the parts are never looked at.                          *)
Incomplete(k) ==
  CASE k = Jingle -> {"broken"}
    [] k \in {Part(q) : q \in PartSet} -> {"garbled"}
    [] OTHER -> {"broken", "garbled"}

Goto(l) == pc' = l /\ UNCHANGED <<want, part, data, result>>
Exit(r, d) == pc' = "idle" /\ result' = r /\ data' = d /\ UNCHANGED <<want, part>>

(* Store.WriteFile: it works, or a part of the file remains.  A file that   *)
(* could not be read is written over.                                       *)
Written(k, v) == file' = [file EXCEPT ![k] = v] /\ UNCHANGED <<damaged, faults>>
Unreadable(k) == Fault /\ file' = [file EXCEPT ![k] = "good"] /\ UNCHANGED damaged
Torn(k) ==
  /\ Fault /\ damaged' = damaged \cup {k}
  /\ \E v \in Incomplete(k) : file' = [file EXCEPT ![k] = v]

-----------------------------------------------------------------------------
(* Get(p) of a defanged payload is always rebuilt from the decrypted one.   *)
Get(p) ==
  /\ pc = "idle" /\ pc' = "decrypted" /\ want' = p /\ part' = 1
  /\ data' = "none" /\ result' = "running"
  /\ UNCHANGED <<file, recovery, damaged, work, got, faults>>

(* The file not looked for.                                                 *)
GetDecryptedAnew ==
  /\ pc = "decrypted" /\ Goto("jingle")
  /\ UNCHANGED <<file, recovery, damaged, work, got, faults>>

GetDecrypted ==
  /\ pc = "decrypted" /\ Goto(IF Exists(Decrypted(want)) THEN "defang" ELSE "jingle")
  /\ UNCHANGED <<file, recovery, damaged, work, got, faults>>

(* The catalogue is needed even for an image that is there: it names it.    *)
(* A file that cannot be read is downloaded anew.  The body is saved before *)
(* it is parsed, so that one which is no catalogue stays in the store like  *)
(* one that was cut off; failing to save it is no error.                    *)
GetJingle ==
  /\ pc = "jingle" /\ UNCHANGED <<recovery, work, got>>
  /\ \/ file[Jingle] = "good" /\ Goto("upstream") /\ UNCHANGED <<file, damaged, faults>>
     \/ file[Jingle] = "broken" /\ Exit("error", "none") /\ UNCHANGED <<file, damaged, faults>>
     \/ ~Exists(Jingle) /\ Written(Jingle, "good") /\ Goto("upstream")
     \/ Exists(Jingle) /\ Unreadable(Jingle) /\ Goto("upstream")
     \/ Torn(Jingle) /\ (Goto("upstream") \/ Exit("error", "none"))
     \/ Fault /\ UNCHANGED <<file, damaged>> /\ (Goto("upstream") \/ Exit("error", "none"))

GetUpstream ==
  /\ pc = "upstream" /\ UNCHANGED <<recovery, work, got>>
  /\ \/ Exists(Upstream(want)) /\ Goto("decrypt") /\ UNCHANGED <<file, damaged, faults>>
     \/ ~Exists(Upstream(want)) /\ Written(Upstream(want), "good") /\ Goto("decrypt")
     \/ ~Exists(Upstream(want)) /\ Torn(Upstream(want)) /\ Exit("error", "none")
     \/ ~Exists(Upstream(want)) /\ Fault /\ Exit("error", "none") /\ UNCHANGED <<file, damaged>>

(* image.Read, or the slices of the firmware, reject it; a body that is too *)
(* short is not noticed.                                                    *)
BadUpstream ==
  /\ pc = "decrypt" /\ file[Upstream(want)] = "broken" /\ Exit("error", "none")
  /\ UNCHANGED <<file, recovery, damaged, work, got, faults>>

(* The image can be read. *)
Usable == pc = "decrypt" /\ file[Upstream(want)] # "broken"

(* Decrypting into memory, by way of the recovery file.                     *)
DecryptWhole ==
  /\ Usable /\ want \in Whole /\ recovery[want] \in {"absent", "partial"}
  /\ recovery' = [recovery EXCEPT ![want] = "complete"]
  /\ work' = [work EXCEPT ![want] = @ + 1]
  /\ data' = file[Upstream(want)] /\ pc' = "store" /\ UNCHANGED <<want, part, result>>
  /\ UNCHANGED <<file, damaged, got, faults>>

(* A complete recovery file makes Decrypt run past the end of the image:    *)
(* it panics, or returns a block too many.                                  *)
DecryptOverrun ==
  /\ Usable /\ want \in Whole /\ recovery[want] = "complete"
  /\ \/ Exit("error", "none")
     \/ data' = "garbled" /\ pc' = "store" /\ UNCHANGED <<want, part, result>>
  /\ damaged' = damaged \cup {Recovery(want)}
  /\ UNCHANGED <<file, recovery, work, got, faults>>

(* A file that was not finished refused as well as one that is torn.        *)
InvalidRecoveryStrict ==
  /\ Usable /\ want \in Whole /\ recovery[want] \in {"partial", "torn"} /\ Exit("error", "none")
  /\ UNCHANGED <<file, recovery, damaged, work, got, faults>>

InvalidRecovery ==
  /\ Usable /\ want \in Whole /\ recovery[want] = "torn" /\ Exit("error", "none")
  /\ UNCHANGED <<file, recovery, damaged, work, got, faults>>

DecryptWholeFails ==
  /\ Usable /\ want \in Whole /\ recovery[want] \in {"absent", "partial"} /\ Fault
  /\ \E r \in {"partial", "torn"} : recovery' = [recovery EXCEPT ![want] = r]
  /\ Exit("error", "none") /\ UNCHANGED <<file, damaged, work, got>>

(* Each part is cached by itself as soon as it is there.                    *)
Current == Parts[part]
NextPart == part' = part + 1 /\ UNCHANGED <<pc, want, data, result>>
OnPart == Usable /\ want = Firmware /\ part <= Len(Parts)

(* The part kept in memory only; a part of which the decryption failed kept *)
(* all the same.                                                            *)
DecryptPartFailsSilently ==
  /\ OnPart /\ ~Exists(Part(Current)) /\ Fault /\ NextPart
  /\ file' = [file EXCEPT ![Part(Current)] = "garbled"]
  /\ UNCHANGED <<recovery, damaged, work, got>>
DecryptPartUncached ==
  /\ OnPart /\ ~Exists(Part(Current)) /\ UNCHANGED <<file, recovery, got, damaged, faults>>
  /\ work' = [work EXCEPT ![Current] = @ + 1] /\ NextPart

CachedPart ==
  /\ OnPart /\ Exists(Part(Current)) /\ NextPart
  /\ UNCHANGED <<file, recovery, damaged, work, got, faults>>

DecryptPart ==
  /\ OnPart /\ ~Exists(Part(Current)) /\ UNCHANGED <<recovery, got>>
  /\ work' = [work EXCEPT ![Current] = @ + 1]
  /\ \/ Written(Part(Current), file[Upstream(want)]) /\ NextPart
     \/ Torn(Part(Current)) /\ Exit("error", "none")

DecryptPartFails ==
  /\ OnPart /\ ~Exists(Part(Current)) /\ Fault /\ Exit("error", "none")
  /\ UNCHANGED <<file, recovery, damaged, work, got>>

(* The parts go into the place of the encrypted ones.                       *)
Assemble ==
  /\ Usable /\ want = Firmware /\ part > Len(Parts)
  /\ data' = IF \A k \in {Upstream(want)} \cup {Part(q) : q \in PartSet} : file[k] = "good"
             THEN "good" ELSE "garbled"
  /\ pc' = "store" /\ UNCHANGED <<want, part, result>>
  /\ UNCHANGED <<file, recovery, damaged, work, got, faults>>

(* Garbled bytes may or may not be rejected when they are patched.          *)
StoreDecrypted ==
  /\ pc = "store" /\ UNCHANGED <<recovery, work, got>>
  /\ \/ \E v \in IF data = "good" THEN {"good"} ELSE {"garbled", "broken"} :
          Written(Decrypted(want), v) /\ Goto("defang")
     \/ Torn(Decrypted(want)) /\ Exit("error", "none")

(* The patched payload is saved for the record, and never read again.       *)
Defang ==
  /\ pc = "defang" /\ UNCHANGED <<recovery, work>>
  /\ LET v == file[Decrypted(want)] IN
     \/ v = "broken" /\ Exit("error", "none") /\ UNCHANGED <<file, damaged, got, faults>>
     \/ /\ v # "broken" /\ Exit("ok", v) /\ got' = got \cup {want}
        /\ Written(Defanged(want), v) \/ Torn(Defanged(want))

(* Killed between two steps, or in the middle of one that writes.           *)
WritesTo ==
  CASE pc = "jingle" -> {Jingle}
    [] pc = "upstream" /\ ~Exists(Upstream(want)) -> {Upstream(want)}
    [] pc = "decrypt" /\ OnPart /\ ~Exists(Part(Current)) -> {Part(Current)}
    [] pc = "store" -> {Decrypted(want)}
    [] pc = "defang" -> {Defanged(want)}
    [] OTHER -> {}

Killed ==
  /\ pc # "idle" /\ Exit("killed", "none") /\ UNCHANGED <<recovery, got>>
  /\ \/ Fault /\ UNCHANGED <<file, damaged, work>>
     \/ /\ OnPart /\ ~Exists(Part(Current)) /\ Fault /\ UNCHANGED <<file, damaged>>
        /\ work' = [work EXCEPT ![Current] = @ + 1]
     \/ \E k \in WritesTo :
          /\ Torn(k)
          /\ work' = IF pc = "decrypt" THEN [work EXCEPT ![Current] = @ + 1] ELSE work

Program ==
  \/ GetDecrypted \/ GetJingle \/ GetUpstream \/ BadUpstream
  \/ DecryptWhole \/ DecryptOverrun \/ InvalidRecovery \/ DecryptWholeFails
  \/ CachedPart \/ DecryptPart \/ DecryptPartFails \/ Assemble \/ StoreDecrypted \/ Defang

Next == (\E p \in Payloads : Get(p)) \/ Program \/ Killed

Spec == Init /\ [][Next]_vars

(* Downloads, the device's answers and file operations all come to an end.  *)
FairSpec == Spec /\ WF_vars(Program)

-----------------------------------------------------------------------------
(* Properties.                                                              *)

TypeOK ==
  /\ file \in [Files -> {"absent", "good", "garbled", "broken"}]
  /\ recovery \in [Whole -> {"absent", "partial", "torn", "complete"}]
  /\ pc \in {"idle", "decrypted", "jingle", "upstream", "decrypt", "store", "defang"}
  /\ want \in Payloads /\ part \in 1 .. Len(Parts) + 1
  /\ data \in {"none", "good", "garbled"}
  /\ result \in {"none", "running", "ok", "error", "killed"}
  /\ damaged \subseteq Files \cup {Recovery(p) : p \in Whole}
  /\ work \in [Whole \cup PartSet -> Nat] /\ got \subseteq Payloads /\ faults \in 0 .. MaxFaults

(* What the bytes of a decrypted payload go through.                        *)
Sources(p) ==
  {Upstream(p), Decrypted(p)} \cup IF p \in Whole THEN {Recovery(p)} ELSE {Part(q) : q \in PartSet}

(* A payload is wrong only if a file it is made from was left incomplete,   *)
(* or its recovery file was overrun; Get never returns a wrong one          *)
(* otherwise, and an accident with one payload does not reach another.      *)
WrongOnlyIfDamaged ==
  /\ \A p \in Payloads :
       /\ file[Decrypted(p)] \in {"garbled", "broken"} => Sources(p) \cap damaged # {}
       /\ file[Upstream(p)] \in {"garbled", "broken"} => Upstream(p) \in damaged
  /\ result = "ok" /\ data # "good" => Sources(want) \cap damaged # {}

(* The device does not decrypt again what it has decrypted: a whole payload *)
(* once, a part once and once more for every accident.                      *)
DecryptedOnce ==
  /\ \A p \in Whole : work[p] <= 1
  /\ \A q \in PartSet : work[q] <= faults + (IF Exists(Part(q)) THEN 1 ELSE 0)

(* --firmware-only "needs the decrypted firmware cache to already be        *)
(* populated": a payload that Get has returned is returned ever after,      *)
(* without a network or a device, whatever happened since.                  *)
PopulatedIsEnough ==
  [][pc # "idle" /\ want \in got => result' # "error"]_vars

(* While no file is wrong and no recovery file is in the way, Get returns   *)
(* the right payload, wherever earlier runs were interrupted.               *)
InterruptedIsResumed ==
  (/\ pc = "decrypted" /\ faults = MaxFaults /\ damaged = {}
   /\ want \in Whole => recovery[want] \in {"absent", "partial"})
    ~> result = "ok" /\ data = "good"
=============================================================================
