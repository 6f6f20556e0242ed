------------------------- MODULE PayloadCacheProofs -------------------------
(***************************************************************************)
(* For any set of payloads and any number of accidents: a wrong file has a *)
(* damaged source, and a payload once returned is returned ever after.     *)
(***************************************************************************)
EXTENDS PayloadCache, TLAPS

(* Different files have different names.                                    *)
LEMMA Names ==
  /\ \A p, r : /\ Upstream(p) # Jingle /\ Decrypted(p) # Jingle /\ Defanged(p) # Jingle /\ Part(p) # Jingle
               /\ Upstream(p) # Decrypted(r) /\ Upstream(p) # Defanged(r) /\ Upstream(p) # Part(r)
               /\ Decrypted(p) # Defanged(r) /\ Decrypted(p) # Part(r) /\ Defanged(p) # Part(r)
               /\ Upstream(p) = Upstream(r) => p = r
               /\ Decrypted(p) = Decrypted(r) => p = r
               /\ Part(p) = Part(r) => p = r
BY DEF Jingle, Upstream, Decrypted, Defanged, Part

Bad == {"garbled", "broken"}
Values == {"absent", "good", "garbled", "broken"}

(* The part of the type that the argument needs.                            *)
Shape ==
  /\ file \in [Files -> Values] /\ want \in Payloads
  /\ data \in {"none", "good", "garbled"}
  /\ pc = "store" => data \in {"good", "garbled"}
  /\ pc = "decrypt" => file[Upstream(want)] # "absent"
  /\ pc = "defang" => file[Decrypted(want)] # "absent"
  /\ pc # "idle" => result = "running"

(* The parts passed by are there.                                           *)
PartsMade ==
  part \in Nat \ {0} /\ \A i \in DOMAIN Parts : i < part => file[Part(Parts[i])] # "absent"

(* What is wrong, and where the damage that made it so may be.              *)
Provenance ==
  /\ \A p \in Payloads : file[Upstream(p)] \in Bad => Upstream(p) \in damaged
  /\ \A q \in PartSet :
       file[Part(q)] \in Bad => Part(q) \in damaged \/ Upstream(Firmware) \in damaged
  /\ \A p \in Payloads : file[Decrypted(p)] \in Bad => Sources(p) \cap damaged # {}
  /\ pc = "store" /\ data # "good" => Sources(want) \cap damaged # {}
  /\ result = "ok" /\ data # "good" => Sources(want) \cap damaged # {}

(* A payload that was returned is there and is not rejected; one that is    *)
(* still being made is not there.                                           *)
Kept ==
  /\ \A p \in Payloads \cap got : file[Decrypted(p)] \in {"good", "garbled"}
  /\ pc \in {"jingle", "upstream", "decrypt", "store"} => file[Decrypted(want)] = "absent"

IInv == Shape /\ PartsMade /\ Provenance /\ Kept

LEMMA FilesAre ==
  /\ Jingle \in Files /\ \A q \in PartSet : Part(q) \in Files
  /\ \A p \in Payloads : Upstream(p) \in Files /\ Decrypted(p) \in Files /\ Defanged(p) \in Files
BY DEF Files

(* What a write does to the file it is for, and to every other.             *)
LEMMA WrittenTo ==
  ASSUME Shape, NEW k \in Files, NEW v \in Values, Written(k, v)
  PROVE  /\ file' \in [Files -> Values] /\ file'[k] = v
         /\ \A j \in Files : j # k => file'[j] = file[j]
         /\ UNCHANGED damaged
BY DEF Written, Shape

LEMMA TornIs ==
  ASSUME Shape, NEW k \in Files, Torn(k)
  PROVE  /\ file' \in [Files -> Values] /\ file'[k] \in Bad
         /\ \A j \in Files : j # k => file'[j] = file[j]
         /\ damaged' = damaged \cup {k}
<1>1. \A v \in Incomplete(k) : v \in Bad
  BY DEF Incomplete, Bad
<1>2. QED
  BY <1>1 DEF Torn, Shape, Values, Bad

(* Damage is never forgotten, so the provenance of what stays as it is      *)
(* remains: a write must account for the file it makes and no other.        *)
LEMMA ProvenanceOf ==
  ASSUME IInv, NEW k \in Files, damaged \subseteq damaged',
         file' \in [Files -> Values], \A j \in Files : j # k => file'[j] = file[j],
         \A p \in Payloads : k = Upstream(p) /\ file'[k] \in Bad => k \in damaged',
         \A q \in PartSet : k = Part(q) /\ file'[k] \in Bad
                              => k \in damaged' \/ Upstream(Firmware) \in damaged',
         \A p \in Payloads : k = Decrypted(p) /\ file'[k] \in Bad => Sources(p) \cap damaged' # {}
  PROVE  /\ \A p \in Payloads : file'[Upstream(p)] \in Bad => Upstream(p) \in damaged'
         /\ \A q \in PartSet :
              file'[Part(q)] \in Bad => Part(q) \in damaged' \/ Upstream(Firmware) \in damaged'
         /\ \A p \in Payloads : file'[Decrypted(p)] \in Bad => Sources(p) \cap damaged' # {}
<1>1. \A p \in Payloads : Sources(p) \cap damaged # {} => Sources(p) \cap damaged' # {}
  OBVIOUS
<1>2. ASSUME NEW p \in Payloads, file'[Upstream(p)] \in Bad PROVE Upstream(p) \in damaged'
  BY <1>2, FilesAre DEF IInv, Provenance
<1>3. ASSUME NEW q \in PartSet, file'[Part(q)] \in Bad
      PROVE  Part(q) \in damaged' \/ Upstream(Firmware) \in damaged'
  BY <1>3, FilesAre DEF IInv, Provenance
<1>4. ASSUME NEW p \in Payloads, file'[Decrypted(p)] \in Bad PROVE Sources(p) \cap damaged' # {}
  BY <1>1, <1>4, FilesAre DEF IInv, Provenance
<1>5. QED
  BY <1>2, <1>3, <1>4

LEMMA InitInv == Init => IInv
<1> SUFFICES ASSUME Init PROVE IInv
  OBVIOUS
<1>1. \A k \in Files : file[k] = "absent"
  BY DEF Init
<1>2. PartsMade
  <2>1. DOMAIN Parts = 1 .. Len(Parts) /\ Len(Parts) \in Nat
    BY CacheAssumption
  <2>2. QED
    BY <2>1 DEF Init, PartsMade
<1>3. Shape
  BY <1>1, FilesAre DEF Init, Shape, Values
<1>4. Provenance
  BY <1>1, FilesAre DEF Init, Provenance, Bad
<1>5. Kept
  BY <1>1, FilesAre DEF Init, Kept
<1>6. QED
  BY <1>2, <1>3, <1>4, <1>5 DEF IInv

(* The part of Provenance that is about files alone.                        *)
FileProvenance ==
  /\ \A p \in Payloads : file[Upstream(p)] \in Bad => Upstream(p) \in damaged
  /\ \A q \in PartSet :
       file[Part(q)] \in Bad => Part(q) \in damaged \/ Upstream(Firmware) \in damaged
  /\ \A p \in Payloads : file[Decrypted(p)] \in Bad => Sources(p) \cap damaged # {}

(* A step that writes no file, and decrypts nothing.                        *)
LEMMA QuietStep ==
  ASSUME IInv, UNCHANGED <<file, damaged, got>>, want' \in Payloads,
         \/ pc = "idle" /\ pc' = "decrypted" /\ data' = "none" /\ result' = "running"
         \/ pc = "decrypted" /\ pc' = (IF Exists(Decrypted(want)) THEN "defang" ELSE "jingle")
               /\ UNCHANGED <<want, data, result>>
         \/ pc = "jingle" /\ pc' = "upstream" /\ UNCHANGED <<want, data, result>>
         \/ pc = "upstream" /\ Exists(Upstream(want)) /\ pc' = "decrypt" /\ UNCHANGED <<want, data, result>>
         \/ pc = "decrypt" /\ pc' = "decrypt" /\ UNCHANGED <<want, data, result>>
         \/ pc' = "idle" /\ data' = "none" /\ result' \in {"error", "killed"} /\ UNCHANGED want
  PROVE  Shape' /\ Provenance' /\ Kept'
<1>1. Shape'
  BY DEF IInv, Shape, Exists
<1>2. Provenance'
  BY DEF IInv, Provenance
<1>3. Kept'
  BY DEF IInv, Kept, Exists
<1>4. QED
  BY <1>1, <1>2, <1>3

(* Exit with nothing to return, on the way of a write that went wrong.      *)
LEMMA TornStep ==
  ASSUME IInv, NEW k \in Files, Torn(k), UNCHANGED <<want, got>>,
         \A p \in Payloads \cap got : k # Decrypted(p),
         \/ pc' = "idle" /\ data' = "none" /\ result' \in {"error", "killed"}
         \/ pc = "jingle" /\ pc' = "upstream" /\ k = Jingle /\ UNCHANGED <<data, result>>
  PROVE  Shape' /\ Provenance' /\ Kept'
<1>1. /\ file' \in [Files -> Values] /\ file'[k] \in Bad
      /\ \A j \in Files : j # k => file'[j] = file[j]
      /\ damaged' = damaged \cup {k}
  BY TornIs DEF IInv
<1>2. Shape'
  BY <1>1 DEF IInv, Shape
<1>3. \A p \in Payloads : Decrypted(p) \in Sources(p)
  BY DEF Sources
<1>4. FileProvenance'
  BY <1>1, <1>3, ProvenanceOf DEF FileProvenance
<1>5. Provenance'
  BY <1>1, <1>4 DEF IInv, Provenance, FileProvenance
<1>6. Kept'
  <2>1. \A p \in Payloads : Decrypted(p) \in Files
    BY FilesAre
  <2>2. k = Jingle => \A p \in Payloads : file'[Decrypted(p)] = file[Decrypted(p)]
    BY <1>1, <2>1, Names
  <2>3. QED
    BY <1>1, <2>1, <2>2 DEF IInv, Kept, Shape
<1>7. QED
  BY <1>2, <1>5, <1>6

(* What is still being made has never been returned.                        *)
LEMMA NotYetGot ==
  ASSUME IInv, pc \in {"jingle", "upstream", "decrypt", "store"}
  PROVE  want \notin got /\ want \in Payloads
BY DEF IInv, Kept, Shape

(* The catalogue and the images are fetched.                                *)
LEMMA FetchStep ==
  ASSUME IInv, GetJingle \/ GetUpstream
  PROVE  Shape' /\ Provenance' /\ Kept'
<1>1. CASE GetJingle
  <2>1. pc = "jingle" /\ UNCHANGED got /\ UNCHANGED want /\ want \in Payloads /\ Jingle \in Files
    BY <1>1, FilesAre DEF GetJingle, Goto, Exit, IInv, Shape
  <2>2. CASE UNCHANGED <<file, damaged>>
    BY <1>1, <2>1, <2>2, QuietStep DEF GetJingle, Goto, Exit
  <2>3. CASE Torn(Jingle) /\ Goto("upstream")
    BY <2>1, <2>3, TornStep, Names DEF Goto
  <2>4. CASE Torn(Jingle) /\ Exit("error", "none")
    BY <2>1, <2>4, TornStep, Names DEF Exit
  <2>5. CASE file' = [file EXCEPT ![Jingle] = "good"] /\ UNCHANGED damaged /\ Goto("upstream")
    <3>1. /\ file' \in [Files -> Values]
          /\ \A j \in Files : j # Jingle => file'[j] = file[j]
      BY <2>1, <2>5 DEF IInv, Shape, Values
    <3>2. \A p \in Payloads : /\ file'[Upstream(p)] = file[Upstream(p)]
                              /\ file'[Decrypted(p)] = file[Decrypted(p)]
      BY <3>1, FilesAre, Names
    <3>3. \A q \in PartSet : file'[Part(q)] = file[Part(q)]
      BY <3>1, FilesAre, Names
    <3>4. Shape' /\ Provenance'
      BY <2>1, <2>5, <3>1, <3>2, <3>3 DEF IInv, Shape, Provenance, Goto
    <3>5. Kept'
      BY <2>1, <2>5, <3>2 DEF IInv, Kept, Goto
    <3>6. QED
      BY <3>4, <3>5
  <2>6. QED
    BY <1>1, <2>2, <2>3, <2>4, <2>5 DEF GetJingle, Written, Unreadable, Goto
<1>2. CASE GetUpstream
  <2> DEFINE k == Upstream(want)
  <2>1. pc = "upstream" /\ UNCHANGED got /\ UNCHANGED want /\ want \in Payloads /\ k \in Files
    BY <1>2, FilesAre DEF GetUpstream, Goto, Exit, IInv, Shape
  <2>2. CASE UNCHANGED <<file, damaged>> /\ ((Exists(k) /\ Goto("decrypt")) \/ Exit("error", "none"))
    BY <2>1, <2>2, QuietStep DEF Goto, Exit
  <2>3. CASE Torn(k) /\ Exit("error", "none")
    BY <2>1, <2>3, TornStep, Names DEF Exit
  <2>4. CASE Written(k, "good") /\ Goto("decrypt")
    <3>1. /\ file' \in [Files -> Values] /\ UNCHANGED damaged /\ file'[k] = "good"
          /\ \A j \in Files : j # k => file'[j] = file[j]
      BY <2>1, <2>4, WrittenTo DEF IInv, Values
    <3>2. \A p \in Payloads : file'[Decrypted(p)] = file[Decrypted(p)]
      BY <3>1, FilesAre, Names
    <3>3. FileProvenance'
      BY <2>1, <3>1, ProvenanceOf, Names DEF FileProvenance, Bad
    <3>4. Shape' /\ Provenance'
      BY <2>1, <2>4, <3>1, <3>3 DEF IInv, Shape, Provenance, FileProvenance, Goto
    <3>5. Kept'
      BY <2>1, <2>4, <3>2 DEF IInv, Kept, Goto
    <3>6. QED
      BY <3>4, <3>5
  <2>5. QED
    BY <1>2, <2>2, <2>3, <2>4 DEF GetUpstream
<1>3. QED
  BY <1>1, <1>2

(* A step that writes one file, of which the value is accounted for.        *)
LEMMA WriteStep ==
  ASSUME IInv, NEW k \in Files, NEW v \in Values, Written(k, v),
         \A p \in Payloads : k = Upstream(p) /\ v \in Bad => k \in damaged,
         \A q \in PartSet : k = Part(q) /\ v \in Bad
                              => k \in damaged \/ Upstream(Firmware) \in damaged,
         \A p \in Payloads : k = Decrypted(p) /\ v \in Bad => Sources(p) \cap damaged # {}
  PROVE  /\ file' \in [Files -> Values] /\ file'[k] = v /\ UNCHANGED damaged
         /\ \A j \in Files : j # k => file'[j] = file[j]
         /\ FileProvenance'
<1>1. /\ file' \in [Files -> Values] /\ file'[k] = v /\ UNCHANGED damaged
      /\ \A j \in Files : j # k => file'[j] = file[j]
  BY WrittenTo DEF IInv
<1>2. QED
  BY <1>1, ProvenanceOf DEF FileProvenance

(* The image is rejected, or so is the recovery file, or the device fails.  *)
LEMMA FailStep ==
  ASSUME IInv, BadUpstream \/ InvalidRecovery \/ DecryptWholeFails \/ DecryptPartFails
  PROVE  Shape' /\ Provenance' /\ Kept'
<1>1. /\ UNCHANGED <<file, damaged, got>> /\ Exit("error", "none")
  BY DEF BadUpstream, InvalidRecovery, DecryptWholeFails, DecryptPartFails
<1>2. want' \in Payloads
  BY <1>1 DEF Exit, IInv, Shape
<1>3. QED
  BY <1>1, <1>2, QuietStep DEF Exit

(* A payload decrypted in one go is as good as the image it comes from.     *)
LEMMA WholeStep ==
  ASSUME IInv, DecryptWhole \/ DecryptOverrun
  PROVE  Shape' /\ Provenance' /\ Kept'
<1>1. CASE DecryptWhole
  <2>1. /\ pc = "decrypt" /\ pc' = "store" /\ data' = file[Upstream(want)]
        /\ file[Upstream(want)] # "broken" /\ UNCHANGED <<file, damaged, got, want, result>>
    BY <1>1 DEF DecryptWhole, Usable
  <2>2. want \in Payloads /\ Upstream(want) \in Files
    BY FilesAre DEF IInv, Shape
  <2>3. data' \in {"good", "garbled"}
    BY <2>1, <2>2 DEF IInv, Shape, Values
  <2>4. data' # "good" => Sources(want) \cap damaged # {}
    <3>1. Upstream(want) \in Sources(want)
      BY DEF Sources
    <3>2. QED
      BY <2>1, <2>2, <2>3, <3>1 DEF IInv, Provenance, Bad
  <2>5. Shape'
    BY <2>1, <2>3 DEF IInv, Shape
  <2>6. Provenance'
    BY <2>1, <2>4 DEF IInv, Provenance
  <2>7. Kept'
    BY <2>1 DEF IInv, Kept
  <2>8. QED
    BY <2>5, <2>6, <2>7
<1>2. CASE DecryptOverrun
  <2>1. /\ pc = "decrypt" /\ want \in Whole /\ UNCHANGED <<file, got, want>>
        /\ damaged' = damaged \cup {Recovery(want)}
        /\ \/ pc' = "idle" /\ data' = "none" /\ result' = "error"
           \/ pc' = "store" /\ data' = "garbled" /\ UNCHANGED result
    BY <1>2 DEF DecryptOverrun, Usable, Exit
  <2>2. Recovery(want) \in Sources(want) /\ Recovery(want) \in damaged'
    BY <2>1 DEF Sources
  <2>3. Sources(want)' = Sources(want)
    BY <2>1 DEF Sources
  <2>4. FileProvenance'
    BY <2>1 DEF IInv, Provenance, FileProvenance
  <2>5. Shape'
    BY <2>1 DEF IInv, Shape
  <2>6. Provenance'
    BY <2>1, <2>2, <2>3, <2>4 DEF Provenance, FileProvenance
  <2>7. Kept'
    BY <2>1 DEF IInv, Kept
  <2>8. QED
    BY <2>5, <2>6, <2>7
<1>3. QED
  BY <1>1, <1>2

(* The part a step is about.                                                *)
LEMMA CurrentPart ==
  ASSUME IInv, OnPart
  PROVE  part \in DOMAIN Parts /\ Current \in PartSet /\ Part(Current) \in Files
<1>1. DOMAIN Parts = 1 .. Len(Parts) /\ Len(Parts) \in Nat
  BY CacheAssumption
<1>2. part \in DOMAIN Parts
  BY <1>1 DEF OnPart, IInv, PartsMade
<1>3. QED
  BY <1>2, FilesAre DEF Current, PartSet

(* A part of the firmware is as good as the image it comes from.            *)
LEMMA PartStep ==
  ASSUME IInv, CachedPart \/ DecryptPart
  PROVE  Shape' /\ Provenance' /\ Kept'
<1> DEFINE k == Part(Current)
<1>1. /\ pc = "decrypt" /\ want = Firmware /\ file[Upstream(want)] # "broken"
      /\ k \in Files /\ Current \in PartSet /\ UNCHANGED <<got, want>> /\ want \in Payloads
  BY CurrentPart DEF CachedPart, DecryptPart, OnPart, Usable, NextPart, Exit, IInv, Shape
<1>2. CASE CachedPart
  BY <1>1, <1>2, QuietStep DEF CachedPart, NextPart
<1>3. CASE Torn(k) /\ Exit("error", "none")
  BY <1>1, <1>3, TornStep, Names DEF Exit
<1>4. CASE Written(k, file[Upstream(want)]) /\ NextPart
  <2>1. file[Upstream(want)] \in Values \ {"absent", "broken"}
    BY <1>1, FilesAre DEF IInv, Shape
  <2>2. file[Upstream(want)] \in Bad => Upstream(Firmware) \in damaged
    BY <1>1 DEF IInv, Provenance
  <2>3. /\ file' \in [Files -> Values] /\ UNCHANGED damaged
        /\ \A j \in Files : j # k => file'[j] = file[j]
        /\ FileProvenance'
    <3>1. \A p \in Payloads : k # Upstream(p) /\ k # Decrypted(p)
      BY Names
    <3>2. QED
      BY <1>1, <1>4, <2>1, <2>2, <3>1, WriteStep
  <2>4. \A p \in Payloads : /\ file'[Upstream(p)] = file[Upstream(p)]
                            /\ file'[Decrypted(p)] = file[Decrypted(p)]
    BY <2>3, FilesAre, Names
  <2>5. Shape'
    BY <1>1, <1>4, <2>1, <2>3, <2>4 DEF IInv, Shape, NextPart
  <2>6. Provenance'
    BY <1>1, <1>4, <2>3 DEF IInv, Provenance, FileProvenance, NextPart
  <2>7. Kept'
    BY <1>1, <1>4, <2>4 DEF IInv, Kept, NextPart
  <2>8. QED
    BY <2>5, <2>6, <2>7
<1>5. QED
  BY <1>2, <1>3, <1>4 DEF DecryptPart

(* The firmware put together is as good as the image and all its parts.     *)
LEMMA AssembleStep ==
  ASSUME IInv, Assemble
  PROVE  Shape' /\ Provenance' /\ Kept'
<1>1. /\ pc = "decrypt" /\ pc' = "store" /\ want = Firmware /\ part > Len(Parts)
      /\ UNCHANGED <<file, damaged, got, want, result>> /\ data' \in {"good", "garbled"}
      /\ data' # "good" =>
           \E k \in {Upstream(want)} \cup {Part(q) : q \in PartSet} : file[k] # "good"
  BY DEF Assemble, Usable
<1>2. \A q \in PartSet : file[Part(q)] # "absent"
  <2>1. DOMAIN Parts = 1 .. Len(Parts) /\ Len(Parts) \in Nat
    BY CacheAssumption
  <2>2. \A i \in DOMAIN Parts : file[Part(Parts[i])] # "absent"
    BY <1>1, <2>1 DEF IInv, PartsMade
  <2>3. QED
    BY <2>2 DEF PartSet
<1>3. Firmware \notin Whole /\ Firmware \in Payloads
  BY CacheAssumption DEF Payloads
<1>4. Sources(Firmware) =
        {Upstream(Firmware), Decrypted(Firmware)} \cup {Part(q) : q \in PartSet}
  BY <1>3 DEF Sources
<1>5. data' # "good" => Sources(want) \cap damaged # {}
  <2> SUFFICES ASSUME data' # "good" PROVE Sources(Firmware) \cap damaged # {}
    BY <1>1
  <2>1. PICK k \in {Upstream(Firmware)} \cup {Part(q) : q \in PartSet} : file[k] # "good"
    BY <1>1
  <2>2. k \in Files /\ file[k] \in Values
    BY <1>3, <2>1, FilesAre DEF IInv, Shape
  <2>3. file[k] \in Bad
    BY <1>1, <1>2, <2>1, <2>2 DEF IInv, Shape, Values, Bad
  <2>4. k \in damaged \/ Upstream(Firmware) \in damaged
    BY <1>3, <2>1, <2>3 DEF IInv, Provenance
  <2>5. QED
    BY <1>4, <2>1, <2>4
<1>6. Shape'
  BY <1>1 DEF IInv, Shape
<1>7. Provenance'
  BY <1>1, <1>5 DEF IInv, Provenance
<1>8. Kept'
  BY <1>1 DEF IInv, Kept
<1>9. QED
  BY <1>6, <1>7, <1>8

(* The decrypted payload is saved: it is wrong only if what is saved is.    *)
LEMMA StoreStep ==
  ASSUME IInv, StoreDecrypted
  PROVE  Shape' /\ Provenance' /\ Kept'
<1> DEFINE k == Decrypted(want)
<1>1. /\ pc = "store" /\ UNCHANGED <<got, want>> /\ want \in Payloads /\ k \in Files
      /\ want \notin got
  BY FilesAre, NotYetGot DEF StoreDecrypted, Goto, Exit, IInv, Shape
<1>2. \A p \in Payloads \cap got : k # Decrypted(p)
  BY <1>1, Names
<1>3. CASE Torn(k) /\ Exit("error", "none")
  BY <1>1, <1>2, <1>3, TornStep DEF Exit
<1>4. ASSUME NEW v \in IF data = "good" THEN {"good"} ELSE {"garbled", "broken"},
             Written(k, v), Goto("defang")
      PROVE  Shape' /\ Provenance' /\ Kept'
  <2>1. v \in Values \ {"absent"} /\ (v \in Bad => data # "good")
    BY <1>4 DEF Values, Bad
  <2>2. v \in Bad => Sources(want) \cap damaged # {}
    BY <1>1, <2>1 DEF IInv, Provenance
  <2>3. /\ file' \in [Files -> Values] /\ UNCHANGED damaged /\ file'[k] = v
        /\ \A j \in Files : j # k => file'[j] = file[j]
        /\ FileProvenance'
    <3>1. \A p \in Payloads : k # Upstream(p) /\ (k = Decrypted(p) => p = want)
      BY Names
    <3>2. \A q \in PartSet : k # Part(q)
      BY Names
    <3>3. QED
      BY <1>1, <1>4, <2>1, <2>2, <3>1, <3>2, WriteStep
  <2>4. Shape'
    BY <1>1, <1>4, <2>1, <2>3 DEF IInv, Shape, Goto
  <2>5. Provenance'
    BY <1>1, <1>4, <2>3 DEF IInv, Provenance, FileProvenance, Goto
  <2>6. Kept'
    <3>1. \A p \in Payloads \cap got : file'[Decrypted(p)] = file[Decrypted(p)]
      BY <1>2, <2>3, FilesAre
    <3>2. QED
      BY <1>1, <1>4, <3>1 DEF IInv, Kept, Goto
  <2>7. QED
    BY <2>4, <2>5, <2>6
<1>5. QED
  BY <1>3, <1>4 DEF StoreDecrypted

(* The payload is returned: from now on its file is there for good.         *)
LEMMA DefangStep ==
  ASSUME IInv, Defang
  PROVE  Shape' /\ Provenance' /\ Kept'
<1> DEFINE k == Defanged(want)
           v == file[Decrypted(want)]
<1>1. /\ pc = "defang" /\ want' = want /\ want \in Payloads /\ k \in Files
      /\ v \in Values \ {"absent"}
  BY FilesAre DEF Defang, Exit, IInv, Shape
<1>2. CASE v = "broken" /\ Exit("error", "none") /\ UNCHANGED <<file, damaged, got, faults>>
  BY <1>1, <1>2, QuietStep DEF Exit
<1>3. CASE /\ v # "broken" /\ Exit("ok", v) /\ got' = got \cup {want}
           /\ Written(k, v) \/ Torn(k)
  <2>1. \A p \in Payloads : k # Upstream(p) /\ k # Decrypted(p)
    BY Names
  <2>2. \A q \in PartSet : k # Part(q)
    BY Names
  <2>3. /\ file' \in [Files -> Values] /\ damaged \subseteq damaged'
        /\ \A j \in Files : j # k => file'[j] = file[j]
    <3>1. CASE Written(k, v)
      BY <1>1, <3>1, WrittenTo DEF IInv
    <3>2. CASE Torn(k)
      BY <1>1, <3>2, TornIs DEF IInv
    <3>3. QED
      BY <1>3, <3>1, <3>2
  <2>4. FileProvenance'
    BY <1>1, <2>1, <2>2, <2>3, ProvenanceOf DEF FileProvenance
  <2>5. \A p \in Payloads : file'[Decrypted(p)] = file[Decrypted(p)]
    BY <2>1, <2>3, FilesAre
  <2>6. v # "good" => Sources(want) \cap damaged' # {}
    BY <1>1, <1>3, <2>3 DEF IInv, Provenance, Values, Bad
  <2>7. pc' = "idle" /\ result' = "ok" /\ data' = v
    BY <1>3 DEF Exit
  <2>8. Shape'
    BY <1>1, <1>3, <2>3, <2>7 DEF IInv, Shape, Values
  <2>9. Provenance'
    <3>1. Sources(want)' = Sources(want)
      BY <1>1 DEF Sources
    <3>2. QED
      BY <2>4, <2>6, <2>7, <3>1 DEF Provenance, FileProvenance
  <2>10. Kept'
    BY <1>1, <1>3, <2>5, <2>7 DEF IInv, Kept, Values
  <2>11. QED
    BY <2>8, <2>9, <2>10
<1>4. QED
  BY <1>2, <1>3 DEF Defang

(* What a kill leaves behind is at worst one more damaged file, and never   *)
(* the file of a payload that was returned.                                 *)
LEMMA KilledStep ==
  ASSUME IInv, Killed
  PROVE  Shape' /\ Provenance' /\ Kept'
<1>1. /\ pc' = "idle" /\ result' = "killed" /\ data' = "none"
      /\ UNCHANGED <<want, got>> /\ want \in Payloads
  BY DEF Killed, Exit, IInv, Shape
<1>2. CASE UNCHANGED <<file, damaged>>
  BY <1>1, <1>2, QuietStep
<1>3. ASSUME NEW k \in WritesTo, Torn(k)
      PROVE  Shape' /\ Provenance' /\ Kept'
  <2>1. k \in Files /\ \A p \in Payloads \cap got : k # Decrypted(p)
    <3>1. CASE pc = "decrypt"
      <4>1. OnPart /\ k = Part(Current)
        BY <1>3, <3>1 DEF WritesTo
      <4>2. QED
        BY <4>1, CurrentPart, Names
    <3>2. CASE pc = "store"
      <4>1. k = Decrypted(want) /\ want \notin got
        BY <1>3, <3>2, NotYetGot DEF WritesTo
      <4>2. QED
        BY <1>1, <4>1, FilesAre, Names
    <3>3. CASE pc \notin {"decrypt", "store"}
      <4>1. k \in {Jingle, Upstream(want), Defanged(want)}
        BY <1>3, <3>3 DEF WritesTo
      <4>2. QED
        BY <1>1, <4>1, FilesAre, Names
    <3>4. QED
      BY <3>1, <3>2, <3>3
  <2>2. QED
    BY <1>1, <1>3, <2>1, TornStep
<1>4. QED
  BY <1>2, <1>3 DEF Killed

(* No file disappears.                                                      *)
LEMMA FilesStay ==
  ASSUME IInv, Next
  PROVE  \A k \in Files : file[k] # "absent" => file'[k] # "absent"
<1>1. ASSUME NEW k \in Files, NEW v \in Values \ {"absent"}, Written(k, v) \/ Torn(k)
      PROVE  \A j \in Files : file[j] # "absent" => file'[j] # "absent"
  <2>1. CASE Written(k, v)
    BY <1>1, <2>1, WrittenTo DEF IInv
  <2>2. CASE Torn(k)
    BY <1>1, <2>2, TornIs DEF IInv, Bad
  <2>3. QED
    BY <1>1, <2>1, <2>2
<1>2. want \in Payloads /\ "good" \in Values \ {"absent"}
  BY DEF IInv, Shape, Values
<1>3. CASE UNCHANGED file
  BY <1>3
<1>4. CASE GetJingle
  <2>1. CASE Unreadable(Jingle)
    BY <1>2, <2>1, FilesAre DEF Unreadable, IInv, Shape
  <2>2. QED
    BY <1>1, <1>2, <1>4, <2>1, FilesAre DEF GetJingle
<1>5. CASE GetUpstream
  BY <1>1, <1>2, <1>5, FilesAre DEF GetUpstream
<1>6. CASE DecryptPart
  <2>1. file[Upstream(want)] \in Values \ {"absent"}
    BY <1>2, <1>6, FilesAre DEF DecryptPart, OnPart, Usable, IInv, Shape
  <2>2. OnPart /\ Part(Current) \in Files
    BY <1>6, CurrentPart DEF DecryptPart
  <2>3. QED
    BY <1>1, <1>6, <2>1, <2>2 DEF DecryptPart
<1>7. CASE StoreDecrypted
  <2>1. {"good", "garbled", "broken"} \subseteq Values \ {"absent"}
    BY DEF Values
  <2>2. PICK v \in {"good", "garbled", "broken"} :
          Written(Decrypted(want), v) \/ Torn(Decrypted(want))
    BY <1>7 DEF StoreDecrypted
  <2>3. QED
    BY <1>1, <1>2, <2>1, <2>2, FilesAre
<1>8. CASE Defang
  <2>1. file[Decrypted(want)] \in Values \ {"absent"}
    BY <1>2, <1>8, FilesAre DEF Defang, IInv, Shape
  <2>2. UNCHANGED file \/ Written(Defanged(want), file[Decrypted(want)]) \/ Torn(Defanged(want))
    BY <1>8 DEF Defang
  <2>3. QED
    BY <1>1, <1>2, <2>1, <2>2, FilesAre
<1>9. CASE Killed
  <2>1. ASSUME NEW k \in WritesTo, Torn(k) PROVE k \in Files
    <3>1. CASE pc = "decrypt"
      <4>1. OnPart /\ k = Part(Current)
        BY <2>1, <3>1 DEF WritesTo
      <4>2. QED
        BY <4>1, CurrentPart
    <3>2. CASE pc # "decrypt"
      <4>1. k \in {Jingle, Upstream(want), Decrypted(want), Defanged(want)}
        BY <2>1, <3>2 DEF WritesTo
      <4>2. QED
        BY <1>2, <4>1, FilesAre
    <3>3. QED
      BY <3>1, <3>2
  <2>2. UNCHANGED file \/ \E k \in WritesTo : Torn(k)
    BY <1>9 DEF Killed
  <2>3. QED
    BY <1>1, <1>2, <2>1, <2>2
<1>10. QED
  BY <1>3, <1>4, <1>5, <1>6, <1>7, <1>8, <1>9
     DEF Next, Program, Get, GetDecrypted, BadUpstream, DecryptWhole, DecryptOverrun,
         InvalidRecovery, DecryptWholeFails, CachedPart, DecryptPartFails, Assemble

(* The loop over the parts leaves none out.                                 *)
LEMMA PartsStep ==
  ASSUME IInv, Next
  PROVE  PartsMade'
<1>1. DOMAIN Parts = 1 .. Len(Parts) /\ Len(Parts) \in Nat
  BY CacheAssumption
<1>2. \A i \in DOMAIN Parts : Part(Parts[i]) \in Files
  BY FilesAre DEF PartSet
<1>3. CASE \E p \in Payloads : Get(p)
  BY <1>1, <1>3 DEF Get, PartsMade
<1>4. CASE UNCHANGED part
  BY <1>2, <1>4, FilesStay DEF IInv, PartsMade
<1>5. CASE (CachedPart \/ DecryptPart) /\ part' = part + 1
  <2>1. OnPart /\ part \in DOMAIN Parts /\ Part(Current) \in Files /\ Current = Parts[part]
    BY <1>5, CurrentPart DEF CachedPart, DecryptPart, Current
  <2>2. file'[Part(Current)] # "absent"
    <3>1. CASE CachedPart
      BY <3>1 DEF CachedPart, Exists
    <3>2. CASE Torn(Part(Current))
      BY <2>1, <3>2, TornIs DEF IInv, Bad
    <3>3. CASE DecryptPart /\ Written(Part(Current), file[Upstream(want)])
      <4>1. file[Upstream(want)] \in Values \ {"absent"}
        BY <3>3, FilesAre DEF DecryptPart, OnPart, Usable, IInv, Shape
      <4>2. QED
        BY <2>1, <3>3, <4>1, WrittenTo DEF IInv
    <3>4. QED
      BY <1>5, <3>1, <3>2, <3>3 DEF DecryptPart
  <2>3. \A i \in DOMAIN Parts : i < part' => i < part \/ i = part
    BY <1>1, <1>5 DEF IInv, PartsMade
  <2>4. QED
    BY <1>2, <1>5, <2>1, <2>2, <2>3, FilesStay DEF IInv, PartsMade
<1>6. QED
  <2>1. GetDecrypted \/ GetJingle => UNCHANGED part
    BY DEF GetDecrypted, GetJingle, Goto, Exit
  <2>2. GetUpstream \/ BadUpstream \/ Killed => UNCHANGED part
    BY DEF GetUpstream, BadUpstream, Killed, Goto, Exit
  <2>3. DecryptWhole \/ DecryptOverrun \/ InvalidRecovery \/ DecryptWholeFails => UNCHANGED part
    BY DEF DecryptWhole, DecryptOverrun, InvalidRecovery, DecryptWholeFails, Exit
  <2>4. DecryptPartFails \/ Assemble \/ StoreDecrypted \/ Defang => UNCHANGED part
    BY DEF DecryptPartFails, Assemble, StoreDecrypted, Defang, Goto, Exit
  <2>5. CachedPart \/ DecryptPart => UNCHANGED part \/ part' = part + 1
    BY DEF CachedPart, DecryptPart, NextPart, Exit
  <2>6. QED
    BY <1>3, <1>4, <1>5, <2>1, <2>2, <2>3, <2>4, <2>5 DEF Next, Program

LEMMA NextInv == IInv /\ [Next]_vars => IInv'
<1>1. ASSUME IInv, Next PROVE Shape' /\ Provenance' /\ Kept'
  <2>1. ASSUME NEW p \in Payloads, Get(p) PROVE Shape' /\ Provenance' /\ Kept'
    BY <1>1, <2>1, QuietStep DEF Get
  <2>2. CASE GetDecrypted
    <3>1. want' \in Payloads
      BY <1>1, <2>2 DEF GetDecrypted, Goto, IInv, Shape
    <3>2. QED
      BY <1>1, <2>2, <3>1, QuietStep DEF GetDecrypted, Goto
  <2>3. QED
    BY <1>1, <2>1, <2>2, FetchStep, FailStep, WholeStep, PartStep, AssembleStep, StoreStep,
       DefangStep, KilledStep DEF Next, Program
<1>2. ASSUME IInv, UNCHANGED vars PROVE IInv'
  BY <1>2 DEF IInv, Shape, PartsMade, Provenance, Kept, vars, process
<1>3. QED
  BY <1>1, <1>2, PartsStep DEF IInv

(* A payload is wrong, in the store or as returned, only if a file it is    *)
(* made from was left incomplete or its recovery file was overrun.          *)
THEOREM WrongPayloadHasCause == Spec => []WrongOnlyIfDamaged
<1>1. IInv => WrongOnlyIfDamaged
  BY DEF IInv, Provenance, WrongOnlyIfDamaged, Bad
<1>2. QED
  BY <1>1, InitInv, NextInv, PTL DEF Spec

(* --firmware-only: a payload once returned is returned by every later      *)
(* Get, which needs neither the network nor the device.                     *)
THEOREM PopulatedCacheIsEnough == Spec => PopulatedIsEnough
<1>1. IInv /\ [Next]_vars => [pc # "idle" /\ want \in got => result' # "error"]_vars
  <2> SUFFICES ASSUME IInv, Next, pc # "idle", want \in got PROVE result' # "error"
    BY DEF vars, process
  <2>1. want \in Payloads /\ pc \notin {"jingle", "upstream", "decrypt", "store"}
    BY NotYetGot DEF IInv, Shape
  <2>2. file[Decrypted(want)] # "broken"
    BY <2>1 DEF IInv, Kept
  <2>3. CASE GetDecrypted
    BY <2>3 DEF GetDecrypted, Goto, IInv, Shape
  <2>4. CASE Defang
    BY <2>2, <2>4 DEF Defang, Exit
  <2>5. CASE Killed
    BY <2>5 DEF Killed, Exit
  <2>6. ~GetJingle /\ ~GetUpstream /\ ~StoreDecrypted /\ ~Usable /\ ~BadUpstream
    BY <2>1 DEF GetJingle, GetUpstream, StoreDecrypted, Usable, BadUpstream
  <2>7. QED
    BY <2>3, <2>4, <2>5, <2>6
       DEF Next, Program, Get, DecryptWhole, DecryptOverrun, InvalidRecovery,
           DecryptWholeFails, CachedPart, DecryptPart, DecryptPartFails, Assemble, OnPart
<1>2. QED
  BY <1>1, InitInv, NextInv, PTL DEF Spec, PopulatedIsEnough

-----------------------------------------------------------------------------
(* What the device did is kept: a recovery file that is not complete has    *)
(* cost no finished decryption, and a part that is not there has cost none  *)
(* but those that an accident undid.                                        *)
WorkInv ==
  /\ work \in [Whole \cup PartSet -> Nat] /\ faults \in Nat
  /\ recovery \in [Whole -> {"absent", "partial", "torn", "complete"}]
  /\ \A p \in Whole : work[p] <= 1 /\ (recovery[p] # "complete" => work[p] = 0)
  /\ \A q \in PartSet : work[q] <= faults + (IF Exists(Part(q)) THEN 1 ELSE 0)

LEMMA WorkInit == Init => WorkInv
BY CacheAssumption DEF Init, WorkInv

(* A step that decrypts nothing: no file disappears, faults are counted.    *)
LEMMA IdleStep ==
  ASSUME IInv, Next, WorkInv, work' = work, faults' \in Nat, faults <= faults',
         recovery' \in [Whole -> {"absent", "partial", "torn", "complete"}],
         \A p \in Whole : recovery'[p] # "complete" => recovery[p] # "complete"
  PROVE  WorkInv'
<1>1. \A q \in PartSet : Exists(Part(q)) => Exists(Part(q))'
  BY FilesStay, FilesAre DEF Exists
<1>2. ASSUME NEW q \in PartSet PROVE work'[q] <= faults' + (IF Exists(Part(q))' THEN 1 ELSE 0)
  <2>1. work[q] \in Nat /\ work[q] <= faults + (IF Exists(Part(q)) THEN 1 ELSE 0)
    BY DEF WorkInv
  <2>2. QED
    BY <1>1, <2>1 DEF WorkInv
<1>3. \A p \in Whole : work'[p] <= 1 /\ (recovery'[p] # "complete" => work'[p] = 0)
  BY DEF WorkInv
<1>4. QED
  BY <1>2, <1>3 DEF WorkInv

(* A part is decrypted: it is there afterwards, or it cost an accident.     *)
LEMMA WorkOnPart ==
  ASSUME IInv, Next, WorkInv, NEW c \in PartSet, file[Part(c)] = "absent",
         work' = [work EXCEPT ![c] = @ + 1], UNCHANGED recovery,
         faults' = faults + 1 \/ (faults' = faults /\ file'[Part(c)] # "absent")
  PROVE  WorkInv'
<1>1. c \in Whole \cup PartSet /\ c \notin Whole
  BY CacheAssumption DEF Payloads
<1>2. /\ work' \in [Whole \cup PartSet -> Nat] /\ work'[c] = work[c] + 1
      /\ \A u \in Whole \cup PartSet : u # c => work'[u] = work[u]
  BY <1>1 DEF WorkInv
<1>3. faults \in Nat /\ faults' \in Nat /\ faults <= faults'
  BY DEF WorkInv
<1>4. \A q \in PartSet : Exists(Part(q)) => Exists(Part(q))'
  BY FilesStay, FilesAre DEF Exists
<1>5. ASSUME NEW q \in PartSet
      PROVE  work'[q] <= faults' + (IF Exists(Part(q))' THEN 1 ELSE 0)
  <2>1. work[q] \in Nat /\ work[q] <= faults + (IF Exists(Part(q)) THEN 1 ELSE 0)
    BY DEF WorkInv
  <2>2. CASE q # c
    BY <1>2, <1>3, <1>4, <2>1, <2>2
  <2>3. CASE q = c
    BY <1>2, <1>3, <2>1, <2>3 DEF Exists
  <2>4. QED
    BY <2>2, <2>3
<1>6. ASSUME NEW p \in Whole
      PROVE  work'[p] <= 1 /\ (recovery'[p] # "complete" => work'[p] = 0)
  BY <1>1, <1>2 DEF WorkInv
<1>7. QED
  BY <1>2, <1>3, <1>5, <1>6 DEF WorkInv

(* A payload is decrypted in one go: its recovery file is complete now.     *)
LEMMA WorkOnWhole ==
  ASSUME IInv, Next, WorkInv, DecryptWhole
  PROVE  WorkInv'
<1>1. /\ want \in Whole /\ want \notin PartSet /\ recovery[want] # "complete"
      /\ recovery' = [recovery EXCEPT ![want] = "complete"]
      /\ work' = [work EXCEPT ![want] = @ + 1] /\ UNCHANGED <<file, faults>>
  BY CacheAssumption DEF DecryptWhole, Payloads
<1>2. work[want] = 0
  BY <1>1 DEF WorkInv
<1>3. /\ work' \in [Whole \cup PartSet -> Nat] /\ work'[want] = 1
      /\ \A u \in Whole \cup PartSet : u # want => work'[u] = work[u]
  BY <1>1, <1>2 DEF WorkInv
<1>4. ASSUME NEW q \in PartSet
      PROVE  work'[q] <= faults' + (IF Exists(Part(q))' THEN 1 ELSE 0)
  BY <1>1, <1>3 DEF WorkInv, Exists
<1>5. ASSUME NEW p \in Whole
      PROVE  work'[p] <= 1 /\ (recovery'[p] # "complete" => work'[p] = 0)
  BY <1>1, <1>3 DEF WorkInv
<1>6. recovery' \in [Whole -> {"absent", "partial", "torn", "complete"}] /\ faults' \in Nat
  BY <1>1 DEF WorkInv
<1>7. QED
  BY <1>3, <1>4, <1>5, <1>6 DEF WorkInv

(* A failed write counts as an accident, one that works does not.           *)
LEMMA FaultCount ==
  ASSUME WorkInv
  PROVE  /\ Fault => faults' = faults + 1
         /\ \A k : Torn(k) => faults' = faults + 1
         /\ \A k, v : Written(k, v) => UNCHANGED faults
         /\ \A k : Unreadable(k) => faults' = faults + 1
BY DEF Fault, Torn, Written, Unreadable

LEMMA WorkNext == IInv /\ WorkInv /\ [Next]_vars => WorkInv'
<1> DEFINE Counted == UNCHANGED <<work, recovery>> /\ (UNCHANGED faults \/ faults' = faults + 1)
<1>1. ASSUME IInv, WorkInv, Next, Counted PROVE WorkInv'
  <2>1. faults' \in Nat /\ faults <= faults'
    BY <1>1 DEF WorkInv
  <2>2. QED
    BY <1>1, <2>1, IdleStep DEF WorkInv
<1>2. ASSUME IInv, WorkInv, Next PROVE WorkInv'
  <2>1. (\E p \in Payloads : Get(p)) => Counted
    BY DEF Get
  <2>2. GetDecrypted \/ BadUpstream \/ DecryptOverrun \/ InvalidRecovery \/ CachedPart \/ Assemble
          => Counted
    BY DEF GetDecrypted, BadUpstream, DecryptOverrun, InvalidRecovery, CachedPart, Assemble
  <2>3. GetJingle \/ GetUpstream \/ DecryptPartFails \/ StoreDecrypted \/ Defang => Counted
    BY <1>2, FaultCount
       DEF GetJingle, GetUpstream, DecryptPartFails, StoreDecrypted, Defang
  <2>4. CASE DecryptWhole
    BY <1>2, <2>4, WorkOnWhole
  <2>5. CASE DecryptWholeFails
    <3>1. /\ want \in Whole /\ recovery[want] # "complete" /\ UNCHANGED work /\ faults' = faults + 1
          /\ \E r \in {"partial", "torn"} : recovery' = [recovery EXCEPT ![want] = r]
      BY <1>2, <2>5, FaultCount DEF DecryptWholeFails
    <3>2. /\ recovery' \in [Whole -> {"absent", "partial", "torn", "complete"}]
          /\ \A p \in Whole : recovery'[p] # "complete" => recovery[p] # "complete"
      BY <1>2, <3>1 DEF WorkInv
    <3>3. faults' \in Nat /\ faults <= faults'
      BY <1>2, <3>1 DEF WorkInv
    <3>4. QED
      BY <1>2, <3>1, <3>2, <3>3, IdleStep
  <2>6. ASSUME OnPart, ~Exists(Part(Current)), Torn(Part(Current)) \/ Fault, UNCHANGED recovery,
               work' = [work EXCEPT ![Current] = @ + 1]
        PROVE  WorkInv'
    <3>1. Current \in PartSet /\ file[Part(Current)] = "absent" /\ faults' = faults + 1
      BY <1>2, <2>6, CurrentPart, FaultCount DEF Exists
    <3>2. QED
      BY <1>2, <2>6, <3>1, WorkOnPart
  <2>7. CASE DecryptPart
    <3>1. CASE Torn(Part(Current))
      BY <2>6, <2>7, <3>1 DEF DecryptPart
    <3>2. CASE Written(Part(Current), file[Upstream(want)])
      <4>1. /\ Current \in PartSet /\ Part(Current) \in Files /\ file[Part(Current)] = "absent"
            /\ file[Upstream(want)] \in Values \ {"absent"}
        BY <1>2, <2>7, CurrentPart, FilesAre DEF DecryptPart, OnPart, Usable, IInv, Shape, Exists
      <4>2. file'[Part(Current)] # "absent" /\ UNCHANGED faults
        BY <1>2, <3>2, <4>1, WrittenTo, FaultCount DEF IInv
      <4>3. QED
        BY <1>2, <2>7, <4>1, <4>2, WorkOnPart DEF DecryptPart
    <3>3. QED
      BY <2>7, <3>1, <3>2 DEF DecryptPart
  <2>8. CASE Killed
    <3>1. CASE Fault /\ UNCHANGED <<file, damaged, work>>
      BY <1>1, <1>2, <2>8, <3>1, FaultCount DEF Killed
    <3>2. CASE /\ OnPart /\ ~Exists(Part(Current)) /\ Fault
               /\ work' = [work EXCEPT ![Current] = @ + 1]
      BY <2>6, <2>8, <3>2 DEF Killed
    <3>3. ASSUME NEW k \in WritesTo, Torn(k),
                 work' = IF pc = "decrypt" THEN [work EXCEPT ![Current] = @ + 1] ELSE work
          PROVE  WorkInv'
      <4>1. CASE pc = "decrypt"
        <5>1. OnPart /\ ~Exists(Part(Current)) /\ k = Part(Current)
          BY <3>3, <4>1 DEF WritesTo
        <5>2. QED
          BY <2>6, <2>8, <3>3, <4>1, <5>1 DEF Killed
      <4>2. CASE pc # "decrypt"
        BY <1>1, <1>2, <2>8, <3>3, <4>2, FaultCount DEF Killed
      <4>3. QED
        BY <4>1, <4>2
    <3>4. QED
      BY <2>8, <3>1, <3>2, <3>3 DEF Killed
  <2>9. QED
    BY <1>1, <1>2, <2>1, <2>2, <2>3, <2>4, <2>5, <2>7, <2>8 DEF Next, Program
<1>3. ASSUME WorkInv, UNCHANGED vars PROVE WorkInv'
  BY <1>3 DEF WorkInv, Exists, vars, process
<1>4. QED
  BY <1>2, <1>3

(* The device decrypts a whole payload at most once, and a part once and    *)
(* once more for every accident, however often Get is killed or fails.      *)
THEOREM WorkIsDoneOnce == Spec => []DecryptedOnce
<1>1. WorkInv => DecryptedOnce
  BY DEF WorkInv, DecryptedOnce
<1>2. QED
  BY <1>1, InitInv, NextInv, WorkInit, WorkNext, PTL DEF Spec
=============================================================================
