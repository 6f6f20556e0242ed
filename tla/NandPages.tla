------------------------------ MODULE NandPages ------------------------------
(***************************************************************************)
(* One page of the 16 GB chip on its way through the patched driver        *)
(* (nand_erasedpage.S): a read into the per-chunk buffers, the ECC check   *)
(* with erased_chunk_fix at its entry, and the collector's decision, with  *)
(* gc_erased_check, whether to stamp the page's record as unreadable.      *)
(*                                                                         *)
(* A chunk is known by what its first words tell: "FF" all ones, "poison"  *)
(* the ECC core's decode of all ones, "data", "FFdata" data that begins    *)
(* with a word of ones, "garbage" a decode that failed.                    *)
(***************************************************************************)
EXTENDS Integers, FiniteSets

CONSTANTS
  Groups,     \* chunks per page: 4
  MaxGroups   \* 64: the clamp on the group count

ASSUME NandPagesAssumption == Groups \in Nat \ {0} /\ MaxGroups \in Nat

VARIABLES
  page,      \* what the chip holds, chunk by chunk
  buffer,    \* what the read left in the chunk buffers
  verdict,   \* of the ECC check: "none", "good", "blank", "uncorrectable"
  stamped    \* the collector's record of the page says unreadable

pageVars == <<page, buffer, verdict, stamped>>

Chunk == 1 .. Groups
Stored == {"erased", "data", "FFdata", "broken"}
NotRead == [c \in Chunk |-> "erased"]

(* What a chunk reads as: an erased one as poison or, when the core leaves  *)
(* it alone, as ones; a broken one as anything but poison.                  *)
ReadsAs(stored) ==
  CASE stored = "erased" -> {"poison", "FF"}
    [] stored = "broken" -> {"garbage", "FFdata"}
    [] OTHER -> {stored}

(* The aggregate status: uncorrectable if some chunk would not decode, with *)
(* a count of bit errors if a chunk that holds data would not.              *)
Uncorrectable(p) == \E c \in Chunk : p[c] \in {"erased", "broken"}
BitErrors(p) == \E c \in Chunk : p[c] = "broken"

-----------------------------------------------------------------------------
(* A chunk that erased_chunk_fix takes for erased: the first word is ones,  *)
(* or the first two are the poison signature.                               *)
TakenForErased(chunk) == chunk \in {"FF", "FFdata", "poison"}

Scrubbed(b) == [c \in Chunk |-> IF b[c] = "poison" THEN "FF" ELSE b[c]]

RealCount(b) == Cardinality({c \in Chunk : ~TakenForErased(b[c])})

(* The stock ECC check, past ECC_RESUME. *)
StockVerdict(p) == IF Uncorrectable(p) THEN "uncorrectable" ELSE "good"

(* The gate without its test of the bit errors.                             *)
GateOnStatusOnly(p) == Groups \in 1 .. MaxGroups /\ Uncorrectable(p)

(* The gate: a sane group count, an uncorrectable page, no bit errors. *)
Gate(p) == Groups \in 1 .. MaxGroups /\ Uncorrectable(p) /\ ~BitErrors(p)

(* .ecf_verdict *)
FixedVerdict(p, b) ==
  IF ~Gate(p) THEN StockVerdict(p)
  ELSE IF RealCount(b) = 0 THEN "blank"
  ELSE IF RealCount(b) = Groups THEN StockVerdict(p)
  ELSE "good"

-----------------------------------------------------------------------------
PageInit ==
  /\ page = NotRead /\ buffer = NotRead /\ verdict = "none" /\ stamped = FALSE

(* The chip's page is what its history made it, and the driver reads it. *)
ReadPage ==
  /\ verdict = "none" /\ buffer = NotRead
  /\ page' \in [Chunk -> Stored]
  /\ buffer' \in {b \in [Chunk -> {"FF", "poison", "data", "FFdata", "garbage"}] :
                    \A c \in Chunk : b[c] \in ReadsAs(page'[c])}
  /\ UNCHANGED <<verdict, stamped>>

(* The ECC check, entered at erased_chunk_fix. *)
CheckEcc ==
  /\ verdict = "none" /\ buffer # NotRead
  /\ verdict' = FixedVerdict(page, buffer)
  /\ buffer' = IF Gate(page) THEN Scrubbed(buffer) ELSE buffer
  /\ UNCHANGED <<page, stamped>>

(* The stock collector: every failed read is stamped.                       *)
StampAlways(b) == TRUE

(* gc_erased_check: the stamp is kept off a page whose first 2 KiB, the     *)
(* first chunk of its buffer, are ones.                                     *)
StampWanted(b) == b[1] # "FF"

(* The collector relocates the page: it has read it, and the read failed    *)
(* because the page is uncorrectable or blank.                              *)
Relocate ==
  /\ verdict \in {"blank", "uncorrectable"} /\ ~stamped
  /\ StampWanted(buffer)
  /\ stamped' = TRUE
  /\ UNCHANGED <<page, buffer, verdict>>

NextPage ==
  /\ verdict # "none"
  /\ page' = NotRead /\ buffer' = NotRead /\ verdict' = "none" /\ stamped' = FALSE

PageNext == ReadPage \/ CheckEcc \/ Relocate \/ NextPage
PageSpec == PageInit /\ [][PageNext]_pageVars

-----------------------------------------------------------------------------
(* No damage is passed off as data: a page with a chunk that would not      *)
(* decode stays uncorrectable, and a good page delivers every data chunk as *)
(* it is stored and every erased chunk as ones (the fix's "never mask real  *)
(* corruption").  Nor is data passed off as nothing: a page of which some   *)
(* chunk was written is not reported blank, as long as no chunk of data     *)
(* begins with a word of ones - the fix looks at the first word alone, and  *)
(* such a chunk beside an erased one is taken for erased.                   *)
VerdictIsSound ==
  /\ verdict = "good" =>
       \A c \in Chunk :
         /\ page[c] # "broken"
         /\ buffer[c] = IF page[c] = "erased" THEN "FF" ELSE page[c]
  /\ verdict = "blank" /\ (\A c \in Chunk : page[c] # "FFdata")
       => \A c \in Chunk : page[c] = "erased"

(* The collector stamps no erased page as unreadable: the fix of the check  *)
(* on its words agrees with what the controller left of an erased page.     *)
ErasedIsNotStamped ==
  (\A c \in Chunk : page[c] = "erased") => ~stamped
=============================================================================
