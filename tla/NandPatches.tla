---------------------------- MODULE NandPatches ----------------------------
(***************************************************************************)
(* Putting the 16 GB NAND patches into Apple's images (pkg/nand16gb, called *)
(* from the N3G defangers of pkg/cfw): trampolines whose lengths are the    *)
(* assembler's, placed in gaps taken for free, and branches over single     *)
(* instructions of the image that lead into them.                           *)
(*                                                                         *)
(* An image is known by its address space, in bytes: the words where it is  *)
(* not what the patches were written for ("drift"), and the pieces written  *)
(* over it.  A layer is the list of what its Apply function does, in order, *)
(* at the addresses of the source; a step carries out the head of the list. *)
(***************************************************************************)
EXTENDS Integers, Sequences, FiniteSets

CONSTANTS
  Assemblies,   \* functions from the sources of asm/ to assembled lengths
  PatchDrifts,  \* sets of addresses where an image may differ, by job
  DeviceTables  \* where disk mode's literal says its device table is, if not Apple's

Jobs == {"recovery", "firmware", "module"}
Sources == {"scsibridge", "erasedpage", "ftlbridge", "planeerase", "bbtscan", "blockbridge",
            "efi_nand"}

(* No trampoline is shorter than two instructions, and ftlbridge ends with  *)
(* a pointer and a pool of six literals.                                    *)
ASSUME PatchAssumption ==
  \A a \in Assemblies :
    /\ DOMAIN a = Sources /\ \A s \in Sources : a[s] \in Nat /\ a[s] >= 8
    /\ a["ftlbridge"] >= 28

VARIABLES
  job,        \* which image is patched: "recovery", "firmware", "module"
  asm,        \* the assembled lengths
  drift,      \* addresses at which the image is not the stock one
  todo,       \* what is left of the job
  next,       \* imageSplicer.next
  blobs,      \* trampolines of this application: [src, from, to]
  wrote,      \* words and regions of this application: [from, to]
  astray,     \* its chip descriptor, when that went where a literal said that
              \* is not Apple's
  earlier,    \* what an earlier application wrote
  mapped,     \* where the image ends, and where its header says it ends
  patchPc     \* "idle", "patching", "ok", "error"

patchVars == <<job, asm, drift, todo, next, blobs, wrote, astray, earlier, mapped, patchPc>>

Piece(a, n) == [from |-> a, to |-> a + n]
Apart(p, q) == p.to <= q.from \/ q.to <= p.from

-----------------------------------------------------------------------------
(* The items of a plan.                                                     *)

Words(S) == [op |-> "words", pieces |-> S]       \* written, whatever was there
Stock(S) == [op |-> "stock", pieces |-> S]       \* checked against Apple's words
Free(S)  == [op |-> "free", pieces |-> S]        \* checked to be zeros
Region(from, to) == [op |-> "region", from |-> from, to |-> to]
Splice(src) == [op |-> "splice", src |-> src]    \* imageSplicer.splice
Grow(src) == [op |-> "grow", src |-> src]        \* growPE32
(* A trampoline at a fixed address: below its ceiling, behind the end of an *)
(* earlier one, and, if free, over zeros.                                   *)
Place(src, at, end, after, free) ==
  [op |-> "place", src |-> src, at |-> at, end |-> end, after |-> after, free |-> free]

WordsAt(S) == {Piece(a, 4) : a \in S}

(* The check of an image's length, or that a module's header describes a    *)
(* flat file (peLastSectionOffsets); the pseudo-word 0 stands for both.     *)
LongEnough == Stock({Piece(0, 4)})

(* Where an address of disk mode is in an image that holds it from b on. *)
DiskModeOffset(b, va) == b + \h51f8 + (va - \h08000000)

(* The chip descriptor's place in a device table at va, and the literal that*)
(* says where the table is: a place of its own in Apple's image.            *)
ChipEntry(b, va) == Piece(DiskModeOffset(b, va + 15 * \h2c), \h2c)
TableLiteral(b) == Piece(DiskModeOffset(b, \h08032458), 4)
DiskTable == \h0803d000
BakeTable(b) ==
  [op |-> "table", base |-> b, literal |-> {TableLiteral(b)}, pieces |-> {ChipEntry(b, DiskTable)}]

(* ApplyDiskModePatches on a blob that starts at b of the image; heap sites *)
(* are file offsets, all others addresses.                                  *)
DiskPlan(b) ==
  LET V(va) == DiskModeOffset(b, va)
      VW(S) == WordsAt({V(va) : va \in S})
  IN << LongEnough,
        Place("scsibridge", V(\h080385d0), b + 280512, "none", FALSE),
        Words(VW({\h080224f4})),
        Words(VW({\h0801abf4, \h0801b2d8})
                \cup {Piece(V(\h0802ae54), 8), Piece(V(\h0802ea30), 28)}),
        BakeTable(b),
        Place("erasedpage", V(\h08039a00), V(\h0803a26c), "none", FALSE),
        Words(VW({\h08019fc0, \h08019fc4, \h08017808, \h080146a8})),
        Place("ftlbridge", V(\h08038b80), V(\h08039a00), "scsibridge", FALSE),
        Words(VW({\h0802ec3c, \h0802ec94})),
        Place("planeerase", V(\h08039680), V(\h08039908), "none", TRUE),
        Words(VW({\h08032608, \h080326fc})
                \cup WordsAt({b + o : o \in {\h2416c, \h241e8, \h3b1e0, \hefb4, \hef64, \heef8}})) >>

(* ApplyAUPDPatches on a slice that starts at b. *)
AupdPlan(b) ==
  LET V(va) == b + \h800 + (va - \h08000000)
      VW(S) == WordsAt({V(va) : va \in S})
  IN << LongEnough,
        Words({Piece(V(\h0801bb84), \h2c)}),
        Region(V(\h0802af80), V(\h0802b7d8)),
        Splice("planeerase"),
        Words(VW({\h08014f0c, \h08015000})),
        Splice("erasedpage"),
        Words(VW({\h0800df3c, \h0800df40, \h0800ff00})),
        Splice("bbtscan"),
        Words(VW({\h08009934, \h0800fb74})) >>

(* ApplyRetailOSPatches on a slice that starts at b; all are file offsets.  *)
OsosWords(b, S) == WordsAt({b + o : o \in S})

OsosLBACount(b) ==
  << Stock(OsosWords(b, {\h2c10fc, \h2c1108})), Words({Piece(b + \h2c10fc, 20)}) >>

OsosHeapSizes(b) ==
  LET sites == OsosWords(b, {\h0f4a20, \h0f4a9c, \h36d3ac, \h04e364, \h04e3d0, \h04e420})
  IN << Stock(sites), Words(sites) >>

OsosNANDFixes(b) ==
  LET W(S) == OsosWords(b, S)
  IN << Region(b + \h3cbf78, b + \h3ccdec),
        Splice("planeerase"),
        Words(W({\h2d3a0c, \h2d3b00})),
        Splice("erasedpage"),
        Words(W({\h0e4170, \h0e4174, \h0cdfac})),
        Splice("bbtscan"),
        Words(W({\h08d200})),
        Stock(W({\h2c1330, \h2c1388, \h2c1304, \h2c132c, \h2c135c, \h2c1384})),
        Free({Piece(b + \h743060, \h2020)}),
        Splice("blockbridge"),
        Words(W({\h2c1304, \h2c135c})),
        Stock(W({\h27d7a0})), Words(W({\h27d7a0})),
        Stock(W({\h27d6b8})), Words(W({\h27d6b8, \h09d114})) >>

OsosPlan(b) ==
  << LongEnough, Words({Piece(b + \h9269bc, \h2c)}) >>
    \o OsosLBACount(b) \o OsosHeapSizes(b) \o OsosNANDFixes(b)

(* patchN3GEFISlice as seen from the image: the window is written anew. *)
EfiWindow(a) == << Words({Piece(a, \h4ff50)}) >>

(* RecoveryDefangers[Nano3] and FirmwareDefangers[Nano3]. *)
DiskModeIn(j) == IF j = "recovery" THEN \he40b8 ELSE \h5939fb8
RecoveryPlan ==
  << Words({Piece(\h127940, \hc0)}) >> \o DiskPlan(DiskModeIn("recovery"))
    \o << Words({Piece(\h1bd80, \h2c)}) >> \o EfiWindow(\h30a78)
FirmwarePlan ==
  << Words({Piece(\h5853800 + \h2c7c0, \hb40)}) >> \o AupdPlan(\h5853000)
    \o EfiWindow(\h5853800 + \h33178) \o DiskPlan(DiskModeIn("firmware")) \o OsosPlan(\h4e07800)

(* ApplyEFINANDPatches on a module of 0xb000 bytes: its header is checked   *)
(* and the code appended, then the calls of the three erases are replaced,  *)
(* then Block IO's bodies, checked, and the scan's call.                    *)
ModuleSize == \hb000
ModulePlan ==
  << LongEnough, Grow("efi_nand"),
     Words({Piece(a, 8) : a \in {\h6c96, \h6cbe, \h6d44}}),
     Stock({Piece(\h22e, 16)}), Words({Piece(\h22e, 16)}),
     Stock({Piece(\h294, 16)}), Words({Piece(\h294, 16)}),
     Words({Piece(\h56d6, 4)}) >>

Plan(j) ==
  CASE j = "recovery" -> RecoveryPlan
    [] j = "firmware" -> FirmwarePlan
    [] j = "module" -> ModulePlan

-----------------------------------------------------------------------------
(* The pointer at the very end, no literal pool behind it.                  *)
CodeWithoutPool(blob) ==
  IF blob.src = "ftlbridge" THEN {Piece(blob.from, blob.to - blob.from - 4)}
  ELSE {Piece(blob.from, blob.to - blob.from)}

(* What is not zero in a trampoline: all but ftlbridge's pointer to its     *)
(* scratch, the word before the pool of six literals.                       *)
Code(blob) ==
  IF blob.src = "ftlbridge"
  THEN {Piece(blob.from, blob.to - blob.from - 28), Piece(blob.to - 24, 24)}
  ELSE {Piece(blob.from, blob.to - blob.from)}

(* All that an image holds besides Apple's own bytes; the last two bytes of *)
(* a descriptor are zero.                                                   *)
Foreign ==
  earlier \cup wrote \cup {Piece(p.from, \h2a) : p \in astray} \cup UNION {Code(b) : b \in blobs}

Untouched(p) ==
  /\ \A d \in drift : ~(p.from <= d /\ d < p.to)
  /\ \A q \in Foreign : Apart(p, q)

Trampoline(src, at) == [src |-> src, from |-> at, to |-> at + asm[src]]

(* The error return of every Apply: the image stays half patched, and the   *)
(* caller throws it away.                                                   *)
Refuse ==
  /\ patchPc' = "error"
  /\ UNCHANGED <<job, asm, drift, todo, next, blobs, wrote, astray, earlier, mapped>>

Proceed ==
  /\ todo' = Tail(todo)
  /\ patchPc' = IF Tail(todo) = <<>> THEN "ok" ELSE "patching"
  /\ UNCHANGED <<job, asm, drift, earlier>>

PatchInit ==
  /\ job = "none" /\ asm = <<>> /\ drift = {} /\ todo = <<>>
  /\ next = Piece(0, 0) /\ blobs = {} /\ wrote = {} /\ astray = {} /\ earlier = {}
  /\ mapped = Piece(0, 0) /\ patchPc = "idle"

(* A downloaded image, or a module of one. *)
StartJob(j) ==
  /\ patchPc = "idle"
  /\ job' = j /\ todo' = Plan(j) /\ patchPc' = "patching"
  /\ asm' \in Assemblies /\ drift' \in PatchDrifts[j]
  /\ mapped' = [end |-> ModuleSize, header |-> ModuleSize]
  /\ UNCHANGED <<next, blobs, wrote, astray, earlier>>

WriteWords ==
  /\ patchPc = "patching" /\ Head(todo).op = "words"
  /\ wrote' = wrote \cup Head(todo).pieces
  /\ Proceed /\ UNCHANGED <<next, blobs, astray, mapped>>

(* A check that fails, of words or of zeros, or an image too short. *)
CheckStock ==
  /\ patchPc = "patching" /\ Head(todo).op \in {"stock", "free"}
  /\ IF \A p \in Head(todo).pieces : Untouched(p)
       THEN Proceed /\ UNCHANGED <<next, blobs, wrote, astray, mapped>>
       ELSE Refuse

(* The literal may say anything unless it is Apple's; of what it says only  *)
(* the range is checked.  A descriptor behind the end of the blob goes over *)
(* what follows it in the image, or, when that is too short, the program    *)
(* panics.                                                                  *)
BakeDescriptor ==
  /\ patchPc = "patching" /\ Head(todo).op = "table"
  /\ IF \A p \in Head(todo).literal : Untouched(p)
       THEN /\ wrote' = wrote \cup Head(todo).pieces
            /\ Proceed /\ UNCHANGED <<next, blobs, astray, mapped>>
       ELSE \E va \in DeviceTables :
              LET chip == ChipEntry(Head(todo).base, va)
              IN  \/ /\ \h08000000 <= va /\ va < \h08040000
                     /\ astray' = {chip}
                     /\ Proceed /\ UNCHANGED <<next, blobs, wrote, mapped>>
                  \/ /\ ~(\h08000000 <= va /\ va < \h08040000)
                        \/ chip.to > Head(todo).base + 280512
                     /\ Refuse

StartRegion ==
  /\ patchPc = "patching" /\ Head(todo).op = "region"
  /\ next' = Piece(Head(todo).from, Head(todo).to - Head(todo).from)
  /\ Proceed /\ UNCHANGED <<blobs, wrote, astray, mapped>>

Aligned(a) == ((a + 3) \div 4) * 4

(* A cursor that stays where it was.                                        *)
CursorAt(blob) == blob.from

(* s.next = blobEnd *)
CursorAfter(blob) == blob.to

SpliceBlob ==
  /\ patchPc = "patching" /\ Head(todo).op = "splice"
  /\ LET blob == Trampoline(Head(todo).src, Aligned(next.from))
     IN IF blob.to <= next.to /\ Untouched(blob)
        THEN /\ blobs' = blobs \cup {blob}
             /\ next' = [next EXCEPT !.from = CursorAfter(blob)]
             /\ Proceed /\ UNCHANGED <<wrote, astray, mapped>>
        ELSE Refuse

Fits(item, blob) ==
  /\ blob.to <= item.end
  /\ \A b \in blobs : b.src = item.after => b.to <= item.at
  /\ item.free => Untouched(blob)

PlaceBlob ==
  /\ patchPc = "patching" /\ Head(todo).op = "place"
  /\ LET blob == Trampoline(Head(todo).src, Head(todo).at)
     IN IF Fits(Head(todo), blob)
        THEN /\ blobs' = blobs \cup {blob}
             /\ Proceed /\ UNCHANGED <<next, wrote, astray, mapped>>
        ELSE Refuse

(* The file, SizeOfImage and the last section grow. *)
Grown(n) == [end |-> mapped.end + n, header |-> mapped.header + n]

GrowModule ==
  /\ patchPc = "patching" /\ Head(todo).op = "grow"
  /\ blobs' = blobs \cup {Trampoline(Head(todo).src, mapped.end)}
  /\ mapped' = Grown(asm[Head(todo).src])
  /\ Proceed /\ UNCHANGED <<next, wrote, astray>>

(* The same image is given to the patches again: the same job, run over its *)
(* own result.                                                              *)
ApplyAgain ==
  /\ patchPc = "ok" /\ earlier = {}
  /\ earlier' = Foreign /\ blobs' = {} /\ wrote' = {} /\ astray' = {}
  /\ todo' = Plan(job) /\ patchPc' = "patching"
  /\ UNCHANGED <<job, asm, drift, next, mapped>>

(* The result is delivered, or the error reported: the next image. *)
NextImageOfMany ==
  /\ patchPc \in {"ok", "error"}
  /\ job' = "none" /\ drift' = {} /\ todo' = <<>> /\ next' = Piece(0, 0)
  /\ blobs' = {} /\ wrote' = {} /\ astray' = {} /\ earlier' = {} /\ mapped' = Piece(0, 0)
  /\ patchPc' = "idle" /\ asm' = <<>>

PatchNext ==
  \/ \E j \in Jobs : StartJob(j)
  \/ WriteWords \/ CheckStock \/ BakeDescriptor \/ StartRegion \/ SpliceBlob \/ PlaceBlob
  \/ GrowModule \/ ApplyAgain \/ NextImageOfMany

PatchSpec == PatchInit /\ [][PatchNext]_patchVars

-----------------------------------------------------------------------------
(* The literal of disk mode's device table is not Apple's. *)
TableMoved ==
  /\ job # "module"
  /\ LET literal == TableLiteral(DiskModeIn(job))
     IN \E d \in drift : literal.from <= d /\ d < literal.to

(* An image that is delivered holds every trampoline whole: no two of them  *)
(* overlap, although their lengths are the assembler's and the last check   *)
(* of an overlap comes after the copy, and no branch, table or logo of any  *)
(* layer lies in one or over another.  The exception is an image whose      *)
(* device-table literal is not Apple's: its descriptor goes where that      *)
(* says, over a trampoline too, and of no other image does it go astray.    *)
(* In a module the trampolines are loaded, too: within the file and within  *)
(* what its header tells the loader to map.  And no image is patched twice: *)
(* over its own result every layer meets one of its checks (the gap no      *)
(* longer free, a word no longer Apple's) and fails.                        *)
PatchesIntact ==
  patchPc = "ok" =>
    /\ \A p, q \in {Piece(b.from, b.to - b.from) : b \in blobs} \cup wrote :
         p # q => Apart(p, q)
    /\ astray # {} => TableMoved
    /\ job = "module" => \A b \in blobs : b.to <= mapped.end /\ b.to <= mapped.header
    /\ earlier = {}

(* The gaps are long enough for what the assembler made: in disk mode each  *)
(* on its own, in the other two layers one after another.                   *)
GapsSuffice ==
  LET shared == Aligned(asm["planeerase"]) + Aligned(asm["erasedpage"])
  IN /\ asm["scsibridge"] <= \h5b0 /\ asm["ftlbridge"] <= \hb00
     /\ asm["erasedpage"] <= \h86c /\ asm["planeerase"] <= \h288
     /\ job = "firmware" =>
          /\ shared + asm["bbtscan"] <= \h858
          /\ shared + Aligned(asm["bbtscan"]) + asm["blockbridge"] <= \he74

(* The checks refuse no stock image for its own sake: an image that is      *)
(* refused differs from the stock one, has been patched before, or meets a  *)
(* trampoline too long for its gap.  No check trips over a word or a        *)
(* trampoline that an earlier step of the same run wrote.                   *)
StockIsAccepted ==
  patchPc = "error" /\ drift = {} /\ earlier = {} => job # "module" /\ ~GapsSuffice
=============================================================================
