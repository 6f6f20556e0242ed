----------------------------- MODULE EfiPatching -----------------------------
(***************************************************************************)
(* Patching the EFI volume inside a firmware image (pkg/cfw: visitors,     *)
(* defangEFI, SecoreFixup, patchN3GEFISlice).  The image is a window of a  *)
(* larger blob; the volume in it is read, visited, its padding adjusted so *)
(* that the security core stays where it was, rebuilt, wrapped in an IMG1, *)
(* and copied over the window.                                             *)
(*                                                                         *)
(* The walk takes the nodes of the volume one by one; in a PE32 section it *)
(* takes the visitors one by one, and their patches.  A PE32 section is    *)
(* known by its length and by the sites that still hold stock bytes        *)
(* (stock).                                                                *)
(***************************************************************************)
EXTENDS EfiVolume, FiniteSets

CONSTANTS
  Visitors,   \* MultipleVisitors: a sequence of [guid, patches]
  Volumes,    \* volumes as the reader may have built them
  Drifts,     \* how far off the vendor's packing put the security core
  BodyOffsets \* where in the image's body the volume begins: 0x100, or 0

(* Every visitor has something to do. *)
ASSUME VisitorsAssumption ==
  /\ Visitors \in Seq({Visitors[k] : k \in DOMAIN Visitors}) \ {<<>>}
  /\ \A k \in DOMAIN Visitors :
       LET patches == Visitors[k].patches
       IN  /\ patches \in Seq({patches[q] : q \in DOMAIN patches}) \ {<<>>}
           /\ \A q \in DOMAIN patches : patches[q].by \in Nat
ASSUME VolumesAssumption == \A v \in Volumes : WellFormed(v)
ASSUME WindowAssumption == Drifts \subseteq Int /\ BodyOffsets \subseteq Nat

VARIABLES
  efiPc,     \* how far the image has come; "failed" after an error
  given,     \* the volume as it was read
  vol,       \* the volume as it is now
  origPos,   \* where the security core was read
  base,      \* where the volume begins in the image's body
  here,      \* the walk: the node it is at,
  turn,      \* the visitor whose turn it is there, and
  patch,     \* the patch that visitor has come to
  inFile,    \* what each visitor knows: is this its file,
  applied,   \* and has it patched a section
  patchedBy, \* history: the visitors that have patched a node, in order
  written    \* length of the body copied over the window

walk == <<here, turn, patch, inFile, applied, patchedBy>>
efiVars == <<efiPc, given, vol, origPos, base, walk, written>>

None == [k \in DOMAIN Visitors |-> FALSE]

EfiInit ==
  /\ efiPc = "idle" /\ given = <<>> /\ vol = <<>> /\ origPos = 0 /\ base = 0
  /\ here = 0 /\ turn = 1 /\ patch = 1 /\ inFile = None /\ applied = None /\ patchedBy = <<>>
  /\ written = 0

Fail == efiPc' = "failed" /\ UNCHANGED <<given, vol, origPos, base, walk, written>>

-----------------------------------------------------------------------------
(* ReadVolume, and SecoreOffset of what it read.  The vendor's packing need *)
(* not be ours: the core may have been read up to a drift away from where a *)
(* rebuilt volume has it.  The walk begins behind the volume itself.        *)
ReadImage ==
  /\ efiPc = "idle"
  /\ \E v \in Volumes, drift \in Drifts :
       /\ HasSecore(v)
       /\ given' = v /\ vol' = v /\ patchedBy' = [i \in Nodes(v) |-> <<>>]
       /\ origPos' = IF SecoreFirst(v) THEN VolumeHeader ELSE SecoreOffset(v) + drift
  /\ base' \in BodyOffsets /\ efiPc' = "visiting" /\ here' = 2
  /\ UNCHANGED <<turn, patch, inFile, applied, written>>

-----------------------------------------------------------------------------
(* The walk: VisitVolume, visitSection, MultipleVisitors.                   *)

Visiting(kinds) == efiPc = "visiting" /\ here <= Len(vol) /\ vol[here].kind \in kinds

NextNode == here' = here + 1 /\ turn' = 1 /\ patch' = 1

(* Every visitor is told of every file.  What comes behind a nested volume  *)
(* is taken to be in that volume's last file.                               *)
VisitFile ==
  /\ Visiting({"file"}) /\ NextNode
  /\ inFile' = [k \in DOMAIN Visitors |-> vol[here].guid = Visitors[k].guid]
  /\ UNCHANGED <<efiPc, given, vol, origPos, base, applied, patchedBy, written>>

(* No visitor looks at any other section. *)
VisitOther ==
  /\ Visiting(SectionKinds \ {"pe32"}) /\ NextNode
  /\ UNCHANGED <<efiPc, given, vol, origPos, base, inFile, applied, patchedBy, written>>

(* Apply of PatchAt, PatchAtExpect, ReplaceExact and ApplyEFINANDPatches:   *)
(* all want the section long enough; all but PatchAt want stock bytes at    *)
(* their site; the last one appends its trampolines to the module.          *)
Applies(p, s) == s.len >= p.end /\ (p.op = "at" \/ p.site \in s.stock)

Patched(p, s) ==
  [s EXCEPT !.stock = @ \ {p.site}, !.len = IF p.op = "grow" THEN @ + p.by ELSE @]

NextVisitor == IF turn = Len(Visitors) THEN NextNode ELSE turn' = turn + 1 /\ patch' = 1 /\ UNCHANGED here

(* Patches.Apply: one after the other, and an error ends it.  The section is *)
(* written at the end, but nothing reads the volume in between.             *)
ApplyPatch ==
  LET p == Visitors[turn].patches[patch]
  IN  IF ~Applies(p, vol[here]) THEN Fail
      ELSE /\ vol' = [vol EXCEPT ![here] = Patched(p, @)]
           /\ IF patch < Len(Visitors[turn].patches)
              THEN patch' = patch + 1 /\ UNCHANGED <<here, turn, applied, patchedBy>>
              ELSE /\ NextVisitor /\ applied' = [applied EXCEPT ![turn] = TRUE]
                   /\ patchedBy' = [patchedBy EXCEPT ![here] = Append(@, turn)]
           /\ UNCHANGED <<efiPc, given, origPos, base, inFile, written>>

PassBy ==
  /\ ~inFile[turn] /\ NextVisitor
  /\ UNCHANGED <<efiPc, given, vol, origPos, base, inFile, applied, patchedBy, written>>

(* The second PE32 section of a file patched like the first.                *)
VisitEveryPE32 == Visiting({"pe32"}) /\ (PassBy \/ (inFile[turn] /\ ApplyPatch))

(* VisitPE32InFile.VisitSection, on a PE32 section. *)
VisitPE32 ==
  /\ Visiting({"pe32"})
  /\ \/ PassBy
     \/ inFile[turn] /\ applied[turn] /\ Fail
     \/ inFile[turn] /\ ~applied[turn] /\ ApplyPatch

(* Done: an error if a visitor has not applied its patch. *)
VisitingDone ==
  /\ efiPc = "visiting" /\ here > Len(vol)
  /\ IF \E k \in DOMAIN Visitors : ~applied[k] THEN Fail
     ELSE efiPc' = "patched" /\ UNCHANGED <<given, vol, origPos, base, walk, written>>

-----------------------------------------------------------------------------
(* The rest of applyPatches, and patchN3GEFISlice.                          *)

(* SecoreFixup returns nil: the rebuilt volume reads back with the core in  *)
(* place, or the padding suffices and the volume padded anew does.          *)
Fixed(v, to) ==
  LET needed == to - SecoreOffset(v)
      padded == Repadded(v, needed)
  IN  /\ Serializable(v) /\ ReadableVolume(v)
      /\ needed = 0 \/ (/\ PaddingSuffices(v, needed) /\ ReadableVolume(padded)
                        /\ SecoreOffset(padded) = to)

(* A core that moved forward is left there.                                 *)
FixGrowthOnly ==
  /\ efiPc = "patched" /\ efiPc' = "fixed"
  /\ vol' = PadsForGrowthOnly(vol, origPos - SecoreOffset(vol))
  /\ UNCHANGED <<given, origPos, base, walk, written>>

(* SecoreFixup, after VisitVolume. *)
FixPadding ==
  /\ efiPc = "patched"
  /\ IF ~Fixed(vol, origPos) THEN Fail
     ELSE /\ vol' = Repadded(vol, origPos - SecoreOffset(vol))
          /\ efiPc' = "fixed"
          /\ UNCHANGED <<given, origPos, base, walk, written>>

(* The window is the image's body as the blob had it. *)
Window == base + given[1].minSize + given[1].custom

(* MakeUnsigned pads the body to sixteen bytes. *)
Body == AlignUp(base + VolumeBytes(vol), 16)

(* patchN3GEFISlice copies the body back, unless it has outgrown the window.*)
WriteBack ==
  /\ efiPc = "fixed"
  /\ IF Body > Window THEN Fail
     ELSE /\ efiPc' = "written" /\ written' = Body
          /\ UNCHANGED <<given, vol, origPos, base, walk>>

NextImage ==
  /\ efiPc \in {"written", "failed"}
  /\ efiPc' = "idle" /\ given' = <<>> /\ vol' = <<>> /\ origPos' = 0 /\ base' = 0
  /\ here' = 0 /\ turn' = 1 /\ patch' = 1 /\ inFile' = None /\ applied' = None
  /\ patchedBy' = <<>> /\ written' = 0

EfiNext ==
  \/ ReadImage \/ VisitFile \/ VisitOther \/ VisitPE32 \/ VisitingDone
  \/ FixPadding \/ WriteBack \/ NextImage

EfiSpec == EfiInit /\ [][EfiNext]_efiVars

-----------------------------------------------------------------------------
(* What is written back can be read again, by the same rules, and its       *)
(* security core lies where it was read, whatever the patches added and     *)
(* however the vendor's packing differed (fixup.go: "must not be moved      *)
(* around").  The new body covers the window exactly: nothing of the old    *)
(* volume is left behind it, and nothing past the window is overwritten.    *)
SecoreStays ==
  efiPc = "written" =>
    ReadableVolume(vol) /\ SecoreOffset(vol) = origPos /\ written = Window

(* The file that holds a node, however deep; and the last file the walk has *)
(* come to before the node.  They are the same unless something lies behind *)
(* a nested volume in the file that holds it.                               *)
FileOf(v, i) ==
  LET holder[j \in Nodes(v)] == IF v[j].kind = "file" THEN j ELSE holder[v[j].up] IN holder[i]
LastOpened(v, i) ==
  CHOOSE f \in 1 .. i - 1 : v[f].kind = "file" /\ \A j \in f + 1 .. i - 1 : v[j].kind # "file"
NothingBehindNested(v) ==
  \A i \in Nodes(v) : v[i].kind = "pe32" => LastOpened(v, i) = FileOf(v, i)

Patchers(i) == {patchedBy[i][a] : a \in DOMAIN patchedBy[i]}
VisitorsOf(guid) == {k \in DOMAIN Visitors : Visitors[k].guid = guid}

(* Each visitor has patched one module; a module that was patched was so by *)
(* all visitors of one file, in their order, and lies in that file, but for *)
(* volumes with something behind a nested volume.                           *)
PatchedOnce ==
  efiPc = "written" =>
    /\ \A k \in DOMAIN Visitors :
         \E i \in Nodes(vol) : \A j \in Nodes(vol) : k \in Patchers(j) <=> j = i
    /\ \A i \in Nodes(vol) :
         /\ \A a, b \in DOMAIN patchedBy[i] : a < b => patchedBy[i][a] < patchedBy[i][b]
         /\ \A k \in Patchers(i) :
              /\ Patchers(i) = VisitorsOf(Visitors[k].guid)
              /\ NothingBehindNested(given) => given[FileOf(given, i)].guid = Visitors[k].guid
=============================================================================
