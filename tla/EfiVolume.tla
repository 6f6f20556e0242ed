------------------------------ MODULE EfiVolume ------------------------------
(***************************************************************************)
(* EFI firmware volumes as pkg/efi reads and rebuilds them: what each part *)
(* takes in bytes, where it comes to lie, and what the reader makes of a   *)
(* volume that Serialize wrote.                                            *)
(*                                                                         *)
(* A volume is the list of its nodes in the order in which they are        *)
(* walked: the volume itself, then each file and section before what it    *)
(* holds.  A node names the one that holds it (up) and has what its kind   *)
(* needs: a volume the number of its trailing bytes (custom) and those the *)
(* block map promised (minSize); a file its guid, its type and, for a      *)
(* padding file, its filler (pad); a "pe32" or "leaf" section the length   *)
(* of its data; a "guid" section the bytes before the sections in it, and  *)
(* whether they are packed.  Packed tells how long packed data becomes.    *)
(***************************************************************************)
EXTENDS Integers, Sequences

CONSTANT Packed(_)

VolumeHeader == 72     \* 0x38, and a block map of two entries
FileHeader == 24
BlockSize == 256
SectionHeader == 4

AlignUp(n, a) == n + ((a - (n % a)) % a)
Larger(a, b) == IF a >= b THEN a ELSE b

-----------------------------------------------------------------------------
(* The list.                                                                *)

SectionKinds == {"pe32", "leaf", "compressed", "guid", "volume"}
Nodes(v) == 1 .. Len(v)
Held(v, i) == {j \in Nodes(v) : v[j].up = i}

(* Files lie in volumes, sections in files and in other sections; a node's  *)
(* holder comes before it, and what lies between the two lies in the holder.*)
InWalkOrder(v) ==
  /\ Len(v) > 0 /\ v[1].kind = "volume" /\ v[1].up = 0
  /\ \A j \in 2 .. Len(v) :
       /\ v[j].kind \in SectionKinds \cup {"file"} /\ v[j].up \in 1 .. j - 1
       /\ v[v[j].up].kind \notin {"pe32", "leaf"}
       /\ v[j].kind = "file" <=> v[v[j].up].kind = "volume"
       /\ \A i \in v[j].up + 1 .. j - 1 : v[i].up >= v[j].up

(* What is kept of each kind. *)
Node ==
  [kind : {"volume"}, up : Nat, custom : Nat, minSize : Nat]
  \cup [kind : {"file"}, up : Nat, guid : STRING, type : STRING, pad : Nat]
  \cup [kind : {"pe32"}, up : Nat, len : Nat, stock : SUBSET STRING]
  \cup [kind : {"leaf"}, up : Nat, len : Nat]
  \cup [kind : {"compressed"}, up : Nat]
  \cup [kind : {"guid"}, up : Nat, custom : Nat, packed : BOOLEAN]

(* A volume as it may be read, or come out of a patch.                      *)
WellFormed(v) == v \in Seq(Node) /\ InWalkOrder(v)

-----------------------------------------------------------------------------
(* Serialize: lengths and places.                                           *)

(* The blocks of a volume whose files end at n: never fewer bytes than the  *)
(* block map promised.                                                      *)
DataBytes(node, n) == AlignUp(Larger(n, node.minSize), BlockSize)

(* What a node takes, given the length of what it holds. *)
NodeBytes(node, n) ==
  CASE node.kind \in {"pe32", "leaf"} -> SectionHeader + node.len
    [] node.kind = "compressed" -> SectionHeader + 5 + Packed(n)
    [] node.kind = "guid" ->
         SectionHeader + 20 + node.custom + (IF node.packed THEN Packed(n) ELSE n)
    [] node.kind = "volume" -> SectionHeader + DataBytes(node, n) + node.custom
    [] node.kind = "file" -> FileHeader + (IF node.type = "padding" THEN node.pad ELSE n)

(* One more thing in a node that holds n bytes: files are filled up to      *)
(* eight bytes, sections begin at multiples of four (concatSections).       *)
Joined(node, n, bytes) ==
  IF node.kind = "volume" THEN n + AlignUp(bytes, 8) ELSE AlignUp(n, 4) + bytes

(* Length(v)[i, j]: of what node i holds, as far as node j. *)
Length(v) ==
  LET length[p \in Nodes(v) \X (0 .. Len(v))] ==
        LET i == p[1]
            j == p[2]
        IN  IF j <= i THEN IF v[i].kind = "volume" THEN VolumeHeader ELSE 0
            ELSE IF v[j].up # i THEN length[<<i, j - 1>>]
            ELSE Joined(v[i], length[<<i, j - 1>>], NodeBytes(v[j], length[<<j, Len(v)>>]))
  IN  length

(* Where the files of a volume end, and where one of the outermost begins.  *)
FilesEnd(v, i) == Length(v)[<<i, Len(v)>>]
FileOffset(v, j) == Length(v)[<<1, j - 1>>]

VolumeBytes(v) == DataBytes(v[1], FilesEnd(v, 1)) + v[1].custom

(* Nothing is written for a file or a section that should hold sections and *)
(* has none.                                                                *)
Serializable(v) ==
  \A i \in Nodes(v) :
    v[i].kind \in {"compressed", "guid"} \/ (v[i].kind = "file" /\ v[i].type # "padding")
      => Held(v, i) # {}

-----------------------------------------------------------------------------
(* ReadVolume over what Serialize wrote.                                    *)

(* The filler between the last file and the trailing bytes. *)
Filler(v, i) == DataBytes(v[i], FilesEnd(v, i)) - FilesEnd(v, i)

(* The loop over files ends at the last file: no more than 16 bytes are     *)
(* left, or a header of 24 bytes with a file name of ones.                  *)
ReaderStops(filler, custom) ==
  filler + custom <= 16 \/ (filler + custom >= FileHeader /\ filler >= 16)

(* A nested volume is read from behind its section header, but over as many *)
(* bytes as the section has with its header: four that follow it become     *)
(* trailing bytes of the volume.                                            *)
Overread(v, i) == v[i].custom + (IF i = 1 THEN 0 ELSE SectionHeader)

(* That moves the reader four bytes too far: only at the end of its         *)
(* sections does it go unnoticed.                                           *)
ReadableVolume(v) ==
  \A i \in Nodes(v) :
    v[i].kind = "volume" =>
      /\ ReaderStops(Filler(v, i), Overread(v, i))
      /\ \A j \in Held(v, v[i].up) : j <= i

-----------------------------------------------------------------------------
(* SecoreOffset: the security core is the first file, or the last behind a  *)
(* padding file.                                                            *)
Files(v) == Held(v, 1)
LastFile(v) == CHOOSE j \in Files(v) : \A k \in Files(v) : k <= j
PaddingFile(v) ==
  CHOOSE j \in Files(v) \ {LastFile(v)} : \A k \in Files(v) \ {LastFile(v)} : k <= j

SecoreFirst(v) == v[2].type = "secore"

HasSecore(v) ==
  /\ \E i, j \in Files(v) : 2 < i /\ i < j
  /\ SecoreFirst(v) \/ (v[PaddingFile(v)].type = "padding" /\ v[LastFile(v)].type = "secore")

SecoreOffset(v) == FileOffset(v, IF SecoreFirst(v) THEN 2 ELSE LastFile(v))

(* The padding file before the core has what must be taken from it. *)
PaddingSuffices(v, needed) == v[PaddingFile(v)].pad + needed >= 0

(* Growth only: a volume that got longer is left as it is.                  *)
PadsForGrowthOnly(v, needed) ==
  IF needed <= 0 THEN v ELSE [v EXCEPT ![PaddingFile(v)].pad = @ + needed]

(* SecoreFixup's change: the padding file before the core takes up the      *)
(* difference between where the core was and where it would come to lie.    *)
Repadded(v, needed) ==
  IF needed = 0 THEN v ELSE [v EXCEPT ![PaddingFile(v)].pad = @ + needed]
=============================================================================
