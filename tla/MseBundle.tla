------------------------------ MODULE MseBundle ------------------------------
(***************************************************************************)
(* MSE firmware bundles (pkg/mse): a directory of files that Parse takes   *)
(* apart and Serialize lays out anew, with two peculiarities kept from     *)
(* generation to generation: a Nano 3G directory counts each file 0x1000   *)
(* bytes short, and some files of later ones have a page of prefix header  *)
(* before their data.  Neither is marked in the bundle; the parser guesses *)
(* the first from the images inside, the second from the first words of    *)
(* the file.                                                               *)
(*                                                                         *)
(* A file is [name, valid, prefix, data], data being [id, len, zeros, soc]:*)
(* which contents, how long, whether they begin like a prefix header, and  *)
(* the SoC code of the image, if it is one.                                *)
(***************************************************************************)
EXTENDS Integers, Sequences, FiniteSets

CONSTANTS
  Bundles,     \* sequences of files, as Parse may have returned them
  NewLengths,  \* lengths an edited file may get
  Names,       \* four-character codes
  Ids          \* what files may hold

SoCs == {"8702", "8720", "8730", "8723", "8740"}

Contents == [id : Ids, len : Nat, zeros : BOOLEAN, soc : SoCs \cup {"none"}]
FileEntries == [name : Names, valid : BOOLEAN, prefix : BOOLEAN, data : Contents]
NoData == [id |-> "none", len |-> 0, zeros |-> FALSE, soc |-> "none"]

(* What Parse returns: an entry that is not valid gets no data, and data    *)
(* that begin like a prefix header were taken for one, and begin behind it. *)
AsParsed(files) ==
  /\ files \in Seq(FileEntries)
  /\ \A i \in DOMAIN files :
       IF files[i].valid THEN files[i].data.len > 0 /\ (files[i].data.zeros => files[i].prefix)
       ELSE ~files[i].prefix /\ files[i].data = NoData

ASSUME BundleAssumption ==
  /\ \A files \in Bundles : AsParsed(files)
  /\ NewLengths \subseteq Nat \ {0}
  /\ {"osos", "disk"} \subseteq Names /\ "hax" \in Ids

Page == 4096
FirstOffset == 24576   \* 0x6000
Directory == 20480     \* 0x5000, of sixteen headers

KindsOf(soc) ==
  CASE soc = "8702" -> {"n3g"} [] soc = "8720" -> {"n4g"} [] soc = "8730" -> {"n5g"}
    [] soc = "8723" -> {"n6g"} [] OTHER -> {"n7g", "n7g-late"}

VARIABLES
  msePc,     \* "idle", "parsed", "edited", "placing", "serialized", "parsed again", ...
  bundle,    \* MSE.Files and MSE.DeviceKind
  offsets,   \* sectionOffsets, as far as it has been filled
  blob,      \* what Serialize wrote
  back       \* what Parse made of it

mseVars == <<msePc, bundle, offsets, blob, back>>

RoundUp(n) == n + ((Page - (n % Page)) % Page)

ValidFiles(files) == {i \in DOMAIN files : files[i].valid}

NoBundle == [kind |-> "n3g", files |-> <<>>]
NoBlob == [pieces |-> {}, headers |-> <<>>, end |-> 0]

-----------------------------------------------------------------------------
(* guessGeneration: a kind whose SoC code occurs most often; the map over   *)
(* the kinds is walked in any order, so that any of several may win.        *)
Occurrences(files, soc) ==
  Cardinality({i \in ValidFiles(files) : files[i].data.soc = soc})

Guesses(files) ==
  LET most == {s \in SoCs : /\ Occurrences(files, s) > 0
                            /\ \A t \in SoCs : Occurrences(files, t) <= Occurrences(files, s)}
  IN UNION {KindsOf(s) : s \in most}

(* FileByName: the first entry of the name, valid or not. *)
FileByName(files, n) ==
  LET named == {i \in DOMAIN files : files[i].name = n}
  IN  {i \in named : \A j \in named : i <= j}

-----------------------------------------------------------------------------
(* Serialize.                                                               *)

(* The directory's length without the deduction of the Nano 3G.             *)
FullLength(kind, f) == f.data.len

(* The length in the directory. *)
DirectoryLength(kind, f) == IF kind = "n3g" THEN f.data.len - Page ELSE f.data.len

(* The room a file takes: prefix page, data, padding to a page. *)
Room(f) == RoundUp(f.data.len + IF f.prefix THEN Page ELSE 0)

(* The offsets are collected over the valid files and then indexed by the   *)
(* position among all: a gap makes the last one index past the end.         *)
HasGap(files) == ValidFiles(files) # 1 .. Cardinality(ValidFiles(files))

(* The offsets of the valid files, and of the end behind the last one.      *)
Layout(b, offs) ==
  LET n == Cardinality(ValidFiles(b.files))
  IN [pieces |-> {[at |-> offs[i], file |-> b.files[i]] : i \in 1 .. n},
      headers |-> [i \in DOMAIN b.files |->
                     [name |-> b.files[i].name, valid |-> b.files[i].valid,
                      offset |-> IF i <= n THEN offs[i] ELSE 0,
                      length |-> IF i <= n THEN DirectoryLength(b.kind, b.files[i])
                                           ELSE 0]],
      end |-> offs[n + 1]]

-----------------------------------------------------------------------------
(* Parse.                                                                   *)

EndOf(p) == p.at + p.file.data.len + IF p.file.prefix THEN Page ELSE 0

(* No other file or directory lies over a piece of the blob.                *)
Intact(p, bl) ==
  /\ p.at >= Directory + 640 /\ EndOf(p) <= bl.end
  /\ \A q \in bl.pieces \ {p} : EndOf(p) <= q.at \/ EndOf(q) <= p.at

(* The loop body for one valid header: a prefix is taken for granted if the *)
(* words at the offset look like one.                                       *)
ParseFile(bl, h, kind) ==
  LET p == CHOOSE q \in bl.pieces : q.at = h.offset
      prefix == p.file.prefix \/ p.file.data.zeros
      length == h.length + IF kind = "n3g" THEN Page ELSE 0
      whole == prefix = p.file.prefix /\ length = p.file.data.len /\ Intact(p, bl)
  IN [name |-> h.name, valid |-> TRUE, prefix |-> prefix,
      data |-> IF whole THEN p.file.data
               ELSE [id |-> "other", len |-> length, zeros |-> FALSE, soc |-> "none"]]

(* Entries that are not valid keep their header and get no data. *)
Parsed(bl, kind) ==
  [i \in DOMAIN bl.headers |->
     IF bl.headers[i].valid THEN ParseFile(bl, bl.headers[i], kind)
     ELSE [name |-> bl.headers[i].name, valid |-> FALSE, prefix |-> FALSE, data |-> NoData]]

-----------------------------------------------------------------------------
MseInit ==
  msePc = "idle" /\ bundle = NoBundle /\ offsets = <<>> /\ blob = NoBlob /\ back = NoBundle

(* A bundle as Parse returns it. *)
ParseBundle(files) ==
  /\ msePc = "idle"
  /\ IF Guesses(files) = {}
       THEN msePc' = "error" /\ UNCHANGED bundle
       ELSE /\ \E k \in Guesses(files) : bundle' = [kind |-> k, files |-> files]
            /\ msePc' = "parsed"
  /\ UNCHANGED <<offsets, blob, back>>

(* An edit: file i gets other data, whose length is the user's to choose    *)
(* (FileHeader.Length is recalculated on unparse).                          *)
SetData(i, n) ==
  /\ msePc = "parsed" /\ i \in ValidFiles(bundle.files)
  /\ bundle' = [bundle EXCEPT !.files[i].data.len = n]
  /\ msePc' = "edited"
  /\ UNCHANGED <<offsets, blob, back>>

(* The headers of osos and disk exchange their names, and the body of rsrc  *)
(* is overwritten within its length, behind its header.                     *)
Renamed(files, o, d) == [files EXCEPT ![o].name = "disk", ![d].name = "osos"]
Overwritten(files, r) == [files EXCEPT ![r].data.id = "hax"]

(* Hax dereferences what FileByName found and looks at 256 bytes of rsrc;   *)
(* what is no image is an error, with the names exchanged already; the body *)
(* goes behind 0x400 bytes of header, and is taken to fit.                  *)
Hax ==
  /\ msePc = "parsed"
  /\ \/ \E o \in FileByName(bundle.files, "osos"), d \in FileByName(bundle.files, "disk"),
           r \in FileByName(bundle.files, "rsrc") :
          \/ /\ bundle.files[r].data.soc # "none" /\ bundle.files[r].data.len >= 1024
             /\ bundle' = [bundle EXCEPT !.files = Overwritten(Renamed(@, o, d), r)]
             /\ msePc' = "edited"
          \/ /\ bundle.files[r].data.soc = "none" /\ bundle.files[r].data.len >= 256
             /\ bundle' = [bundle EXCEPT !.files = Renamed(@, o, d)]
             /\ msePc' = "error"
     \/ /\ \/ \E name \in {"osos", "disk", "rsrc"} : FileByName(bundle.files, name) = {}
           \/ \E r \in FileByName(bundle.files, "rsrc") :
                bundle.files[r].data.len < IF bundle.files[r].data.soc = "none" THEN 256 ELSE 1024
        /\ msePc' = "panic" /\ UNCHANGED bundle
  /\ UNCHANGED <<offsets, blob, back>>

Serialize ==
  /\ msePc \in {"parsed", "edited"}
  /\ IF HasGap(bundle.files)
       THEN msePc' = "panic" /\ UNCHANGED offsets
       ELSE msePc' = "placing" /\ offsets' = <<FirstOffset>>
  /\ UNCHANGED <<bundle, blob, back>>

(* offs += size, for the next valid file.                                   *)
PlaceFile ==
  LET n == Len(offsets)
  IN /\ msePc = "placing" /\ n <= Cardinality(ValidFiles(bundle.files))
     /\ offsets' = Append(offsets, offsets[n] + Room(bundle.files[n]))
     /\ UNCHANGED <<msePc, bundle, blob, back>>

WriteOut ==
  /\ msePc = "placing" /\ Len(offsets) > Cardinality(ValidFiles(bundle.files))
  /\ blob' = Layout(bundle, offsets) /\ msePc' = "serialized"
  /\ UNCHANGED <<bundle, offsets, back>>

(* The generation is guessed anew. *)
ParseAgain ==
  /\ msePc = "serialized"
  /\ \E k \in Guesses(bundle.files) : back' = [kind |-> k, files |-> Parsed(blob, k)]
  /\ msePc' = "parsed again"
  /\ UNCHANGED <<bundle, offsets, blob>>

NextBundle ==
  /\ msePc \in {"parsed again", "panic", "error"}
  /\ msePc' = "idle" /\ bundle' = NoBundle /\ offsets' = <<>>
  /\ blob' = NoBlob /\ back' = NoBundle

MseNext ==
  \/ \E files \in Bundles : ParseBundle(files)
  \/ \E i \in DOMAIN bundle.files, n \in NewLengths : SetData(i, n)
  \/ Hax \/ Serialize \/ PlaceFile \/ WriteOut \/ ParseAgain \/ NextBundle

MseSpec == MseInit /\ [][MseNext]_mseVars

-----------------------------------------------------------------------------
(* The generation that packs differently is told from the others. *)
Unambiguous(files) == "n3g" \in Guesses(files) => Guesses(files) = {"n3g"}

(* A bundle survives being written and read: every file comes back under    *)
(* its name, with its prefix page and the same data, although neither the   *)
(* generation nor the prefix is recorded (mse.go, "able to re-emit them"),  *)
(* and no file is laid over another, the directory or the end.              *)
RoundTrip ==
  msePc = "parsed again" /\ Unambiguous(bundle.files) => back.files = bundle.files
=============================================================================
