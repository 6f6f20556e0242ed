------------------------------ MODULE MCParts ------------------------------
(***************************************************************************)
(* The parts that work alone: the layout check under edits of the table,   *)
(* the chip's blocks and pages under the patched driver, firmware bundles, *)
(* EFI volumes, and the placing of the patches.  They share no state and   *)
(* never run at once, so a behaviour is one of one part, chosen at the     *)
(* start.                                                                   *)
(***************************************************************************)
EXTENDS LayoutEdits, NandBlocks, NandPages, MseBundle, EfiPatching, NandPatches

LOCAL INSTANCE SequencesExt

VARIABLE part

Parts == {"layout", "blocks", "pages", "bundles", "volumes", "patches"}

PartsInit ==
  /\ part \in Parts
  /\ TableInit /\ NandInit /\ PageInit /\ MseInit /\ EfiInit /\ PatchInit

Only(p) ==
  /\ part = p /\ UNCHANGED part
  /\ p = "layout" \/ UNCHANGED table
  /\ p = "blocks" \/ UNCHANGED nandVars
  /\ p = "pages" \/ UNCHANGED pageVars
  /\ p = "bundles" \/ UNCHANGED mseVars
  /\ p = "volumes" \/ UNCHANGED efiVars
  /\ p = "patches" \/ UNCHANGED patchVars

PartsNext ==
  \/ Only("layout") /\ TableNext
  \/ Only("blocks") /\ NandNext
  \/ Only("pages") /\ PageNext
  \/ Only("bundles") /\ MseNext
  \/ Only("volumes") /\ EfiNext
  \/ Only("patches") /\ PatchNext

PartsSpec == PartsInit /\ [][PartsNext]_<<table, nandVars, pageVars, mseVars, efiVars, patchVars, part>>

(* The layout check: three slots on a device of 12 blocks, the volume in    *)
(* blocks 3 and 4; entries start before, at, inside and past the region.    *)
MCSlots == 1 .. 3
MCEntries == [type : {0, 11}, start : {0, 2, 3, 4, 5}, size : {0, 1, 2, 7}]

(* Bundles as Parse may have found them; the lengths straddle a page.       *)
Content(id, len, zeros, soc) == [id |-> id, len |-> len, zeros |-> zeros, soc |-> soc]
Entry(name, prefix, data) == [name |-> name, valid |-> TRUE, prefix |-> prefix, data |-> data]
NoEntry == [name |-> "", valid |-> FALSE, prefix |-> FALSE, data |-> NoData]
Triple(soc, prefix, n) ==
  << Entry("osos", prefix, Content("a", n, FALSE, soc)),
     Entry("disk", prefix, Content("b", 8192, prefix, soc)),
     Entry("rsrc", FALSE, Content("c", 4097, FALSE, soc)) >>
MCBundles ==
  {Triple(soc, FALSE, n) : soc \in SoCs, n \in {4096, 4097, 8191, 8192}}
  \cup {Triple(soc, TRUE, n) : soc \in {"8720", "8740"}, n \in {4096, 4097, 8191, 8192}}
  \cup {Triple(soc, FALSE, 5000) \o <<NoEntry, NoEntry>> : soc \in {"8702", "8730"}}
  \cup {<<NoEntry>> \o Triple(soc, FALSE, 5000) : soc \in {"8702", "8730"}}
  \cup {<<Entry("osos", FALSE, Content("a", 5000, FALSE, "none"))>>,
        <<Entry("osos", FALSE, Content("a", 5000, FALSE, "8702")),
          Entry("disk", TRUE, Content("b", 5000, FALSE, "8740"))>>,
        [Triple("8740", TRUE, 5000) EXCEPT ![3].data.soc = "none"],
        [Triple("8740", TRUE, 5000) EXCEPT ![3].data.len = 1000]}
MCNewLengths == {4096, 4100, 8191, 12288}

(* EFI volumes: the patched module stored plainly, twice, with a drifted    *)
(* word or packed, in a volume of its own or not, with another module       *)
(* behind that volume or not, behind the core or with padding in front of   *)
(* it; the packer halves what it is given.                                  *)
MCPacked(n) == n \div 2 + 5
(* A node and what it holds, each a list of its own; up is 0 for its first. *)
Holding(node, lists) ==
  FoldLeft(LAMBDA acc, list : acc \o [i \in DOMAIN list |->
             [list[i] EXCEPT !.up = IF @ = 0 THEN 1 ELSE @ + Len(acc)]],
           <<node>>, lists)
Pe(n, sites) == <<[kind |-> "pe32", up |-> 0, len |-> n, stock |-> sites]>>
Leaf(n) == <<[kind |-> "leaf", up |-> 0, len |-> n]>>
File(g, t, pad, lists) ==
  Holding([kind |-> "file", up |-> 0, guid |-> g, type |-> t, pad |-> pad], lists)
Vol(lists, slack, custom) ==
  LET node == [kind |-> "volume", up |-> 0, custom |-> custom, minSize |-> 0]
      end == FilesEnd(Holding(node, lists), 1)
  IN  Holding([node EXCEPT !.minSize = AlignUp(end, 256) + slack], lists)
Compressed(lists) == Holding([kind |-> "compressed", up |-> 0], lists)
Lzma(lists) == Holding([kind |-> "guid", up |-> 0, custom |-> 4, packed |-> TRUE], lists)
Rom == File("rom", "driver", 0, <<Leaf(5), Pe(40, {"name"})>>)
Nand(form) == File("nand", "driver", 0,
  CASE form = "plain" -> <<Pe(60, {"geometry", "hooks"})>>
    [] form = "twice" -> <<Pe(60, {"geometry", "hooks"}), Pe(60, {"geometry", "hooks"})>>
    [] form = "drifted" -> <<Pe(60, {"hooks"})>>
    [] form = "empty" -> <<Leaf(60)>>
    [] form = "packed" -> <<Lzma(<<Leaf(6), Pe(61, {"geometry", "hooks"})>>)>>)
Inner(f) == Compressed(<<Vol(<<f>>, 0, 0)>>)
Secore == File("core", "secore", 0, <<Leaf(30)>>)
Padding(n) == File("pad", "padding", n, <<>>)
Trailing == {<<slack, custom>> : slack \in {0, 16, 256}, custom \in {0, 4, 80}}
MCVolumes ==
  UNION {
    {Vol(<<Rom, Nand(form), Padding(n), Secore>>, t[1], t[2]),
     Vol(<<Rom, File("fs", "driver", 0, <<Inner(Nand(form))>>), Padding(n), Secore>>, t[1], t[2])}
    : form \in {"plain", "packed"}, t \in Trailing,
      n \in {0, 8, 12, 24, 31} \cup {64 + 8 * i : i \in 0 .. 31}}
  \cup {Vol(<<Secore, Rom, Nand(form)>>, t[1], t[2]) : form \in {"plain", "packed"}, t \in Trailing}
  \cup UNION {
    {Vol(<<Rom, Nand(form), Padding(64), Secore>>, 0, 0), Vol(<<Secore, Rom, Nand(form)>>, 0, 0),
     Vol(<<Rom, File("fs", "driver", 0, <<Inner(Nand(form)), Pe(60, {"geometry", "hooks"})>>),
           Padding(64), Secore>>, 0, 0)}
    : form \in {"plain", "twice", "drifted", "empty", "packed"}}
MCVisitors == <<
  [guid |-> "rom", patches |-> <<[op |-> "replace", site |-> "name", end |-> 20, by |-> 0]>>],
  [guid |-> "nand", patches |-> <<[op |-> "at", site |-> "chip", end |-> 50, by |-> 0]>>],
  [guid |-> "nand", patches |-> <<[op |-> "expect", site |-> "geometry", end |-> 30, by |-> 0]>>],
  [guid |-> "nand", patches |-> <<[op |-> "grow", site |-> "hooks", end |-> 60, by |-> 27]>>] >>
MCDrifts == {-8, 0, 8}
MCBase == {0, 256}

(* Trampolines that fit, one or two of them of another length: one that     *)
(* just fits, one a word too long, one that is no multiple of a word.       *)
Usual == [scsibridge |-> 512, erasedpage |-> 256, ftlbridge |-> 320, planeerase |-> 240,
          bbtscan |-> 120, blockbridge |-> 640, efi_nand |-> 900]
MCAssemblies ==
  {[Usual EXCEPT ![s] = n] :
     s \in DOMAIN Usual, n \in {240, 242, \h288, \h5b0, \h5b4, \h86c, \hb00, \hb04, \hb1c, \he84}}
  \cup {[Usual EXCEPT !.planeerase = n, !.ftlbridge = k] :
          n \in {242, \h288}, k \in {\hb04, \hd00}}
(* Nothing, the length or the header, a word that is checked, a word that   *)
(* is not, a word in a gap: just behind a trampoline, and in the scratch.   *)
MCPatchDrifts ==
  [recovery |-> {{}, {0}, {\he40b8 + \h51f8 + \h32458}, {\he40b8 + \h51f8 + \h39690}},
   firmware |-> {{}, {0}, {\h5939fb8 + \h51f8 + \h32458}, {\h5853800 + \h2b078}, {\h5853800 + \h2b07c},
                 {\h4e07800 + \h2c10fc}, {\h4e07800 + \h2c1388}, {\h4e07800 + \h745000},
                 {\h4e07800 + \h27d6b8}, {\h4e07800 + \h2d3a0c}},
   module |-> {{}, {0}, {\h230}, {\h6c96}}]
(* A table beside Apple's, one whose entry is over the bridge to SCSI, over  *)
(* the free run of the erase, over the last one's first bytes with its zeros *)
(* only, or behind the end of the blob; one below and one past the range.    *)
MCDeviceTables ==
  {\h0803d100, \h080385d0 - \h280, \h08039680 - \h280, \h08039680 - \h2be, \h0803ffff,
   \h07ffffff, \h08040000}
=============================================================================
